--------------------------- MODULE AccelStore_inv ---------------------------
(* The invariant of AccelStore: what a step of one worker leaves to the     *)
(* others, and how each step keeps it, those that change the locals of one  *)
(* worker only, those under the lock, and those that change the files or    *)
(* end a request.                                                           *)
EXTENDS AccelStore, TLAPS

\* The names that are files, and stay so.
Files == {n \in Names : Links[n] = n}

\* No file is both mapped and replaced by rename(): otherwise old contents may
\* be stored with a new timestamp.
NoneMappedRenamed == Mapped \cap Renamed = {}

\* Without a change between file and link.
FilesOK ==
    /\ \A n \in Names : link[n] \in Files /\ (n \in Files => link[n] = n)
    /\ \A n \in Files \ Renamed : ino[n] = <<n, 0>>
    /\ \A i \in Inodes : ver[i] <= events + 1

\* A file has entries of its own only, which refer to its script; other names
\* have indirect ones, and these end at a file.
EntriesOK ==
    \A e \in DOMAIN entries :
        IF entries[e].indirect
        THEN /\ entries[e].data.kind = "entry"
             /\ entries[e].data.at \in DOMAIN entries
             /\ ~entries[entries[e].data.at].indirect
             /\ entries[e].key \notin Files
        ELSE /\ entries[e].data.kind = "script"
             /\ entries[e].data.at \in DOMAIN scripts
             /\ scripts[entries[e].data.at].path = entries[e].key
             /\ entries[e].key \in Files

\* Scripts are of files, and no timestamp is newer than what was compiled.
ScriptsOK ==
    \A i \in DOMAIN scripts :
        /\ scripts[i].path \in Files
        /\ NoneMappedRenamed => scripts[i].timestamp <= scripts[i].text

\* Where a worker stores what it has compiled or a key, where it holds byte 0,
\* where it has a script, and where it is only in persistent_compile_file().
Storing == {"publish", "walk", "alias", "schedule", "account"}
Held == Storing \cup {"untime", "waste", "due", "clean", "restore"}
HasScript == {"share", "key", "check", "resolve", "stat", "corrupt", "untime", "waste",
              "due", "publish", "account", "run"}
Included == {"open", "miss", "fopen", "fstat", "compile", "store", "publish",
             "account", "run"}

\* An entry with a script of its own.
Direct(e) == e \in DOMAIN entries /\ ~entries[e].indirect

\* What w knows of the names.
NamesOK(w) ==
    /\ op[w].pc \notin {"out", "clean", "restore", "idle"} => op[w].name \in Names
    /\ op[w].call = "include" => op[w].name \in Names /\ link[op[w].name] \in op[w].reach
    /\ op[w].pc \in Included => op[w].call = "include"
    /\ \A f \in Files : op[w].floor[f] <= mtime(f)

\* What w has open.
HandleOK(w) ==
    /\ op[w].opened # None =>
        /\ op[w].opened \in Files
        /\ op[w].name \in Files => op[w].opened = op[w].name
        /\ op[w].call = "include" => op[w].opened \in op[w].reach
    /\ op[w].handle # None =>
        /\ op[w].opened # None /\ op[w].call = "include"
        /\ ver[op[w].handle] >= op[w].floor[op[w].opened]
        /\ op[w].opened \in Mapped \ Renamed => op[w].handle = ino[op[w].opened]
    /\ At(w, "path") => op[w].opened # None
    /\ op[w].pc \in {"share", "key", "fstat", "compile"} => op[w].handle # None

\* What w has found.
FoundOK(w) ==
    /\ op[w].pc \in {"data", "share", "key"} =>
        /\ Direct(op[w].bucket)
        /\ op[w].opened # None => entries[op[w].bucket].key = op[w].opened
    /\ op[w].pc \in {"walk", "alias"} =>
        Direct(op[w].bucket) /\ op[w].name \notin Files
    /\ op[w].pc \in {"walk", "alias", "schedule"} => (op[w].text = 0 => op[w].script # 0)
    /\ op[w].pc \in HasScript => op[w].script # 0
    /\ op[w].script # 0 => op[w].script \in DOMAIN scripts
    /\ At(w, "stat") /\ op[w].call = "include" =>
        LET p == scripts[op[w].script].path
        IN  p \in op[w].reach /\ (op[w].opened # None => op[w].opened = p)
    /\ At(w, "run") =>
        LET s == scripts[op[w].script]
        IN  /\ s.path \in op[w].reach
            /\ NoneMappedRenamed => s.text >= op[w].floor[s.path]

\* What w is about to store, or stores.
StoringOK(w) ==
    /\ op[w].pc \notin {"convert", "wild"}
    /\ op[w].pc \in Held => lock = w
    /\ op[w].pc \in {"out", "clean", "restore", "idle", "miss", "fopen", "fstat", "compile",
                     "store"} => op[w].script = 0
    /\ NoneMappedRenamed /\ At(w, "compile") => op[w].stamp <= ver[op[w].handle]
    /\ op[w].pc \in {"store", "publish", "account"} => op[w].text # 0
    /\ op[w].text # 0 =>
        /\ op[w].pc \in {"store", "run"} \cup Storing
        /\ op[w].opened # None /\ op[w].call = "include"
        /\ NoneMappedRenamed => op[w].stamp <= op[w].text
        /\ op[w].text >= op[w].floor[op[w].opened]
        /\ op[w].script # 0 =>
            /\ scripts[op[w].script].path = op[w].opened
            /\ scripts[op[w].script].text = op[w].text
    /\ At(w, "publish") => Len(entries) < MaxEntries

\* All that is known of the locals of w.
CallOK(w) == NamesOK(w) /\ HandleOK(w) /\ FoundOK(w) /\ StoringOK(w)

\* The inductive invariant, as long as no name changes between file and link.
StoreInv ==
    /\ TypeOK /\ FilesOK /\ EntriesOK /\ ScriptsOK
    /\ \A w \in Workers : CallOK(w)

----------------------------------------------------------------------------
\* What no step but the wipe takes away from a worker in a call.
Grows ==
    /\ \A e \in DOMAIN entries :
        /\ e \in DOMAIN entries'
        /\ entries'[e].key = entries[e].key
        /\ entries'[e].indirect = entries[e].indirect
    /\ \A i \in DOMAIN scripts :
        /\ i \in DOMAIN scripts'
        /\ scripts'[i].path = scripts[i].path
        /\ scripts'[i].text = scripts[i].text
    /\ \A i \in Inodes : ver'[i] >= ver[i]
    /\ \A f \in Files : mtime(f)' >= mtime(f)
    /\ \A f \in Files \ Renamed : ino'[f] = ino[f]

\* The locals that only a step of v changes.
Stays(v) ==
    /\ op'[v].pc = op[v].pc /\ op'[v].call = op[v].call /\ op'[v].name = op[v].name
    /\ op'[v].opened = op[v].opened /\ op'[v].handle = op[v].handle
    /\ op'[v].bucket = op[v].bucket /\ op'[v].script = op[v].script
    /\ op'[v].stamp = op[v].stamp /\ op'[v].text = op[v].text
    /\ op'[v].floor = op[v].floor /\ op[v].reach \subseteq op'[v].reach

\* A worker that does not move keeps what it relies on.
LEMMA Others ==
    ASSUME TypeOK, TypeOK', Grows, NEW v \in Workers, Stays(v), CallOK(v),
           op[v].call = "include" => link'[op[v].name] \in op'[v].reach,
           op[v].pc \in Held => lock' = v,
           At(v, "publish") => Len(entries') = Len(entries)
    PROVE  CallOK(v)'
<1> USE DEF At, Stays
<1>0. /\ op[v] \in Ops
      /\ ver \in [Inodes -> 1 .. MaxEvents + 1] /\ ver' \in [Inodes -> 1 .. MaxEvents + 1]
      /\ ino \in [Names -> Inodes] /\ ino' \in [Names -> Inodes]
      /\ link \in [Names -> Names] /\ link' \in [Names -> Names]
      /\ MaxEvents \in Nat
  BY StoreAssumption DEF TypeOK
<1>1. /\ op[v].floor \in [Names -> 0 .. MaxEvents + 1]
      /\ op[v].handle \in Inodes \cup {None} /\ op[v].opened \in Names \cup {None}
      /\ op[v].stamp \in Int /\ op[v].text \in Int
  BY <1>0 DEF Ops
<1>2. NamesOK(v)'
  <2>1. \A f \in Files : mtime(f) \in Int /\ mtime(f)' \in Int /\ op[v].floor[f] \in Int
    <3>1. \A i \in Inodes : ver[i] \in Int /\ ver'[i] \in Int
      BY <1>0
    <3>2. \A f \in Names : ino[link[f]] \in Inodes /\ ino'[link'[f]] \in Inodes
      BY <1>0
    <3>3. \A f \in Names : op[v].floor[f] \in Int
      BY <1>0, <1>1
    <3> QED
      BY ONLY <3>1, <3>2, <3>3 DEF mtime, Files
  <2> QED
    BY <1>0, <2>1 DEF NamesOK, CallOK, Grows
<1>3. HandleOK(v)'
  <2>1. op[v].handle # None /\ op[v].opened # None =>
            /\ ver[op[v].handle] \in Int /\ ver'[op[v].handle] \in Int
            /\ op[v].floor[op[v].opened] \in Int
            /\ ver'[op[v].handle] >= ver[op[v].handle]
    BY SMTT(40), <1>0, <1>1 DEF Grows
  <2> QED
    BY <1>0, <2>1 DEF HandleOK, CallOK, Grows
<1>4. FoundOK(v)'
  BY <1>0 DEF FoundOK, CallOK, Grows, Direct, HasScript
<1>5. StoringOK(v)'
  <2>1. At(v, "compile") =>
            /\ ver[op[v].handle] \in Int /\ ver'[op[v].handle] \in Int
            /\ ver'[op[v].handle] >= ver[op[v].handle]
    BY <1>0, <1>1 DEF Grows, HandleOK, CallOK
  <2>2. op[v].script # 0 => /\ scripts'[op[v].script].path = scripts[op[v].script].path
                            /\ scripts'[op[v].script].text = scripts[op[v].script].text
    BY Zenon DEF CallOK, FoundOK, Grows
  <2>3. NoneMappedRenamed /\ At(v, "compile") => op[v].stamp <= ver'[op[v].handle]
    BY <1>1, <2>1 DEF StoringOK, CallOK
  <2>4. StoringOK(v)
    BY DEF CallOK
  <2> QED
    BY ONLY <2>4, Stays(v), <2>2, <2>3, op[v].pc \in Held => lock' = v,
            At(v, "publish") => Len(entries') = Len(entries) DEF StoringOK, Storing, Held
<1> QED
  BY <1>2, <1>3, <1>4, <1>5 DEF CallOK

\* The types of the locals, one by one.
LEMMA OpTypes ==
    ASSUME TypeOK, NEW w \in Workers
    PROVE  /\ op[w] \in Ops /\ op[w].pc \in Locations
           /\ op[w].call \in {"include", "invalidate", "force", None}
           /\ op[w].name \in Names \cup {None} /\ op[w].opened \in Names \cup {None}
           /\ op[w].handle \in Inodes \cup {None}
           /\ op[w].bucket \in Nat /\ op[w].script \in Nat
           /\ op[w].stamp \in 0 .. MaxEvents + 1 /\ op[w].text \in 0 .. MaxEvents + 1
           /\ op[w].floor \in [Names -> 0 .. MaxEvents + 1] /\ op[w].reach \subseteq Names
<1>1. op[w] \in Ops
  BY DEF TypeOK
<1> QED
  BY <1>1 DEF Ops

\* Timestamps, and the contents they stand for, are numbers.
LEMMA Times ==
    ASSUME TypeOK
    PROVE  /\ MaxEvents \in Nat
           /\ \A i \in Inodes : ver[i] \in 1 .. MaxEvents + 1 /\ ver[i] \in Int
           /\ \A n \in Names : mtime(n) \in 1 .. MaxEvents + 1 /\ mtime(n) \in Int
           /\ \A w \in Workers, n \in Names : op[w].floor[n] \in Int
           /\ \A w \in Workers : op[w].stamp \in Int /\ op[w].text \in Int
<1>1. MaxEvents \in Nat /\ \A i \in Inodes : ver[i] \in 1 .. MaxEvents + 1 /\ ver[i] \in Int
  BY StoreAssumption DEF TypeOK
<1>2. \A n \in Names : ino[link[n]] \in Inodes
  BY DEF TypeOK
<1>3. \A w \in Workers : op[w].floor \in [Names -> 0 .. MaxEvents + 1]
  BY OpTypes
<1>4. \A w \in Workers : op[w].stamp \in 0 .. MaxEvents + 1 /\ op[w].text \in 0 .. MaxEvents + 1
  BY OpTypes
<1> QED
  BY <1>1, <1>2, <1>3, <1>4 DEF mtime

\* A step of w that changes its locals only.
LEMMA LocalStep ==
    ASSUME StoreInv, NEW w \in Workers, UNCHANGED <<files, segment, lock>>,
           counted' \in [Workers -> BOOLEAN],
           op' = [op EXCEPT ![w] = op'[w]], op'[w] \in Ops, CallOK(w)'
    PROVE  StoreInv'
<1> USE DEF files, segment, restart
<1>1. TypeOK'
  BY DEF StoreInv, TypeOK
<1>2. FilesOK' /\ EntriesOK' /\ ScriptsOK'
  BY DEF StoreInv, FilesOK, EntriesOK, ScriptsOK
<1>3. Grows
  <2>1. /\ \A i \in Inodes : ver[i] \in Int
        /\ \A f \in Files : mtime(f) \in Int
    BY StoreAssumption DEF StoreInv, TypeOK, mtime, Files
  <2> QED
    BY <2>1 DEF Grows, mtime
<1>4. ASSUME NEW v \in Workers PROVE CallOK(v)'
  <2>1. CASE v = w
    BY SMTT(40), <2>1
  <2>2. CASE v # w
    <3>1. op'[v] = op[v] /\ CallOK(v)
      BY <2>2 DEF StoreInv, TypeOK
    <3>2. op[v].pc \in Held => lock' = v
      BY <3>1 DEF CallOK, StoringOK
    <3> QED
      BY <1>1, <1>3, <3>1, <3>2, Others DEF StoreInv, Stays, CallOK, NamesOK
  <2> QED
    BY <2>1, <2>2
<1> QED
  BY <1>1, <1>2, <1>4 DEF StoreInv

\* Between two calls nothing is to be known of a worker.
LEMMA Idle ==
    ASSUME StoreInv, NEW w \in Workers,
           \/ op'[w] \in {Inside, Outside}
           \/ op'[w] = [Inside EXCEPT !.pc = "clean"] /\ lock' = w,
           ver' \in [Inodes -> 1 .. MaxEvents + 1], ino' \in [Names -> Inodes],
           link' \in [Names -> Names]
    PROVE  op'[w] \in Ops /\ CallOK(w)'
<1> DEFINE q == op'[w]
           none == [n \in Names |-> 0]
<1>1. PICK l \in {"out", "clean", "idle"} :
        /\ q = [pc |-> l, call |-> None, name |-> None, opened |-> None,
                handle |-> None, bucket |-> 0, script |-> 0, stamp |-> 0, text |-> 0,
                floor |-> none, reach |-> {}]
        /\ l = "clean" => lock' = w
  BY DEF Outside, Inside
<1>2. /\ q.pc = l /\ q.call = None /\ q.name = None /\ q.opened = None
      /\ q.handle = None /\ q.bucket = 0 /\ q.script = 0 /\ q.stamp = 0 /\ q.text = 0
      /\ q.floor = none /\ q.reach = {}
  <2> HIDE DEF q, none
  <2> QED
    BY ONLY <1>1
<1>3. q \in Ops
  <2>1. /\ l \in Locations /\ 0 \in 0 .. MaxEvents + 1 /\ 0 \in Nat
        /\ none \in [Names -> 0 .. MaxEvents + 1]
    BY StoreAssumption DEF Locations
  <2> HIDE DEF q, none
  <2> QED
    BY ONLY Zenon, <1>1, <2>1 DEF Ops
<1>4. \A f \in Files : q.floor[f] = 0 /\ 0 <= mtime(f)'
  <2>1. \A f \in Names : ver'[ino'[link'[f]]] \in 1 .. MaxEvents + 1
    OBVIOUS
  <2>2. \A f \in Files : 0 <= mtime(f)'
    BY ONLY <2>1, StoreAssumption DEF Files, mtime
  <2>3. \A f \in Files : none[f] = 0
    BY DEF Files
  <2> QED
    BY Zenon, <1>2, <2>2, <2>3
<1> HIDE DEF q, none
<1>5. None # "include"
  BY StoreAssumption
<1>6. NamesOK(w)' /\ HandleOK(w)'
  BY ONLY <1>1, <1>2, <1>4, <1>5 DEF NamesOK, HandleOK, At, Included, q
<1>7. FoundOK(w)' /\ StoringOK(w)'
  BY ONLY <1>1, <1>2, <1>5 DEF FoundOK, StoringOK, At, HasScript, Storing, Held, q
<1> QED
  BY <1>3, <1>6, <1>7 DEF CallOK, q

\* A lookup comes to a direct entry, from a file to its own.
LEMMA FindEntry ==
    ASSUME EntriesOK, TypeOK, NEW k, zend_accel_hash_find_entry(k) # 0
    PROVE  /\ Direct(zend_accel_hash_find_entry(k))
           /\ zend_accel_hash_find_entry(k) \in Nat
           /\ k \in Files => /\ entries[zend_accel_hash_find_entry(k)].key = k
                             /\ zend_accel_hash_find_entry(k) = CHOOSE e \in Published(k) : TRUE
<1> DEFINE e == CHOOSE e \in Published(k) : TRUE
<1>1. e \in Published(k)
  BY DEF zend_accel_hash_find_entry
<1>2. e \in DOMAIN entries /\ entries[e].key = k
  BY <1>1 DEF Published
<1>3. zend_accel_hash_find_entry(k) = IF entries[e].indirect THEN entries[e].data.at ELSE e
  BY DEF zend_accel_hash_find_entry
<1>4. DOMAIN entries \subseteq Nat
  BY DEF TypeOK
<1> HIDE DEF e
<1>5. Direct(zend_accel_hash_find_entry(k)) /\ (k \in Files => zend_accel_hash_find_entry(k) = e)
  BY <1>2, <1>3 DEF EntriesOK, Direct
<1> QED
  BY Zenon, <1>2, <1>4, <1>5 DEF Direct, e

\* The file that w opens.
LEMMA OpenedStep ==
    ASSUME StoreInv, NEW w \in Workers, UNCHANGED <<files, segment>>,
           NEW l \in {"path", "fstat"}, op'[w] = Opened(w, l),
           op[w].pc \in {"open", "fopen"}, l = "fstat" => op[w].script = 0
    PROVE  op'[w] \in Ops /\ CallOK(w)'
<1> DEFINE o == op[w]
           q == op'[w]
           p == link[o.name]
<1>0. TypeOK /\ CallOK(w) /\ o \in Ops
  BY OpTypes DEF StoreInv
<1>1. /\ o.call = "include" /\ o.name \in Names
      /\ p \in o.reach /\ p \in Files /\ (o.name \in Files => p = o.name)
  BY DEF At, StoreInv, CallOK, NamesOK, Included, FilesOK
<1>2. q = [o EXCEPT !.pc = l, !.opened = p, !.handle = ino[p]]
  BY DEF Opened
<1>3. p \in Names /\ ino[p] \in Inodes /\ ver[ino[p]] >= o.floor[p]
  BY <1>0, <1>1 DEF StoreInv, TypeOK, FilesOK, Files, CallOK, NamesOK, mtime
<1>4. /\ q \in Ops /\ q.pc = l /\ q.call = o.call /\ q.name = o.name /\ q.opened = p
      /\ q.handle = ino[p] /\ q.bucket = o.bucket /\ q.script = o.script
      /\ q.stamp = o.stamp /\ q.text = o.text /\ q.floor = o.floor
      /\ q.reach = o.reach
  <2>1. l \in Locations /\ p \in Names \cup {None} /\ ino[p] \in Inodes \cup {None}
    BY <1>3 DEF Locations
  <2> HIDE DEF o, q, p
  <2> QED
    BY ONLY Zenon, <1>0, <1>2, <2>1 DEF Ops
<1> USE DEF At
<1>. link' = link /\ ino' = ino /\ ver' = ver /\ scripts' = scripts
  BY Zenon DEF files, segment, restart
<1>5. NamesOK(w)'
  BY <1>0, <1>1, <1>4 DEF CallOK, NamesOK, mtime
<1>6. HandleOK(w)'
  <2>1. l \notin {"share", "key", "compile"} /\ p # None /\ ino[p] # None
    BY <1>3, StoreAssumption DEF Inodes
  <2>2. q.opened = p /\ q.handle = ino[p] /\ q.pc = l /\ q.name = o.name /\ q.call = o.call
        /\ q.reach = o.reach /\ q.floor = o.floor
    BY <1>4
  <2> HIDE DEF p, o
  <2> QED
    BY <1>1, <1>3, <2>1, <2>2 DEF HandleOK
<1>7. o.text = 0
  BY <1>0 DEF CallOK, StoringOK, Storing, Held
<1>8. FoundOK(w)' /\ StoringOK(w)'
  BY Zenon, <1>0, <1>1, <1>4, <1>7 DEF CallOK, FoundOK, StoringOK, HasScript, Storing, Held
<1> QED
  BY <1>4, <1>5, <1>6, <1>8 DEF CallOK

\* w goes on without a script.
LEMMA NotFoundStep ==
    ASSUME StoreInv, NEW w \in Workers, UNCHANGED files, op'[w] = NotFound(w),
           op[w].pc \in {"path", "check", "corrupt", "due"}
    PROVE  op'[w] \in Ops /\ CallOK(w)'
<1> DEFINE o == op[w]
           q == op'[w]
<1>0. TypeOK /\ CallOK(w) /\ o \in Ops
  BY OpTypes DEF StoreInv
<1>1. CASE o.call # "include"
  <2>1. q = Inside
    BY <1>1 DEF NotFound
  <2> QED
    BY Zenon, <1>0, <2>1, Idle DEF files, TypeOK
<1>2. CASE o.call = "include"
  <2>1. q = [o EXCEPT !.pc = "miss", !.bucket = 0, !.script = 0]
    BY <1>2 DEF NotFound
  <2>2. /\ q \in Ops /\ q.pc = "miss" /\ q.call = o.call /\ q.name = o.name
      /\ q.opened = o.opened /\ q.handle = o.handle /\ q.bucket = 0 /\ q.script = 0
      /\ q.stamp = o.stamp /\ q.text = o.text /\ q.floor = o.floor
      /\ q.reach = o.reach
    <3>1. "miss" \in Locations
      BY Zenon DEF Locations
    <3> HIDE DEF o, q
    <3> QED
      BY ONLY Zenon, <1>0, <2>1, <3>1 DEF Ops
  <2> USE DEF At
  <2>3. NamesOK(w)' /\ HandleOK(w)'
    BY Zenon, <1>0, <1>2, <2>2 DEF CallOK, NamesOK, HandleOK, files, mtime
  <2>4. o.text = 0
    BY Zenon, <1>0 DEF CallOK, StoringOK, Storing, Held
  <2>5. FoundOK(w)' /\ StoringOK(w)'
    BY Zenon, <2>2, <2>4 DEF FoundOK, StoringOK, HasScript, Storing, Held
  <2> QED
    BY <2>2, <2>3, <2>5 DEF CallOK
<1> QED
  BY <1>1, <1>2

\* w goes on with its script.
LEMMA FoundStep ==
    ASSUME StoreInv, NEW w \in Workers, UNCHANGED files,
           NEW l \in {"check", "resolve", "stat", "corrupt", "run"},
           op'[w] = Found(w, l), op[w].name \in Names,
           op[w].script # 0, op[w].script \in DOMAIN scripts',
           op[w].text # 0 =>
             /\ l = "run"
             /\ scripts'[op[w].script].path = op[w].opened
             /\ scripts'[op[w].script].text = op[w].text,
           l = "stat" /\ op[w].call = "include" =>
             /\ scripts'[op[w].script].path \in op[w].reach
             /\ op[w].opened # None => op[w].opened = scripts'[op[w].script].path,
           l = "run" =>
             /\ op[w].call = "include"
             /\ scripts'[op[w].script].path \in op[w].reach
             /\ NoneMappedRenamed =>
                  scripts'[op[w].script].text >= op[w].floor[scripts'[op[w].script].path]
    PROVE  op'[w] \in Ops /\ CallOK(w)'
<1> DEFINE o == op[w]
           q == op'[w]
<1>0. TypeOK /\ CallOK(w) /\ o \in Ops
  BY OpTypes DEF StoreInv
<1>2. q = [o EXCEPT !.pc = l, !.bucket = 0]
  BY Zenon DEF Found
<1>3. o \in Ops
  BY <1>0
<1>4. /\ q \in Ops /\ q.pc = l /\ q.call = o.call /\ q.name = o.name
      /\ q.opened = o.opened /\ q.handle = o.handle /\ q.bucket = 0
      /\ q.script = o.script /\ q.stamp = o.stamp /\ q.text = o.text
      /\ q.floor = o.floor /\ q.reach = o.reach
  <2>1. l \in Locations
    BY DEF Locations
  <2> HIDE DEF o, q
  <2> QED
    BY ONLY Zenon, <1>3, <1>2, <2>1 DEF Ops
<1> USE DEF At
<1>5. NamesOK(w)' /\ HandleOK(w)'
  BY Zenon, <1>0, <1>4 DEF CallOK, NamesOK, HandleOK, files, mtime, Included
<1>6. FoundOK(w)'
  BY <1>4 DEF FoundOK, HasScript
<1>7. StoringOK(w)'
  BY Zenon, <1>0, <1>4 DEF CallOK, StoringOK, Storing, Held
<1> QED
  BY Zenon, <1>4, <1>5, <1>6, <1>7 DEF CallOK

\* A step that has the form Local.
LEMMA LocalMove ==
    ASSUME StoreInv, NEW w \in Workers, NEW r, Local(w, r)
    PROVE  /\ op'[w] = r /\ op' = [op EXCEPT ![w] = op'[w]]
           /\ UNCHANGED <<files, segment, lock>> /\ counted' \in [Workers -> BOOLEAN]
           /\ link' = link /\ ino' = ino /\ ver' = ver
           /\ entries' = entries /\ scripts' = scripts
BY DEF StoreInv, TypeOK, Local, files, segment, restart

\* The end of a call, and of a request.
LEMMA IdleStep ==
    ASSUME StoreInv, NEW w \in Workers, UNCHANGED <<files, segment, lock>>,
           counted' \in [Workers -> BOOLEAN],
           op' = [op EXCEPT ![w] = op'[w]], op'[w] \in {Inside, Outside}
    PROVE  StoreInv'
<1>1. /\ ver' \in [Inodes -> 1 .. MaxEvents + 1] /\ ino' \in [Names -> Inodes]
      /\ link' \in [Names -> Names]
  BY DEF StoreInv, TypeOK, files
<1>2. op'[w] \in Ops /\ CallOK(w)'
  BY <1>1, Idle
<1> QED
  BY <1>2, LocalStep

\* Before a worker stores, it has compiled nothing.
LEMMA NothingCompiled ==
    ASSUME StoreInv, NEW w \in Workers,
           op[w].pc \notin {"store", "run"} \cup Storing
    PROVE  op[w].text = 0
BY DEF StoreInv, CallOK, StoringOK

----------------------------------------------------------------------------
\* accelerator_orig_zend_stream_open_function() opens the file of the name.
LEMMA OpenStep ==
    ASSUME StoreInv, NEW w \in Workers, OpenToResolve(w) \/ OpenToCompile(w)
    PROVE  StoreInv'
<1>1. CallOK(w)
  BY DEF StoreInv
<1>2. CASE OpenToResolve(w)
  <2>1. At(w, "open") /\ Local(w, Opened(w, "path"))
    BY <1>2 DEF OpenToResolve
  <2>2. op'[w] \in Ops /\ CallOK(w)'
    BY Zenon, <2>1, LocalMove, OpenedStep DEF At
  <2> QED
    BY <2>1, <2>2, LocalMove, LocalStep
<1>3. CASE OpenToCompile(w)
  <2>1. At(w, "fopen") /\ Local(w, Opened(w, "fstat")) /\ op[w].script = 0
    BY Zenon, <1>1, <1>3 DEF OpenToCompile, CallOK, StoringOK, At
  <2>2. op'[w] \in Ops /\ CallOK(w)'
    BY <2>1, LocalMove, OpenedStep DEF At
  <2> QED
    BY Zenon, <2>1, <2>2, LocalMove, LocalStep
<1> QED
  BY <1>2, <1>3

\* FindByPath(): the path's own entry is found.
LEMMA FindByPathStep ==
    ASSUME StoreInv, NEW w \in Workers, FindByPath(w)
    PROVE  StoreInv'
<1> DEFINE o == op[w]
           q == op'[w]
           b == zend_accel_hash_find_entry(o.opened)
<1>0. TypeOK /\ CallOK(w) /\ o \in Ops
  BY OpTypes DEF StoreInv
<1>1. /\ o.pc = "path" /\ o.opened # None /\ o.opened \in Files /\ o.name \in Names
      /\ o.text = 0
  BY <1>0, NothingCompiled DEF FindByPath, CallOK, NamesOK, HandleOK, Storing, Held, At
<1>2. Local(w, IF b # 0 THEN [o EXCEPT !.pc = "data", !.bucket = b] ELSE NotFound(w))
  BY DEF FindByPath
<1>3. CASE b = 0
  <2>1. Local(w, NotFound(w))
    BY <1>2, <1>3
  <2>2. op'[w] \in Ops /\ CallOK(w)'
    BY <1>1, <2>1, LocalMove, NotFoundStep
  <2> QED
    BY <2>1, <2>2, LocalMove, LocalStep
<1>4. CASE b # 0
  <2>1. Local(w, [o EXCEPT !.pc = "data", !.bucket = b])
    BY <1>2, <1>4
  <2>2. b \in Nat /\ Direct(b) /\ entries[b].key = o.opened
    BY <1>0, <1>1, <1>4, FindEntry DEF StoreInv
  <2> HIDE DEF b
  <2>3. q = [o EXCEPT !.pc = "data", !.bucket = b]
    BY <2>1, LocalMove
  <2>4. /\ q \in Ops /\ q.pc = "data" /\ q.call = o.call /\ q.name = o.name
      /\ q.opened = o.opened /\ q.handle = o.handle /\ q.bucket = b
      /\ q.script = o.script /\ q.stamp = o.stamp /\ q.text = o.text
      /\ q.floor = o.floor /\ q.reach = o.reach
    <3>1. "data" \in Locations
      BY DEF Locations
    <3> HIDE DEF o, q
    <3> QED
      BY ONLY Zenon, <1>0, <2>2, <2>3, <3>1 DEF Ops
  <2> USE DEF At
  <2>. link' = link /\ ino' = ino /\ ver' = ver /\ scripts' = scripts /\ entries' = entries
    BY Zenon, <2>1, LocalMove
  <2>5. NamesOK(w)' /\ HandleOK(w)'
    BY Zenon, <1>0, <1>1, <2>4 DEF CallOK, NamesOK, HandleOK, mtime, Included
  <2>6. FoundOK(w)'
    BY Zenon, <1>0, <1>1, <2>2, <2>4 DEF CallOK, FoundOK, HasScript, Direct
  <2>7. StoringOK(w)'
    BY <1>1, <2>4 DEF StoringOK, Storing, Held
  <2> QED
    BY <2>1, <2>4, <2>5, <2>6, <2>7, LocalMove, LocalStep DEF CallOK
<1> QED
  BY <1>3, <1>4

\* ReadData(): the entry is direct, so its data is a script.
LEMMA ReadDataStep ==
    ASSUME StoreInv, NEW w \in Workers, ReadData(w)
    PROVE  StoreInv'
<1> DEFINE o == op[w]
           q == op'[w]
           i == entries[o.bucket].data.at
           l == IF o.handle # None THEN "share" ELSE "check"
           b == IF l = "share" THEN o.bucket ELSE 0
<1>0. TypeOK /\ CallOK(w) /\ o \in Ops
  BY OpTypes DEF StoreInv
<1>1. /\ o.pc = "data" /\ Direct(o.bucket) /\ o.name \in Names /\ o.text = 0
      /\ o.opened # None => entries[o.bucket].key = o.opened
  BY Zenon, <1>0, NothingCompiled DEF ReadData, CallOK, NamesOK, FoundOK, Storing, Held, At
<1>2. /\ entries[o.bucket].data.kind = "script" /\ i \in DOMAIN scripts
      /\ i \in Nat /\ i # 0
  BY <1>0, <1>1 DEF StoreInv, EntriesOK, Direct, TypeOK
<1>3. Local(w, [o EXCEPT !.pc = l, !.script = i, !.bucket = b])
  BY <1>2 DEF ReadData
<1>4. q = [o EXCEPT !.pc = l, !.script = i, !.bucket = b]
  BY Zenon, <1>3, LocalMove
<1>5. l \in Locations /\ b \in Nat /\ (l = "share" => b = o.bucket /\ o.handle # None)
      /\ l \in {"share", "check"}
  BY <1>0, OpTypes DEF Locations
<1> HIDE DEF i, l, b
<1>6. /\ q \in Ops /\ q.pc = l /\ q.call = o.call /\ q.name = o.name
      /\ q.opened = o.opened /\ q.handle = o.handle /\ q.bucket = b /\ q.script = i
      /\ q.stamp = o.stamp /\ q.text = o.text /\ q.floor = o.floor
      /\ q.reach = o.reach
  <2> HIDE DEF o, q
  <2> QED
    BY ONLY Zenon, <1>0, <1>2, <1>4, <1>5 DEF Ops
<1> USE DEF At
<1>. link' = link /\ ino' = ino /\ ver' = ver /\ scripts' = scripts /\ entries' = entries
  BY Zenon, <1>3, LocalMove
<1>7. NamesOK(w)' /\ HandleOK(w)'
  BY Zenon, <1>0, <1>1, <1>5, <1>6 DEF CallOK, NamesOK, HandleOK, mtime, Included
<1>8. FoundOK(w)'
  BY Zenon, <1>1, <1>2, <1>5, <1>6 DEF FoundOK, HasScript, Direct
<1>9. StoringOK(w)'
  BY Zenon, <1>1, <1>5, <1>6 DEF StoringOK, Storing, Held
<1> QED
  BY Zenon, <1>3, <1>6, <1>7, <1>8, <1>9, LocalMove, LocalStep DEF CallOK

\* ShareKey(), CheckCorrupted(), ValidatePath(): the lookup goes on.
LEMMA ShareKeyStep ==
    ASSUME StoreInv, NEW w \in Workers, ShareKey(w)
    PROVE  StoreInv'
<1> DEFINE o == op[w]
           q == op'[w]
<1>0. TypeOK /\ CallOK(w) /\ o \in Ops
  BY OpTypes DEF StoreInv
<1>1. /\ o.pc = "share" /\ o.name \in Names /\ o.text = 0
      /\ o.script # 0 /\ o.script \in DOMAIN scripts
  BY <1>0, NothingCompiled DEF ShareKey, CallOK, NamesOK, FoundOK, HasScript, Storing, Held, At
<1>3. CASE scripts[o.script].corrupted
  <2>1. Local(w, Found(w, "check"))
    BY <1>3 DEF ShareKey
  <2>2. op'[w] \in Ops /\ CallOK(w)'
    BY <1>1, <2>1, LocalMove, FoundStep
  <2> QED
    BY <2>1, <2>2, LocalMove, LocalStep
<1>4. CASE ~scripts[o.script].corrupted
  <2>1. Local(w, [o EXCEPT !.pc = "key"])
    BY <1>4 DEF ShareKey
  <2>2. q = [o EXCEPT !.pc = "key"]
    BY <2>1, LocalMove
  <2>3. /\ q \in Ops /\ q.pc = "key" /\ q.call = o.call /\ q.name = o.name
      /\ q.opened = o.opened /\ q.handle = o.handle /\ q.bucket = o.bucket
      /\ q.script = o.script /\ q.stamp = o.stamp /\ q.text = o.text
      /\ q.floor = o.floor /\ q.reach = o.reach
    <3>1. "key" \in Locations
      BY DEF Locations
    <3> HIDE DEF o, q
    <3> QED
      BY ONLY <1>0, <2>2, <3>1 DEF Ops
  <2> USE DEF At
  <2>. link' = link /\ ino' = ino /\ ver' = ver /\ scripts' = scripts /\ entries' = entries
    BY Zenon, <2>1, LocalMove
  <2>4. NamesOK(w)' /\ HandleOK(w)'
    BY Zenon, <1>0, <1>1, <2>3 DEF CallOK, NamesOK, HandleOK, mtime, Included
  <2>5. FoundOK(w)'
    BY Zenon, <1>0, <1>1, <2>3 DEF CallOK, FoundOK, HasScript, Direct
  <2>6. StoringOK(w)'
    BY <1>1, <2>3 DEF StoringOK, Storing, Held
  <2> QED
    BY <2>1, <2>3, <2>4, <2>5, <2>6, LocalMove, LocalStep DEF CallOK
<1> QED
  BY <1>3, <1>4

\* A script that is marked as corrupted is not used.
LEMMA CheckCorruptedStep ==
    ASSUME StoreInv, NEW w \in Workers, CheckCorrupted(w)
    PROVE  StoreInv'
<1> DEFINE o == op[w]
           q == op'[w]
           l == IF o.call = "force" THEN "corrupt" ELSE "resolve"
<1>0. TypeOK /\ CallOK(w) /\ o \in Ops
  BY OpTypes DEF StoreInv
<1>1. /\ o.pc = "check" /\ o.name \in Names /\ o.text = 0
      /\ o.script # 0 /\ o.script \in DOMAIN scripts
  BY <1>0, NothingCompiled
     DEF CheckCorrupted, CallOK, NamesOK, FoundOK, HasScript, Storing, Held, At
<1>2. Local(w, NotFound(w)) \/ Local(w, Found(w, l))
  BY DEF CheckCorrupted
<1>3. l \in {"check", "resolve", "stat", "corrupt", "run"} /\ l \notin {"stat", "run"}
  OBVIOUS
<1> HIDE DEF l
<1>4. op'[w] \in Ops /\ CallOK(w)'
  <2>1. CASE Local(w, NotFound(w))
    BY SMTT(40), <1>1, <2>1, LocalMove, NotFoundStep
  <2>2. CASE Local(w, Found(w, l))
    BY <1>1, <1>3, <2>2, LocalMove, FoundStep
  <2> QED
    BY Zenon, <1>2, <2>1, <2>2
<1> QED
  BY ZenonT(60), <1>2, <1>4, LocalMove, LocalStep

\* do_validate_timestamps() compares the path.
LEMMA ValidatePathStep ==
    ASSUME StoreInv, NEW w \in Workers, ValidatePath(w)
    PROVE  StoreInv'
<1> DEFINE o == op[w]
           q == op'[w]
           p == IF o.opened # None THEN o.opened ELSE link[o.name]
           l == IF scripts[o.script].path = p THEN "stat" ELSE "corrupt"
<1>0. TypeOK /\ CallOK(w) /\ o \in Ops
  BY OpTypes DEF StoreInv
<1>1. /\ o.pc = "resolve" /\ o.name \in Names /\ o.text = 0
      /\ o.script # 0 /\ o.script \in DOMAIN scripts
  BY Zenon, <1>0, NothingCompiled
     DEF ValidatePath, CallOK, NamesOK, FoundOK, HasScript, Storing, Held, At
<1>2. Local(w, Found(w, l))
  BY ZenonT(60) DEF ValidatePath
<1>3. o.call = "include" => p \in o.reach
  BY <1>0 DEF CallOK, NamesOK, HandleOK
<1>4. /\ l \in {"check", "resolve", "stat", "corrupt", "run"} /\ l # "run"
      /\ l = "stat" => scripts[o.script].path = p
  OBVIOUS
<1>5. o.opened # None => p = o.opened
  BY ZenonT(60)
<1> HIDE DEF l, p
<1>6. op'[w] \in Ops /\ CallOK(w)'
  BY <1>1, <1>2, <1>3, <1>4, <1>5, LocalMove, FoundStep
<1> QED
  BY Zenon, <1>2, <1>6, LocalMove, LocalStep

\* ValidateTimestamp(): a script that is valid was compiled from contents not
\* older than the file had when the call began.
LEMMA ValidateTimestampStep ==
    ASSUME StoreInv, NEW w \in Workers, ValidateTimestamp(w)
    PROVE  StoreInv'
<1> DEFINE o == op[w]
           q == op'[w]
           s == scripts[o.script]
           valid == /\ s.timestamp # 0
                    /\ \/ /\ o.opened # None
                          /\ zend_get_file_handle_timestamp(w) = s.timestamp
                       \/ mtime(s.path) = s.timestamp
<1>0. TypeOK /\ CallOK(w) /\ o \in Ops
  BY OpTypes DEF StoreInv
<1>1. /\ o.pc = "stat" /\ o.name \in Names /\ o.text = 0
      /\ o.script # 0 /\ o.script \in DOMAIN scripts
  BY Zenon, <1>0, NothingCompiled
     DEF ValidateTimestamp, CallOK, NamesOK, FoundOK, HasScript, Storing, Held, At
<1>2. Local(w, IF ~valid THEN Found(w, "corrupt")
               ELSE IF o.call = "include" THEN Found(w, "run") ELSE Inside)
  BY DEF ValidateTimestamp
<1>3. CASE ~valid
  <2>1. Local(w, Found(w, "corrupt"))
    BY ZenonT(60), <1>2, <1>3
  <2>2. op'[w] \in Ops /\ CallOK(w)'
    BY <1>1, <2>1, LocalMove, FoundStep
  <2> QED
    BY Zenon, <2>1, <2>2, LocalMove, LocalStep
<1>4. CASE valid /\ o.call # "include"
  <2>1. Local(w, Inside)
    BY <1>2, <1>4
  <2> QED
    BY <2>1, LocalMove, IdleStep
<1>5. CASE valid /\ o.call = "include"
  <2>1. Local(w, Found(w, "run"))
    BY <1>2, <1>5
  <2>2. /\ s.path \in o.reach /\ s.path \in Files
        /\ o.opened # None => o.opened = s.path
    BY Zenon, <1>0, <1>1, <1>5 DEF StoreInv, ScriptsOK, CallOK, FoundOK, At
  <2>3. NoneMappedRenamed => s.timestamp <= s.text
    BY Zenon, <1>1 DEF StoreInv, ScriptsOK
  <2>4. s.timestamp >= o.floor[s.path]
    <3>1. mtime(s.path) >= o.floor[s.path]
      <4>1. o.floor[s.path] <= mtime(s.path)
        BY Zenon, <1>0, <2>2 DEF CallOK, NamesOK
      <4>2. mtime(s.path) \in Int /\ o.floor[s.path] \in Int
        BY Zenon, <1>0, <2>2, Times DEF Files
      <4> QED
        BY Zenon, <4>1, <4>2
    <3>2. CASE mtime(s.path) = s.timestamp
      BY Zenon, <3>1, <3>2
    <3>3. CASE o.opened # None /\ zend_get_file_handle_timestamp(w) = s.timestamp
      BY Zenon, <1>0, <2>2, <3>1, <3>3
         DEF zend_get_file_handle_timestamp, CallOK, HandleOK
    <3> QED
      BY Zenon, <1>5, <3>2, <3>3
  <2>5. s.timestamp \in Int /\ s.text \in Int /\ o.floor[s.path] \in Int
    <3>1. s \in Scripts
      BY <1>0, <1>1 DEF TypeOK
    <3> HIDE DEF s
    <3>2. s.timestamp \in Int /\ s.text \in Int
      BY <3>1, StoreAssumption DEF Scripts
    <3> QED
      BY <1>0, <2>2, <3>2, Times DEF Files
  <2>6. NoneMappedRenamed => s.text >= o.floor[s.path]
    BY <2>3, <2>4, <2>5
  <2>7. op'[w] \in Ops /\ CallOK(w)'
    BY Zenon, <1>1, <1>5, <2>1, <2>2, <2>6, LocalMove, FoundStep
  <2> QED
    BY Zenon, <2>1, <2>7, LocalMove, LocalStep
<1> QED
  BY Zenon, <1>3, <1>4, <1>5

\* A miss goes on to compile_and_cache_file(), or not.
LEMMA CacheMissStep ==
    ASSUME StoreInv, NEW w \in Workers, CacheMiss(w)
    PROVE  StoreInv'
<1> DEFINE o == op[w]
           q == op'[w]
           l == IF o.handle = None THEN "fopen" ELSE "fstat"
<1>0. TypeOK /\ CallOK(w) /\ o \in Ops
  BY OpTypes DEF StoreInv
<1>1. /\ o.pc = "miss" /\ o.name \in Names /\ o.text = 0 /\ o.script = 0
      /\ o.call = "include"
  BY <1>0, NothingCompiled DEF CacheMiss, CallOK, NamesOK, StoringOK, Included, Storing, Held, At
<1>2. CASE memory_exhausted \/ restart_pending
  <2>1. Local(w, Inside)
    BY <1>2 DEF CacheMiss
  <2> QED
    BY <2>1, LocalMove, IdleStep
<1>3. CASE ~(memory_exhausted \/ restart_pending)
  <2>1. Local(w, [o EXCEPT !.pc = l])
    BY <1>3 DEF CacheMiss
  <2>2. q = [o EXCEPT !.pc = l]
    BY <2>1, LocalMove
  <2>3. l \in {"fopen", "fstat"} /\ (l = "fstat" => o.handle # None) /\ l \in Locations
    BY DEF Locations
  <2> HIDE DEF l
  <2>4. /\ q \in Ops /\ q.pc = l /\ q.call = o.call /\ q.name = o.name
      /\ q.opened = o.opened /\ q.handle = o.handle /\ q.bucket = o.bucket
      /\ q.script = o.script /\ q.stamp = o.stamp /\ q.text = o.text
      /\ q.floor = o.floor /\ q.reach = o.reach
    <3> HIDE DEF o, q
    <3> QED
      BY ONLY <1>0, <2>2, <2>3 DEF Ops
  <2> USE DEF At
  <2>. link' = link /\ ino' = ino /\ ver' = ver /\ scripts' = scripts /\ entries' = entries
    BY <2>1, LocalMove
  <2>5. NamesOK(w)' /\ HandleOK(w)'
    BY Zenon, <1>0, <1>1, <2>3, <2>4 DEF CallOK, NamesOK, HandleOK, mtime
  <2>6. FoundOK(w)' /\ StoringOK(w)'
    BY Zenon, <1>1, <2>3, <2>4 DEF FoundOK, StoringOK, HasScript, Storing, Held
  <2> QED
    BY <2>1, <2>4, <2>5, <2>6, LocalMove, LocalStep DEF CallOK
<1> QED
  BY <1>2, <1>3

\* StatFile(): the timestamp is not newer than what is open.
LEMMA StatFileStep ==
    ASSUME StoreInv, NEW w \in Workers, StatFile(w)
    PROVE  StoreInv'
<1> DEFINE o == op[w]
           q == op'[w]
           t == zend_get_file_handle_timestamp(w)
<1>0. TypeOK /\ CallOK(w) /\ o \in Ops
  BY OpTypes DEF StoreInv
<1>1. /\ o.pc = "fstat" /\ o.name \in Names /\ o.text = 0 /\ o.script = 0
      /\ o.call = "include" /\ o.handle # None /\ o.opened # None /\ o.opened \in Files
  BY <1>0, NothingCompiled
     DEF StatFile, CallOK, NamesOK, HandleOK, StoringOK, Included, Storing, Held, At
<1>2. CASE Local(w, Inside)
  BY <1>2, LocalMove, IdleStep
<1>3. CASE Local(w, [o EXCEPT !.pc = "compile", !.stamp = t])
  <2>1. Local(w, [o EXCEPT !.pc = "compile", !.stamp = t])
    BY <1>3
  <2>2. q = [o EXCEPT !.pc = "compile", !.stamp = t]
    BY Zenon, <2>1, LocalMove
  <2>3. /\ o.handle \in Inodes /\ o.opened \in Names
        /\ link[o.opened] = o.opened
    BY Zenon, <1>0, <1>1, OpTypes DEF StoreInv, FilesOK, Files
  <2>4. t \in 0 .. MaxEvents + 1 /\ (NoneMappedRenamed => t <= ver[o.handle])
    <3>1. CASE o.opened \in Mapped
      <4>1. t = ver[ino[o.opened]]
        BY Zenon, <2>3, <3>1 DEF zend_get_file_handle_timestamp, mtime
      <4>2. NoneMappedRenamed => ino[o.opened] = o.handle
        BY <1>0, <1>1, <3>1 DEF NoneMappedRenamed, CallOK, HandleOK
      <4>3. ino[o.opened] \in Inodes
        BY Zenon, <1>0, <2>3 DEF TypeOK
      <4> HIDE DEF t
      <4> QED
        BY <1>0, <4>1, <4>2, <4>3, Times
    <3>2. CASE o.opened \notin Mapped
      <4>1. t = ver[o.handle]
        BY <1>1, <3>2 DEF zend_get_file_handle_timestamp
      <4> HIDE DEF t
      <4> QED
        BY <1>0, <2>3, <4>1, Times
    <3> QED
      BY Zenon, <3>1, <3>2
  <2> HIDE DEF t
  <2>5. /\ q \in Ops /\ q.pc = "compile" /\ q.call = o.call /\ q.name = o.name
      /\ q.opened = o.opened /\ q.handle = o.handle /\ q.bucket = o.bucket
      /\ q.script = o.script /\ q.stamp = t /\ q.text = o.text /\ q.floor = o.floor
      /\ q.reach = o.reach
    <3>1. "compile" \in Locations
      BY DEF Locations
    <3> HIDE DEF o, q
    <3> QED
      BY ONLY Zenon, <1>0, <2>2, <2>4, <3>1 DEF Ops
  <2> USE DEF At
  <2>. link' = link /\ ino' = ino /\ ver' = ver /\ scripts' = scripts /\ entries' = entries
    BY <2>1, LocalMove
  <2>6. NamesOK(w)' /\ HandleOK(w)'
    BY Zenon, <1>0, <1>1, <2>5 DEF CallOK, NamesOK, HandleOK, mtime
  <2>7. FoundOK(w)' /\ StoringOK(w)'
    BY Zenon, <1>1, <2>4, <2>5 DEF FoundOK, StoringOK, HasScript, Storing, Held
  <2> QED
    BY <2>1, <2>5, <2>6, <2>7, LocalMove, LocalStep DEF CallOK
<1> QED
  BY <1>2, <1>3 DEF StatFile

\* CompileFile(): what is compiled is not older than the timestamp.
LEMMA CompileFileStep ==
    ASSUME StoreInv, NEW w \in Workers, CompileFile(w)
    PROVE  StoreInv'
<1> DEFINE o == op[w]
           q == op'[w]
           c == ver[o.handle]
<1>0. TypeOK /\ CallOK(w) /\ o \in Ops
  BY OpTypes DEF StoreInv
<1>1. /\ o.pc = "compile" /\ o.name \in Names /\ o.script = 0
      /\ o.call = "include" /\ o.handle # None /\ o.opened # None
      /\ NoneMappedRenamed => o.stamp <= c
      /\ c >= o.floor[o.opened]
  BY <1>0 DEF CompileFile, CallOK, NamesOK, HandleOK, StoringOK, Included, At
<1>2. CASE Local(w, Inside)
  BY <1>2, LocalMove, IdleStep
<1>3. CASE Local(w, [o EXCEPT !.pc = "store", !.text = c])
  <2>1. Local(w, [o EXCEPT !.pc = "store", !.text = c])
    BY <1>3
  <2>2. q = [o EXCEPT !.pc = "store", !.text = c]
    BY <2>1, LocalMove
  <2>3. c \in 0 .. MaxEvents + 1 /\ c # 0
    <3>1. o.handle \in Inodes
      BY Zenon, <1>0, <1>1, OpTypes
    <3>2. c \in 1 .. MaxEvents + 1 /\ MaxEvents \in Nat
      BY <1>0, <3>1, Times
    <3> HIDE DEF c
    <3> QED
      BY <3>2
  <2> HIDE DEF c
  <2>4. /\ q \in Ops /\ q.pc = "store" /\ q.call = o.call /\ q.name = o.name
      /\ q.opened = o.opened /\ q.handle = o.handle /\ q.bucket = o.bucket
      /\ q.script = o.script /\ q.stamp = o.stamp /\ q.text = c /\ q.floor = o.floor
      /\ q.reach = o.reach
    <3>1. "store" \in Locations
      BY DEF Locations
    <3> HIDE DEF o, q
    <3> QED
      BY ONLY Zenon, <1>0, <2>2, <2>3, <3>1 DEF Ops
  <2> USE DEF At
  <2>. link' = link /\ ino' = ino /\ ver' = ver /\ scripts' = scripts /\ entries' = entries
    BY ZenonT(60), <2>1, LocalMove
  <2>5. NamesOK(w)' /\ HandleOK(w)'
    BY <1>0, <1>1, <2>4 DEF CallOK, NamesOK, HandleOK, mtime
  <2>6. FoundOK(w)' /\ StoringOK(w)'
    BY Zenon, <1>1, <2>3, <2>4 DEF FoundOK, StoringOK, HasScript, Storing, Held
  <2> QED
    BY <2>1, <2>4, <2>5, <2>6, LocalMove, LocalStep DEF CallOK
<1> QED
  BY <1>2, <1>3 DEF CompileFile

\* Walk(): the bucket is direct, so the walk ends at once.
LEMMA WalkStep ==
    ASSUME StoreInv, NEW w \in Workers, Walk(w)
    PROVE  StoreInv'
<1> DEFINE o == op[w]
           q == op'[w]
<1>0. TypeOK /\ CallOK(w) /\ o \in Ops
  BY OpTypes DEF StoreInv
<1>1. o.pc = "walk" /\ o.name \in Names /\ Direct(o.bucket)
  BY <1>0 DEF Walk, CallOK, NamesOK, FoundOK, At
<1>2. Local(w, [o EXCEPT !.pc = "alias"])
  BY <1>1 DEF Walk, Direct
<1>3. QED
  <2>1. Local(w, [o EXCEPT !.pc = "alias"])
    BY <1>2
  <2>2. q = [o EXCEPT !.pc = "alias"]
    BY <2>1, LocalMove
  <2>4. /\ q \in Ops /\ q.pc = "alias" /\ q.call = o.call /\ q.name = o.name
      /\ q.opened = o.opened /\ q.handle = o.handle /\ q.bucket = o.bucket
      /\ q.script = o.script /\ q.stamp = o.stamp /\ q.text = o.text
      /\ q.floor = o.floor /\ q.reach = o.reach
    <3>1. "alias" \in Locations
      BY DEF Locations
    <3> HIDE DEF o, q
    <3> QED
      BY ONLY <1>0, <2>2, <3>1 DEF Ops
  <2> USE DEF At
  <2>. link' = link /\ ino' = ino /\ ver' = ver /\ scripts' = scripts /\ entries' = entries
    BY <2>1, LocalMove
  <2>5. NamesOK(w)' /\ HandleOK(w)'
    BY Zenon, <1>0, <1>1, <2>4 DEF CallOK, NamesOK, HandleOK, mtime, Included
  <2>6. FoundOK(w)'
    BY Zenon, <1>0, <1>1, <2>4 DEF CallOK, FoundOK, HasScript, Direct
  <2>7. StoringOK(w)'
    <3>1. lock' = lock
      BY <2>1, LocalMove
    <3> QED
      BY Zenon, <1>0, <1>1, <2>4, <3>1 DEF CallOK, StoringOK, Storing, Held
  <2> QED
    BY <2>1, <2>4, <2>5, <2>6, <2>7, LocalMove, LocalStep DEF CallOK

\* The request ends.
LEMMA EndStep ==
    ASSUME StoreInv, NEW w \in Workers, Return(w) \/ accel_deactivate(w)
    PROVE  StoreInv'
<1>1. CASE Return(w)
  BY <1>1, LocalMove, IdleStep DEF Return
<1>2. CASE accel_deactivate(w)
  BY Zenon, <1>2, IdleStep DEF accel_deactivate, StoreInv, TypeOK
<1> QED
  BY <1>1, <1>2

\* The two calls begin.
LEMMA IncludeStep ==
    ASSUME StoreInv, NEW w \in Workers, NEW n \in Names, persistent_compile_file(w, n)
    PROVE  StoreInv'
<1> DEFINE q == op'[w]
           b == zend_accel_hash_find_entry(n)
           l == IF b # 0 THEN "data" ELSE "open"
           m == [f \in Names |-> mtime(f)]
<1>0. TypeOK
  BY DEF StoreInv
<1>1. /\ op' = [op EXCEPT ![w] = op'[w]] /\ UNCHANGED <<files, segment, lock>>
      /\ counted' \in [Workers -> BOOLEAN]
      /\ q = [Inside EXCEPT !.pc = l, !.call = "include", !.name = n, !.bucket = b,
                            !.floor = m, !.reach = {link[n]}]
  BY <1>0 DEF persistent_compile_file, TypeOK
<1>2. b # 0 => Direct(b) /\ b \in Nat
  BY Zenon, <1>0, FindEntry DEF StoreInv
<1>3. /\ l \in Locations /\ b \in Nat /\ link[n] \in Names
      /\ l \in {"data", "open"} /\ (l = "data" => Direct(b))
  <2>1. b \in Nat
    BY <1>2
  <2> QED
    BY <1>0, <1>2, <2>1 DEF Locations, TypeOK
<1>4. m \in [Names -> 0 .. MaxEvents + 1]
  <2>1. \A f \in Names : mtime(f) \in 0 .. MaxEvents + 1
    BY <1>0, Times
  <2> QED
    BY Zenon, <2>1
<1>5. \A f \in Names : m[f] = mtime(f) /\ mtime(f) \in Int
  BY <1>0, Times
<1> HIDE DEF b, l, m
<1>6. q = [pc |-> l, call |-> "include", name |-> n, opened |-> None, handle |-> None,
           bucket |-> b, script |-> 0, stamp |-> 0, text |-> 0, floor |-> m,
           reach |-> {link[n]}]
  BY ZenonT(60), <1>1 DEF Inside, Outside
<1>7. /\ q.pc = l /\ q.call = "include" /\ q.name = n /\ q.opened = None
      /\ q.handle = None /\ q.bucket = b /\ q.script = 0 /\ q.stamp = 0 /\ q.text = 0
      /\ q.floor = m /\ q.reach = {link[n]}
  BY ONLY <1>6
<1>8. q \in Ops
  <2>1. 0 \in 0 .. MaxEvents + 1 /\ {link[n]} \in SUBSET Names
    BY <1>3, StoreAssumption
  <2> QED
    BY ONLY <1>3, <1>4, <1>6, <2>1, n \in Names DEF Ops
<1> USE DEF At
<1>. link' = link /\ ino' = ino /\ ver' = ver /\ scripts' = scripts /\ entries' = entries
  BY Zenon, <1>1 DEF files, segment, restart
<1>9. NamesOK(w)'
  <2>1. \A f \in Files : m[f] <= mtime(f)'
    BY <1>5 DEF mtime, Files
  <2> QED
    BY Zenon, <1>7, <2>1 DEF NamesOK
<1>10. HandleOK(w)'
  BY <1>3, <1>7 DEF HandleOK
<1>11. FoundOK(w)' /\ StoringOK(w)'
  BY Zenon, <1>3, <1>7 DEF FoundOK, StoringOK, HasScript, Storing, Held, Direct
<1> QED
  BY <1>1, <1>8, <1>9, <1>10, <1>11, LocalStep DEF CallOK

\* zend_accel_invalidate() starts with the resolved path.
LEMMA InvalidateStep ==
    ASSUME StoreInv, NEW w \in Workers, NEW n \in Names, NEW force \in BOOLEAN,
           zend_accel_invalidate(w, n, force)
    PROVE  StoreInv'
<1> DEFINE q == op'[w]
           c == IF force THEN "force" ELSE "invalidate"
           m == [f \in Names |-> 0]
           p == link[n]
<1>0. TypeOK
  BY DEF StoreInv
<1>1. Local(w, [Inside EXCEPT !.pc = "path", !.name = p, !.opened = p, !.call = c])
  BY DEF zend_accel_invalidate
<1>2. q = [Inside EXCEPT !.pc = "path", !.name = p, !.opened = p, !.call = c]
  BY Zenon, <1>1, LocalMove
<1>3. /\ p \in Files /\ p \in Names /\ p # None
      /\ c \in {"include", "invalidate", "force", None} /\ c # "include"
      /\ "path" \in Locations /\ m \in [Names -> 0 .. MaxEvents + 1]
  BY <1>0, StoreAssumption DEF StoreInv, FilesOK, Files, Locations
<1>4. \A f \in Files : m[f] = 0 /\ mtime(f) \in Int /\ mtime(f) >= 0
  <2>1. \A f \in Names : mtime(f) \in 1 .. MaxEvents + 1 /\ MaxEvents \in Nat
    BY <1>0, Times
  <2> QED
    BY <2>1 DEF Files
<1> HIDE DEF c, m, p
<1>5. q = [pc |-> "path", call |-> c, name |-> p, opened |-> p, handle |-> None,
           bucket |-> 0, script |-> 0, stamp |-> 0, text |-> 0, floor |-> m,
           reach |-> {}]
  BY ZenonT(60), <1>2 DEF Inside, Outside, m
<1>6. /\ q.pc = "path" /\ q.call = c /\ q.name = p /\ q.opened = p
      /\ q.handle = None /\ q.bucket = 0 /\ q.script = 0 /\ q.stamp = 0 /\ q.text = 0
      /\ q.floor = m /\ q.reach = {}
  BY ONLY <1>5
<1>7. q \in Ops
  <2>1. 0 \in 0 .. MaxEvents + 1
    BY ONLY StoreAssumption
  <2>2. /\ "path" \in Locations /\ c \in {"include", "invalidate", "force", None}
        /\ p \in Names \cup {None} /\ None \in Inodes \cup {None} /\ 0 \in Nat
        /\ m \in [Names -> 0 .. MaxEvents + 1] /\ {} \in SUBSET Names
    BY ONLY <1>3
  <2> QED
    BY ONLY <1>5, <2>1, <2>2 DEF Ops
<1> USE DEF At
<1>. link' = link /\ ino' = ino /\ ver' = ver
  BY <1>1, LocalMove
<1>8. NamesOK(w)'
  <2>1. \A f \in Files : m[f] <= mtime(f)'
    BY Zenon, <1>4 DEF mtime
  <2> QED
    BY <1>3, <1>6, <2>1 DEF NamesOK, Included
<1>9. HandleOK(w)'
  BY SMTT(40), <1>3, <1>6 DEF HandleOK
<1>10. FoundOK(w)' /\ StoringOK(w)'
  BY <1>3, <1>6 DEF FoundOK, StoringOK, HasScript, Storing, Held
<1> QED
  BY <1>1, <1>7, <1>8, <1>9, <1>10, LocalMove, LocalStep DEF CallOK

----------------------------------------------------------------------------
\* A sequence with one element changed.
LEMMA ElementSet ==
    ASSUME NEW S, NEW seq \in Seq(S), NEW i \in 1 .. Len(seq), NEW e \in S
    PROVE  /\ [seq EXCEPT ![i] = e] \in Seq(S)
           /\ Len([seq EXCEPT ![i] = e]) = Len(seq)
           /\ \A j \in 1 .. Len(seq) :
                 [seq EXCEPT ![i] = e][j] = IF j = i THEN e ELSE seq[j]
OBVIOUS

\* What the holder of the lock keeps of the segment.
SegmentGrows ==
    /\ \A e \in DOMAIN entries :
        /\ e \in DOMAIN entries'
        /\ entries'[e].key = entries[e].key
        /\ entries'[e].indirect = entries[e].indirect
    /\ \A i \in DOMAIN scripts :
        /\ i \in DOMAIN scripts'
        /\ scripts'[i].path = scripts[i].path
        /\ scripts'[i].text = scripts[i].text

\* The types of the segment.
SegmentTypes ==
    /\ entries \in Seq(Entries) /\ Len(entries) <= MaxEntries
    /\ scripts \in Seq(Scripts)
    /\ shared_free \in 0 .. Memory
    /\ wasted \in Nat
    /\ memory_exhausted \in BOOLEAN
    /\ restart_pending \in BOOLEAN /\ accelerator_enabled \in BOOLEAN
    /\ uncounted \in SUBSET Nat /\ undecided \in BOOLEAN
    /\ lock \in Workers \cup {None}

\* A step of w under the lock.
LEMMA HolderStep ==
    ASSUME StoreInv, NEW w \in Workers, lock \in {None, w}, UNCHANGED <<files, counted>>,
           SegmentGrows, SegmentTypes', EntriesOK', ScriptsOK',
           op' = [op EXCEPT ![w] = op'[w]], op'[w] \in Ops, CallOK(w)'
    PROVE  StoreInv'
<1> USE DEF files
<1>1. TypeOK'
  BY Zenon DEF StoreInv, TypeOK, SegmentTypes
<1>2. FilesOK'
  BY DEF StoreInv, FilesOK
<1>3. Grows
  <2>1. /\ \A i \in Inodes : ver[i] \in Int
        /\ \A f \in Files : mtime(f) \in Int
    BY Times DEF StoreInv, Files
  <2>2. \A t \in Int : t >= t
    OBVIOUS
  <2>3. ver' = ver /\ ino' = ino /\ \A f \in Files : mtime(f)' = mtime(f)
    BY Zenon DEF mtime
  <2>4. /\ \A i \in Inodes : ver'[i] >= ver[i]
        /\ \A f \in Files : mtime(f)' >= mtime(f)
    BY Zenon, <2>1, <2>2, <2>3
  <2> QED
    BY Zenon, <2>3, <2>4 DEF Grows, SegmentGrows
<1>4. ASSUME NEW v \in Workers PROVE CallOK(v)'
  <2>1. CASE v = w
    BY <2>1
  <2>2. CASE v # w
    <3>1. op'[v] = op[v] /\ CallOK(v)
      BY <2>2 DEF StoreInv, TypeOK
    <3>2. op[v].pc \notin Held
      BY Zenon, <2>2, <3>1, StoreAssumption DEF CallOK, StoringOK
    <3>3. ~At(v, "publish")
      BY SMTT(40), <3>2 DEF Storing, Held, At
    <3>4. op[v].call = "include" => link'[op[v].name] \in op'[v].reach
      BY <3>1 DEF CallOK, NamesOK
    <3>5. Stays(v)
      BY <3>1 DEF Stays
    <3> QED
      BY <1>1, <1>3, <3>1, <3>2, <3>3, <3>4, <3>5, Others DEF StoreInv
  <2> QED
    BY <2>1, <2>2
<1> QED
  BY <1>1, <1>2, <1>3, <1>4 DEF StoreInv

\* KeyDone(): w goes on as if it had not stored a key.
LEMMA KeyDoneStep ==
    ASSUME StoreInv, NEW w \in Workers, op[w].pc \in {"key", "alias", "store", "schedule"},
           lock \in {None, w}, UNCHANGED <<files, scripts>>, KeyDone(w)
    PROVE  /\ op' = [op EXCEPT ![w] = op'[w]] /\ op'[w] \in Ops /\ CallOK(w)'
           /\ lock' \in Workers \cup {None}
<1> DEFINE o == op[w]
           q == op'[w]
<1>0. TypeOK /\ CallOK(w) /\ o \in Ops
  BY SMTT(40), OpTypes DEF StoreInv
<1>1. /\ o.name \in Names
      /\ o.text = 0 => o.script # 0 /\ o.script \in DOMAIN scripts
      /\ o.text # 0 /\ o.script # 0 => lock = w
  BY Zenon, <1>0 DEF CallOK, NamesOK, FoundOK, StoringOK, HasScript, Storing, Held, At
<1>2. CASE o.text = 0
  <2>1. q = Found(w, "check") /\ lock' = None /\ op' = [op EXCEPT ![w] = op'[w]]
    BY SMTT(40), <1>0, <1>2 DEF KeyDone, TypeOK
  <2>2. op'[w] \in Ops /\ CallOK(w)'
    BY <1>1, <1>2, <2>1, FoundStep
  <2> QED
    BY <2>1, <2>2
<1>3. CASE o.text # 0 /\ o.script = 0
  <2>1. q = Inside /\ lock' = None /\ op' = [op EXCEPT ![w] = op'[w]]
    BY <1>0, <1>3 DEF KeyDone, TypeOK
  <2>2. /\ ver' \in [Inodes -> 1 .. MaxEvents + 1] /\ ino' \in [Names -> Inodes]
        /\ link' \in [Names -> Names]
    BY <1>0 DEF TypeOK, files
  <2>3. op'[w] \in Ops /\ CallOK(w)'
    BY <2>1, <2>2, Idle
  <2> QED
    BY <2>1, <2>3
<1>4. CASE o.text # 0 /\ o.script # 0
  <2>1. /\ q = [o EXCEPT !.pc = "account"] /\ op' = [op EXCEPT ![w] = op'[w]]
        /\ lock' = lock
    BY Zenon, <1>0, <1>4 DEF KeyDone, TypeOK
  <2>2. /\ q \in Ops /\ q.pc = "account" /\ q.call = o.call /\ q.name = o.name
      /\ q.opened = o.opened /\ q.handle = o.handle /\ q.bucket = o.bucket
      /\ q.script = o.script /\ q.stamp = o.stamp /\ q.text = o.text
      /\ q.floor = o.floor /\ q.reach = o.reach
    <3>1. "account" \in Locations
      BY DEF Locations
    <3> HIDE DEF o, q
    <3> QED
      BY ONLY <1>0, <2>1, <3>1 DEF Ops
  <2> USE DEF At
  <2>. link' = link /\ ino' = ino /\ ver' = ver /\ scripts' = scripts
    BY Zenon DEF files
  <2>3. o.call = "include"
    BY Zenon, <1>0, <1>4 DEF CallOK, StoringOK
  <2>4. NamesOK(w)' /\ HandleOK(w)'
    BY Zenon, <1>0, <1>1, <2>2, <2>3 DEF CallOK, NamesOK, HandleOK, mtime
  <2>5. FoundOK(w)'
    BY Zenon, <1>0, <1>4, <2>2 DEF CallOK, FoundOK
  <2>6. StoringOK(w)'
    BY <1>0, <1>1, <1>4, <2>1, <2>2 DEF CallOK, StoringOK, Storing, Held
  <2> QED
    BY <1>1, <1>4, <2>1, <2>2, <2>4, <2>5, <2>6 DEF CallOK
<1> QED
  BY <1>2, <1>3, <1>4

\* Full(): w goes on to decide about a restart.
LEMMA FullStep ==
    ASSUME StoreInv, NEW w \in Workers, op[w].pc \in {"key", "alias", "store"},
           lock \in {None, w}, NEW b \in BOOLEAN, Full(w, b),
           UNCHANGED <<files, counted, entries, scripts, shared_free, wasted, restart>>
    PROVE  StoreInv'
<1> DEFINE o == op[w]
           q == op'[w]
<1>0. TypeOK /\ CallOK(w) /\ o \in Ops
  BY Zenon, OpTypes DEF StoreInv
<1>1. /\ o.name \in Names /\ (o.text = 0 => o.script # 0)
      /\ o.script # 0 => o.script \in DOMAIN scripts
  BY Zenon, <1>0 DEF CallOK, NamesOK, FoundOK, StoringOK, HasScript, At
<1>2. /\ q = [o EXCEPT !.pc = "schedule", !.bucket = 0] /\ op' = [op EXCEPT ![w] = op'[w]]
      /\ lock' = w /\ memory_exhausted' = b
  BY Zenon, <1>0 DEF Full, Found, TypeOK
<1>3. /\ q \in Ops /\ q.pc = "schedule" /\ q.call = o.call /\ q.name = o.name
      /\ q.opened = o.opened /\ q.handle = o.handle /\ q.bucket = 0
      /\ q.script = o.script /\ q.stamp = o.stamp /\ q.text = o.text
      /\ q.floor = o.floor /\ q.reach = o.reach
  <2>1. "schedule" \in Locations
    BY DEF Locations
  <2> HIDE DEF o, q
  <2> QED
    BY ONLY Zenon, <1>0, <1>2, <2>1 DEF Ops
<1> USE DEF At
<1>. link' = link /\ ino' = ino /\ ver' = ver
  BY Zenon DEF files
<1>4. NamesOK(w)' /\ HandleOK(w)'
  BY Zenon, <1>0, <1>1, <1>3 DEF CallOK, NamesOK, HandleOK, mtime, Included
<1>5. FoundOK(w)'
  BY <1>1, <1>3 DEF FoundOK, HasScript
<1>6. StoringOK(w)'
  BY Zenon, <1>0, <1>2, <1>3 DEF CallOK, StoringOK, Storing, Held
<1>7. EntriesOK' /\ ScriptsOK' /\ SegmentGrows /\ SegmentTypes'
  BY <1>0, <1>2 DEF StoreInv, EntriesOK, ScriptsOK, SegmentGrows, TypeOK, SegmentTypes, restart
<1> QED
  BY Zenon, <1>2, <1>3, <1>4, <1>5, <1>6, <1>7, HolderStep DEF CallOK

\* Schedule(): the decision, and then as KeyDone().
LEMMA ScheduleStep ==
    ASSUME StoreInv, NEW w \in Workers, Schedule(w)
    PROVE  StoreInv'
<1>0. TypeOK /\ CallOK(w)
  BY DEF StoreInv
<1>1. op[w].pc = "schedule" /\ lock = w /\ KeyDone(w)
      /\ UNCHANGED <<files, entries, scripts, shared_free, wasted, memory_exhausted, counted>>
  BY Zenon, <1>0 DEF Schedule, CallOK, StoringOK, Storing, Held, At
<1>2. /\ op' = [op EXCEPT ![w] = op'[w]] /\ op'[w] \in Ops /\ CallOK(w)'
      /\ lock' \in Workers \cup {None}
  BY <1>1, KeyDoneStep
<1>3. /\ restart_pending' \in BOOLEAN /\ accelerator_enabled' \in BOOLEAN
      /\ uncounted' = uncounted /\ undecided' \in BOOLEAN
  BY <1>0 DEF Schedule, zend_accel_schedule_restart_if_necessary, TypeOK
<1>4. EntriesOK' /\ ScriptsOK' /\ SegmentGrows /\ SegmentTypes'
  BY <1>0, <1>1, <1>2, <1>3
     DEF StoreInv, EntriesOK, ScriptsOK, SegmentGrows, TypeOK, SegmentTypes
<1> QED
  BY Zenon, <1>1, <1>2, <1>4, HolderStep

\* A key with an entry is found.
LEMMA Findable ==
    ASSUME EntriesOK, TypeOK, NEW e \in DOMAIN entries
    PROVE  zend_accel_hash_find_entry(entries[e].key) # 0
<1> DEFINE f == CHOOSE f \in Published(entries[e].key) : TRUE
<1>1. f \in Published(entries[e].key)
  BY DEF Published
<1>2. f \in DOMAIN entries
  BY <1>1 DEF Published
<1>3. zend_accel_hash_find_entry(entries[e].key) =
        IF entries[f].indirect THEN entries[f].data.at ELSE f
  BY <1>1 DEF zend_accel_hash_find_entry
<1> HIDE DEF f
<1>4. 0 \notin DOMAIN entries
  BY DEF TypeOK
<1> QED
  BY <1>2, <1>3, <1>4 DEF EntriesOK

\* zend_accel_add_key(): only a name that is not a file gets an entry, as the
\* file has one of its own.
LEMMA AddKeyMove ==
    ASSUME StoreInv, NEW w \in Workers, op[w].pc \in {"key", "store"}, lock = None,
           NEW b, b \in Nat, Direct(b), entries[b].key = op[w].opened, op[w].opened # None,
           zend_accel_add_key(w, op[w].name, b),
           UNCHANGED <<files, entries, scripts, wasted, counted>>
    PROVE  StoreInv'
<1> DEFINE o == op[w]
           q == op'[w]
<1>0. TypeOK /\ CallOK(w) /\ o \in Ops
  BY Zenon, OpTypes DEF StoreInv
<1>1. /\ o.name \in Names
      /\ o.text = 0 => o.script # 0
      /\ o.script # 0 => o.script \in DOMAIN scripts
      /\ o.name \in Files => o.opened = o.name
  BY Zenon, <1>0 DEF CallOK, NamesOK, HandleOK, FoundOK, StoringOK, HasScript, At
<1>2. EntriesOK' /\ ScriptsOK' /\ SegmentGrows
  BY DEF StoreInv, EntriesOK, ScriptsOK, SegmentGrows
<1>3. CASE KeyDone(w) /\ UNCHANGED <<shared_free, memory_exhausted, restart>>
  <2>1. /\ op' = [op EXCEPT ![w] = op'[w]] /\ op'[w] \in Ops /\ CallOK(w)'
        /\ lock' \in Workers \cup {None}
    BY <1>3, KeyDoneStep
  <2>2. SegmentTypes'
    BY <1>0, <1>3, <2>1 DEF TypeOK, SegmentTypes, restart
  <2> QED
    BY <1>2, <2>1, <2>2, HolderStep
<1>4. CASE /\ zend_accel_hash_find_entry(o.name) = 0 /\ Fits(KeySize)
           /\ shared_free' = shared_free - KeySize /\ lock' = w
           /\ op' = [op EXCEPT ![w].pc = "walk", ![w].bucket = b]
           /\ UNCHANGED <<memory_exhausted, restart>>
  <2>1. q = [o EXCEPT !.pc = "walk", !.bucket = b] /\ op' = [op EXCEPT ![w] = op'[w]]
    BY Zenon, <1>0, <1>4 DEF TypeOK
  <2>2. /\ q \in Ops /\ q.pc = "walk" /\ q.call = o.call /\ q.name = o.name
      /\ q.opened = o.opened /\ q.handle = o.handle /\ q.bucket = b
      /\ q.script = o.script /\ q.stamp = o.stamp /\ q.text = o.text
      /\ q.floor = o.floor /\ q.reach = o.reach
    <3>1. "walk" \in Locations
      BY DEF Locations
    <3> HIDE DEF o, q
    <3> QED
      BY ONLY Zenon, <1>0, <2>1, <3>1, b \in Nat DEF Ops
  <2>3. o.name \notin Files
    <3>1. o.name # o.opened
      BY <1>0, <1>4, Findable DEF StoreInv, Direct
    <3> QED
      BY <1>1, <3>1
  <2> USE DEF At
  <2>. link' = link /\ ino' = ino /\ ver' = ver
    BY Zenon DEF files
  <2>4. NamesOK(w)' /\ HandleOK(w)'
    BY Zenon, <1>0, <1>1, <2>2 DEF CallOK, NamesOK, HandleOK, mtime, Included
  <2>5. FoundOK(w)'
    BY <1>1, <2>2, <2>3 DEF FoundOK, Direct, HasScript
  <2>6. StoringOK(w)'
    BY <1>0, <1>4, <2>2 DEF CallOK, StoringOK, Storing, Held
  <2>7. SegmentTypes'
    <3>1. shared_free' \in 0 .. Memory
      BY <1>0, <1>4, StoreAssumption DEF TypeOK, Fits
    <3> QED
      BY <1>0, <1>4, <3>1 DEF TypeOK, SegmentTypes, restart
  <2> QED
    BY <1>2, <2>1, <2>2, <2>4, <2>5, <2>6, <2>7, HolderStep DEF CallOK
<1>5. CASE /\ Full(w, zend_accel_hash_is_full \/ ExhaustedAfter(KeySize))
           /\ UNCHANGED <<shared_free, restart>>
  <2>1. (zend_accel_hash_is_full \/ ExhaustedAfter(KeySize)) \in BOOLEAN
    BY Zenon DEF zend_accel_hash_is_full
  <2> QED
    BY Zenon, <1>5, <2>1, FullStep
<1> QED
  BY Zenon, <1>3, <1>4, <1>5 DEF zend_accel_add_key

\* persistent_compile_file() adds a key for what it found by the path.
LEMMA AddKeyStep ==
    ASSUME StoreInv, NEW w \in Workers, AddKey(w)
    PROVE  StoreInv'
<1>1. TypeOK /\ CallOK(w)
  BY DEF StoreInv
<1>2. /\ op[w].pc = "key" /\ op[w].bucket \in Nat /\ Direct(op[w].bucket)
      /\ entries[op[w].bucket].key = op[w].opened /\ op[w].opened # None
  BY Zenon, <1>1, OpTypes DEF AddKey, CallOK, FoundOK, HandleOK, At
<1> QED
  BY Zenon, <1>2, AddKeyMove DEF AddKey

\* A script changes, but for its path and its contents.
LEMMA ScriptSet ==
    ASSUME StoreInv, NEW i \in DOMAIN scripts, NEW r \in Scripts,
           scripts' = [scripts EXCEPT ![i] = r], entries' = entries,
           r.path = scripts[i].path, r.text = scripts[i].text,
           r.timestamp \in {0, scripts[i].timestamp}
    PROVE  /\ scripts' \in Seq(Scripts) /\ DOMAIN scripts' = DOMAIN scripts
           /\ SegmentGrows /\ EntriesOK' /\ ScriptsOK'
<1>1. scripts \in Seq(Scripts) /\ i \in 1 .. Len(scripts)
  BY DEF StoreInv, TypeOK
<1>2. /\ scripts' \in Seq(Scripts) /\ DOMAIN scripts' = DOMAIN scripts /\ scripts'[i] = r
      /\ \A j \in DOMAIN scripts : j # i => scripts'[j] = scripts[j]
  BY <1>1, ElementSet
<1>3. \A j \in DOMAIN scripts : /\ scripts'[j].path = scripts[j].path
                                /\ scripts'[j].text = scripts[j].text
                                /\ scripts'[j].timestamp \in {0, scripts[j].timestamp}
  BY Zenon, <1>2
<1>4. \A j \in DOMAIN scripts : scripts[j].text \in Nat
  <2>1. \A j \in DOMAIN scripts : scripts[j] \in Scripts
    BY <1>1
  <2>2. \A c \in Scripts : c.text \in Nat
    BY StoreAssumption DEF Scripts
  <2> QED
    BY Zenon, <2>1, <2>2
<1>5. SegmentGrows /\ EntriesOK'
  BY Zenon, <1>2, <1>3 DEF SegmentGrows, EntriesOK, StoreInv
<1>6. ScriptsOK'
  <2>1. ScriptsOK
    BY DEF StoreInv
  <2> QED
    BY ONLY <1>2, <1>3, <1>4, <2>1 DEF ScriptsOK
<1> QED
  BY Zenon, <1>2, <1>5, <1>6

\* w goes on with the script it marks.
LEMMA MarkMove ==
    ASSUME StoreInv, NEW w \in Workers, op[w].pc \in {"corrupt", "untime", "waste"},
           NEW l \in {"untime", "waste", "due"}, Goto(w, l), lock' = w, UNCHANGED files,
           DOMAIN scripts' = DOMAIN scripts
    PROVE  op' = [op EXCEPT ![w] = op'[w]] /\ op'[w] \in Ops /\ CallOK(w)'
<1> DEFINE o == op[w]
           q == op'[w]
<1>0. TypeOK /\ CallOK(w) /\ o \in Ops
  BY Zenon, OpTypes DEF StoreInv
<1>1. /\ o.name \in Names /\ o.script # 0 /\ o.script \in DOMAIN scripts /\ o.text = 0
  BY <1>0, NothingCompiled DEF CallOK, NamesOK, FoundOK, HasScript, Storing
<1>2. q = [o EXCEPT !.pc = l] /\ op' = [op EXCEPT ![w] = op'[w]]
  BY Zenon, <1>0 DEF Goto, TypeOK
<1>3. /\ q \in Ops /\ q.pc = l /\ q.call = o.call /\ q.name = o.name
      /\ q.opened = o.opened /\ q.handle = o.handle /\ q.bucket = o.bucket
      /\ q.script = o.script /\ q.stamp = o.stamp /\ q.text = o.text
      /\ q.floor = o.floor /\ q.reach = o.reach
  <2>1. l \in Locations
    BY DEF Locations
  <2> HIDE DEF o, q
  <2> QED
    BY ONLY Zenon, <1>0, <1>2, <2>1 DEF Ops
<1> USE DEF At
<1>. link' = link /\ ino' = ino /\ ver' = ver
  BY Zenon DEF files
<1>4. NamesOK(w)' /\ HandleOK(w)'
  BY Zenon, <1>0, <1>1, <1>3 DEF CallOK, NamesOK, HandleOK, mtime, Included
<1>5. FoundOK(w)' /\ StoringOK(w)'
  BY <1>1, <1>3 DEF FoundOK, StoringOK, HasScript, Storing, Held
<1> QED
  BY Zenon, <1>2, <1>3, <1>4, <1>5 DEF CallOK

\* Corrupt(), Untime(): the path and the contents of the script stay.
LEMMA CorruptStep ==
    ASSUME StoreInv, NEW w \in Workers, Corrupt(w) \/ Untime(w)
    PROVE  StoreInv'
<1> DEFINE i == op[w].script
<1>0. TypeOK /\ CallOK(w)
  BY DEF StoreInv
<1>1. i # 0 /\ i \in DOMAIN scripts /\ lock \in {None, w}
  BY Zenon, <1>0 DEF Corrupt, Untime, CallOK, FoundOK, StoringOK, HasScript, Held, At
<1>2. UNCHANGED <<files, entries, shared_free, wasted, memory_exhausted, restart, counted>>
  BY Zenon DEF Corrupt, Untime
<1>3. CASE /\ op[w].pc = "corrupt" /\ op' = [op EXCEPT ![w] = NotFound(w)]
           /\ UNCHANGED <<scripts, lock>>
  <2>1. op'[w] = NotFound(w) /\ op' = [op EXCEPT ![w] = op'[w]]
    BY Zenon, <1>0, <1>3 DEF TypeOK
  <2>2. op'[w] \in Ops /\ CallOK(w)'
    BY <1>2, <1>3, <2>1, NotFoundStep
  <2>3. EntriesOK' /\ ScriptsOK' /\ SegmentGrows /\ SegmentTypes'
    BY <1>0, <1>2, <1>3
       DEF StoreInv, TypeOK, EntriesOK, ScriptsOK, SegmentGrows, SegmentTypes, restart
  <2> QED
    BY Zenon, <1>1, <1>2, <2>1, <2>2, <2>3, HolderStep
<1>4. CASE \/ /\ op[w].pc = "corrupt" /\ Goto(w, "untime")
              /\ scripts' = [scripts EXCEPT ![i].corrupted = TRUE] /\ lock' = w
           \/ /\ op[w].pc = "untime" /\ Goto(w, "waste")
              /\ scripts' = [scripts EXCEPT ![i].timestamp = 0] /\ lock' = w
  <2>1. scripts[i] \in Scripts
    BY <1>0, <1>1 DEF TypeOK
  <2>2. PICK r : /\ scripts' = [scripts EXCEPT ![i] = r]
                 /\ \/ r = [scripts[i] EXCEPT !.corrupted = TRUE]
                    \/ r = [scripts[i] EXCEPT !.timestamp = 0]
    BY Zenon, <1>4
  <2>3. /\ r \in Scripts /\ r.path = scripts[i].path /\ r.text = scripts[i].text
        /\ r.timestamp \in {0, scripts[i].timestamp}
    <3> DEFINE c == scripts[i]
    <3>1. /\ c \in Scripts
          /\ r = [c EXCEPT !.corrupted = TRUE] \/ r = [c EXCEPT !.timestamp = 0]
      BY <2>1, <2>2
    <3>2. 0 \in 0 .. MaxEvents + 1
      BY StoreAssumption
    <3> HIDE DEF c
    <3>3. /\ r \in Scripts /\ r.path = c.path /\ r.text = c.text
          /\ r.timestamp \in {0, c.timestamp}
      BY ONLY <3>1, <3>2 DEF Scripts
    <3> QED
      BY <3>3 DEF c
  <2>4. /\ scripts' \in Seq(Scripts) /\ DOMAIN scripts' = DOMAIN scripts
        /\ SegmentGrows /\ EntriesOK' /\ ScriptsOK'
    BY <1>1, <1>2, <2>2, <2>3, ScriptSet
  <2>5. op' = [op EXCEPT ![w] = op'[w]] /\ op'[w] \in Ops /\ CallOK(w)'
    BY <1>2, <1>4, <2>4, MarkMove
  <2>6. lock' = w
    BY <1>4
  <2>7. SegmentTypes'
    BY <1>0, <1>2, <2>4, <2>6 DEF TypeOK, SegmentTypes, restart
  <2> QED
    BY Zenon, <1>1, <1>2, <2>4, <2>5, <2>7, HolderStep
<1>5. Untime(w) => lock = w
  BY Zenon, <1>0 DEF Untime, CallOK, StoringOK, Held, At
<1> QED
  BY Zenon, <1>3, <1>4, <1>5 DEF Corrupt, Untime, At

\* Waste(), Due(): the scripts stay as they are.
LEMMA WasteDueStep ==
    ASSUME StoreInv, NEW w \in Workers, Waste(w) \/ Due(w)
    PROVE  StoreInv'
<1>0. TypeOK /\ CallOK(w)
  BY DEF StoreInv
<1>1. /\ op[w].script \in DOMAIN scripts /\ lock = w
      /\ UNCHANGED <<files, entries, scripts, shared_free, memory_exhausted, counted>>
  BY Zenon, <1>0 DEF Waste, Due, CallOK, FoundOK, StoringOK, HasScript, Held, At
<1>2. EntriesOK' /\ ScriptsOK' /\ SegmentGrows
  BY <1>1 DEF StoreInv, EntriesOK, ScriptsOK, SegmentGrows
<1>3. CASE Waste(w)
  <2>1. op' = [op EXCEPT ![w] = op'[w]] /\ op'[w] \in Ops /\ CallOK(w)'
    BY <1>1, <1>3, MarkMove DEF Waste, At
  <2>2. wasted' \in Nat
    <3>1. scripts[op[w].script] \in Scripts /\ wasted \in Nat
      BY <1>0, <1>1 DEF TypeOK
    <3>2. \A c \in Scripts : c.consumption \in Nat
      BY StoreAssumption DEF Scripts
    <3>3. PICK n : n = scripts[op[w].script].consumption
      OBVIOUS
    <3>4. n \in Nat /\ wasted' = wasted + n
      BY Zenon, <1>3, <3>1, <3>2, <3>3 DEF Waste
    <3> QED
      BY ONLY <3>1, <3>4
  <2>3. SegmentTypes'
    BY <1>0, <1>1, <1>3, <2>2 DEF Waste, TypeOK, SegmentTypes, restart
  <2> QED
    BY Zenon, <1>1, <1>2, <2>1, <2>3, HolderStep
<1>4. CASE Due(w)
  <2>1. /\ op'[w] = NotFound(w) /\ op' = [op EXCEPT ![w] = op'[w]] /\ lock' = None
        /\ wasted' = wasted /\ op[w].pc = "due"
    BY Zenon, <1>0, <1>4 DEF Due, TypeOK, At
  <2>2. op'[w] \in Ops /\ CallOK(w)'
    BY <1>1, <2>1, NotFoundStep
  <2>3. /\ restart_pending' \in BOOLEAN /\ accelerator_enabled' \in BOOLEAN
        /\ uncounted' = uncounted /\ undecided' \in BOOLEAN
    BY <1>0, <1>4 DEF Due, zend_accel_schedule_restart_if_necessary, restart, TypeOK
  <2>4. SegmentTypes'
    BY <1>0, <1>1, <2>1, <2>3 DEF TypeOK, SegmentTypes
  <2> QED
    BY Zenon, <1>1, <1>2, <2>1, <2>2, <2>4, HolderStep
<1> QED
  BY <1>3, <1>4

\* cache_script_in_shared_memory() gives up.
LEMMA GiveUp ==
    ASSUME StoreInv, NEW w \in Workers, lock = None, op' = [op EXCEPT ![w] = Inside],
           UNCHANGED <<files, counted, segment, lock>>
    PROVE  StoreInv'
<1>1. op' = [op EXCEPT ![w] = op'[w]] /\ op'[w] = Inside /\ counted' \in [Workers -> BOOLEAN]
  BY DEF StoreInv, TypeOK
<1> QED
  BY Zenon, <1>1, IdleStep

\* A new script is in the segment, not yet in the table.
LEMMA AllocateStep ==
    ASSUME StoreInv, NEW w \in Workers, At(w, "store"), lock = None,
           ~zend_accel_hash_is_full, Fits(ScriptSize),
           shared_free' = shared_free - ScriptSize,
           scripts' = Append(scripts,
                [path |-> op[w].opened, timestamp |-> op[w].stamp, text |-> op[w].text,
                 corrupted |-> FALSE, consumption |-> 0]),
           op' = [op EXCEPT ![w].script = Len(scripts'), ![w].pc = "publish"],
           lock' = w,
           UNCHANGED <<files, counted, entries, wasted, memory_exhausted, restart>>
    PROVE  StoreInv'
<1> DEFINE o == op[w]
           q == op'[w]
           i == Len(scripts')
           s == [path |-> o.opened, timestamp |-> o.stamp, text |-> o.text,
                 corrupted |-> FALSE, consumption |-> 0]
<1>0. TypeOK /\ CallOK(w) /\ o \in Ops
  BY OpTypes DEF StoreInv
<1>1. /\ o.pc = "store" /\ o.name \in Names /\ o.call = "include"
      /\ o.opened # None /\ o.opened \in Files /\ o.opened \in Names
      /\ o.text # 0 /\ (NoneMappedRenamed => o.stamp <= o.text)
      /\ o.text >= o.floor[o.opened]
  BY SMTT(40), <1>0 DEF CallOK, NamesOK, HandleOK, StoringOK, Included, At, Files
<1>2. s \in Scripts
  <2>1. o.text \in 1 .. MaxEvents + 1 /\ o.stamp \in 0 .. MaxEvents + 1
    BY SMTT(40), <1>0, <1>1, OpTypes, StoreAssumption
  <2> HIDE DEF o
  <2> QED
    BY ONLY <1>1, <2>1 DEF Scripts
<1>3. /\ s.path = o.opened /\ s.timestamp = o.stamp /\ s.text = o.text
  OBVIOUS
<1>4. scripts' = Append(scripts, s) /\ scripts \in Seq(Scripts)
  BY <1>0 DEF TypeOK
<1> HIDE DEF s
<1>5. /\ scripts' \in Seq(Scripts) /\ i = Len(scripts) + 1 /\ i \in Nat /\ i # 0
      /\ i \in DOMAIN scripts' /\ scripts'[i] = s
      /\ \A j \in DOMAIN scripts : j \in DOMAIN scripts' /\ scripts'[j] = scripts[j]
      /\ \A j \in DOMAIN scripts' : j # i => j \in DOMAIN scripts
  BY ONLY <1>2, <1>4
<1>6. SegmentGrows /\ EntriesOK'
  BY <1>5 DEF StoreInv, EntriesOK, SegmentGrows
<1>7. ScriptsOK'
  BY <1>1, <1>3, <1>5 DEF StoreInv, ScriptsOK
<1>8. SegmentTypes'
  <2>1. shared_free' \in 0 .. Memory
    BY SMTT(40), <1>0, StoreAssumption DEF TypeOK, Fits
  <2> QED
    BY <1>0, <1>5, <2>1 DEF TypeOK, SegmentTypes, restart
<1>9. q = [o EXCEPT !.pc = "publish", !.script = i] /\ op' = [op EXCEPT ![w] = op'[w]]
  BY Zenon, <1>0 DEF TypeOK
<1> HIDE DEF i
<1>10. /\ q \in Ops /\ q.pc = "publish" /\ q.call = o.call /\ q.name = o.name
      /\ q.opened = o.opened /\ q.handle = o.handle /\ q.bucket = o.bucket
      /\ q.script = i /\ q.stamp = o.stamp /\ q.text = o.text /\ q.floor = o.floor
      /\ q.reach = o.reach
  <2>1. "publish" \in Locations
    BY DEF Locations
  <2> HIDE DEF o, q
  <2> QED
    BY ONLY Zenon, <1>0, <1>5, <1>9, <2>1 DEF Ops
<1> USE DEF At
<1>. link' = link /\ ino' = ino /\ ver' = ver
  BY DEF files
<1>11. NamesOK(w)' /\ HandleOK(w)'
  BY ZenonT(60), <1>0, <1>1, <1>10 DEF CallOK, NamesOK, HandleOK, mtime
<1>12. FoundOK(w)'
  BY <1>5, <1>10 DEF FoundOK
<1>13. StoringOK(w)'
  <2>1. Len(entries') < MaxEntries
    BY <1>0, StoreAssumption DEF TypeOK, zend_accel_hash_is_full
  <2> QED
    BY <1>1, <1>3, <1>5, <1>10, <2>1 DEF StoringOK, Storing, Held
<1> QED
  BY Zenon, <1>6, <1>7, <1>8, <1>9, <1>10, <1>11, <1>12, <1>13, HolderStep DEF CallOK

\* cache_script_in_shared_memory() up to the allocation.
LEMMA CacheScriptStep ==
    ASSUME StoreInv, NEW w \in Workers, cache_script_in_shared_memory(w)
    PROVE  StoreInv'
<1> DEFINE p == op[w].opened
           b == zend_accel_hash_find_entry(p)
<1>1. TypeOK /\ EntriesOK /\ CallOK(w) /\ At(w, "store") /\ lock = None
      /\ UNCHANGED <<files, counted>>
  BY Zenon DEF StoreInv, cache_script_in_shared_memory
<1>2. p # None /\ p \in Files
  BY Zenon, <1>1 DEF CallOK, HandleOK, StoringOK, At
<1>3. b # 0 => /\ b \in Nat /\ Direct(b) /\ entries[b].key = p
               /\ entries[b].data.kind = "script"
  <2>1. b # 0 => b \in Nat /\ Direct(b) /\ entries[b].key = p
    BY Zenon, <1>1, <1>2, FindEntry
  <2> QED
    BY <1>1, <2>1 DEF EntriesOK, Direct
<1>4. ~Misled(p)
  BY <1>3 DEF Misled
<1>6. CASE StoreInFull(w)
  BY Zenon, <1>1, <1>6, FullStep DEF StoreInFull, At
<1>7. CASE StoreFound(w)
  <2>1. b # 0 /\ UNCHANGED <<entries, scripts, wasted>>
    BY Zenon, <1>7 DEF StoreFound, Existing
  <2>2. \/ zend_accel_add_key(w, op[w].name, b)
        \/ /\ op' = [op EXCEPT ![w] = Inside]
           /\ UNCHANGED <<shared_free, memory_exhausted, restart, lock>>
    BY <1>7 DEF StoreFound
  <2>3. CASE zend_accel_add_key(w, op[w].name, b)
    <3> HIDE DEF b
    <3> QED
      BY <1>1, <1>2, <1>3, <2>1, <2>3, AddKeyMove DEF At
  <2>4. CASE /\ op' = [op EXCEPT ![w] = Inside]
             /\ UNCHANGED <<shared_free, memory_exhausted, restart, lock>>
    BY Zenon, <1>1, <2>1, <2>4, GiveUp DEF segment
  <2> QED
    BY <2>2, <2>3, <2>4
<1>8. CASE StoreNew(w)
  <2>1. CASE ~Fits(ScriptSize)
    <3>1. ExhaustedAfter(ScriptSize) \in BOOLEAN
      BY DEF ExhaustedAfter
    <3> QED
      BY Zenon, <1>1, <1>8, <2>1, <3>1, FullStep DEF StoreNew, At
  <2>2. CASE Fits(ScriptSize)
    BY <1>1, <1>8, <2>2, AllocateStep DEF StoreNew
  <2> QED
    BY <2>1, <2>2
<1> QED
  BY <1>4, <1>6, <1>7, <1>8 DEF cache_script_in_shared_memory

\* An entry of the table changes what it refers to.
LEMMA DataSet ==
    ASSUME TypeOK, NEW e \in DOMAIN entries,
           NEW d \in [kind : {"script", "entry"}, at : Nat \ {0}],
           entries' = [entries EXCEPT ![e].data = d]
    PROVE  /\ entries' \in Seq(Entries) /\ Len(entries') = Len(entries)
           /\ DOMAIN entries' = DOMAIN entries
           /\ entries'[e].data = d /\ entries'[e].key = entries[e].key
           /\ entries'[e].indirect = entries[e].indirect
           /\ \A f \in DOMAIN entries : f # e => entries'[f] = entries[f]
<1>1. /\ entries \in [1 .. Len(entries) -> Entries] /\ e \in 1 .. Len(entries)
      /\ entries \in Seq(Entries)
  BY DEF TypeOK
<1>2. /\ entries' = [entries EXCEPT ![e] = entries'[e]] /\ entries[e] \in Entries
      /\ entries'[e] = [entries[e] EXCEPT !.data = d]
  BY <1>1
<1>3. /\ entries'[e] \in Entries /\ entries'[e].data = d
      /\ entries'[e].key = entries[e].key /\ entries'[e].indirect = entries[e].indirect
  <2> DEFINE a == entries[e]
             z == entries'[e]
  <2>1. a \in Entries /\ z = [a EXCEPT !.data = d]
    BY <1>2
  <2> HIDE DEF a, z
  <2>2. z \in Entries /\ z.data = d /\ z.key = a.key /\ z.indirect = a.indirect
    BY ONLY <2>1, d \in [kind : {"script", "entry"}, at : Nat \ {0}] DEF Entries
  <2> QED
    BY <2>2 DEF a, z
<1>4. entries' \in Seq(Entries) /\ Len(entries') = Len(entries)
  BY <1>1, <1>2, <1>3, ElementSet
<1> QED
  BY <1>1, <1>2, <1>3, <1>4

\* The table gets one more entry.
LEMMA EntryAdded ==
    ASSUME TypeOK, NEW k \in Names, NEW b \in BOOLEAN,
           NEW d \in [kind : {"script", "entry"}, at : Nat \ {0}],
           Len(entries) < MaxEntries, entries' = NewEntry(k, b, d)
    PROVE  /\ entries' \in Seq(Entries) /\ Len(entries') = Len(entries) + 1
           /\ Len(entries') <= MaxEntries /\ Len(entries') \in Nat
           /\ DOMAIN entries' = DOMAIN entries \cup {Len(entries')}
           /\ Len(entries') \notin DOMAIN entries
           /\ entries'[Len(entries')].data = d /\ entries'[Len(entries')].key = k
           /\ entries'[Len(entries')].indirect = b
           /\ \A f \in DOMAIN entries : entries'[f] = entries[f]
<1> DEFINE a == [key |-> k, indirect |-> b, data |-> d]
<1>1. a \in Entries /\ a.key = k /\ a.indirect = b /\ a.data = d
  BY DEF Entries
<1>2. entries \in Seq(Entries) /\ entries' = Append(entries, a)
  BY DEF TypeOK, NewEntry
<1> HIDE DEF a
<1>3. /\ entries' \in Seq(Entries) /\ Len(entries') = Len(entries) + 1
      /\ Len(entries) \in Nat /\ DOMAIN entries' = 1 .. Len(entries) + 1
      /\ DOMAIN entries = 1 .. Len(entries)
      /\ entries'[Len(entries')] = a
      /\ \A f \in DOMAIN entries : entries'[f] = entries[f]
  BY ONLY <1>1, <1>2
<1> QED
  BY <1>1, <1>3, StoreAssumption

\* Publish(): the path's own entry gets the script.
LEMMA PublishStep ==
    ASSUME StoreInv, NEW w \in Workers, Publish(w)
    PROVE  StoreInv'
<1> DEFINE o == op[w]
           q == op'[w]
           p == o.opened
           d == ScriptRef(o.script)
           old == Published(p)
           e == CHOOSE e \in old : TRUE
           b == IF old = {} THEN Len(entries') ELSE e
           l == IF o.name # p THEN "walk" ELSE "account"
<1>0. TypeOK /\ CallOK(w) /\ o \in Ops
  BY OpTypes DEF StoreInv
<1>1. /\ o.pc = "publish" /\ o.name \in Names /\ o.call = "include"
      /\ p # None /\ p \in Files /\ p \in Names /\ (o.name \in Files => p = o.name)
      /\ o.script # 0 /\ o.script \in DOMAIN scripts /\ scripts[o.script].path = p
      /\ o.text # 0 /\ lock = w /\ Len(entries) < MaxEntries
  BY Zenon, <1>0 DEF Publish, CallOK, NamesOK, HandleOK, FoundOK, StoringOK, Included, HasScript,
              Storing, Held, At, Files
<1>2. d \in [kind : {"script", "entry"}, at : Nat \ {0}]
  BY <1>0, <1>1, OpTypes DEF ScriptRef
<1>3. d.kind = "script" /\ d.at = o.script
  BY DEF ScriptRef
<1>4. /\ q = [o EXCEPT !.bucket = b, !.pc = l] /\ op' = [op EXCEPT ![w] = op'[w]]
      /\ UNCHANGED <<files, scripts, shared_free, wasted, memory_exhausted, restart,
                     lock, counted>>
  BY Zenon, <1>0 DEF Publish, TypeOK
<1>5. l \in {"walk", "account"} /\ l \in Locations /\ (l = "walk" => o.name \notin Files)
  BY Zenon, <1>1 DEF Locations
<1> HIDE DEF d, l
<1>6. /\ SegmentGrows /\ EntriesOK'
      /\ entries' \in Seq(Entries) /\ Len(entries') <= MaxEntries
      /\ b \in Nat /\ b \in DOMAIN entries' /\ ~entries'[b].indirect
  <2>1. CASE old = {}
    <3>1. entries' = NewEntry(p, FALSE, d) /\ b = Len(entries')
      BY <2>1 DEF Publish, d
    <3>2. /\ entries' \in Seq(Entries) /\ Len(entries') <= MaxEntries /\ b \in Nat
          /\ DOMAIN entries' = DOMAIN entries \cup {b} /\ b \notin DOMAIN entries
          /\ entries'[b].data = d /\ entries'[b].key = p /\ entries'[b].indirect = FALSE
          /\ \A f \in DOMAIN entries : entries'[f] = entries[f]
      BY ZenonT(60), <1>0, <1>1, <1>2, <3>1, EntryAdded
    <3> HIDE DEF b, p
    <3> QED
      BY <1>1, <1>3, <1>4, <3>2 DEF StoreInv, EntriesOK, SegmentGrows
  <2>2. CASE old # {}
    <3>1. e \in DOMAIN entries /\ entries[e].key = p /\ b = e
      BY Zenon, <2>2 DEF Published
    <3>2. zend_accel_hash_find_entry(p) # 0
      BY <1>0, <3>1, Findable DEF StoreInv
    <3>3. zend_accel_hash_find_entry(p) = e /\ Direct(e) /\ e \in Nat
      BY Zenon, <1>0, <1>1, <3>2, FindEntry DEF StoreInv
    <3>4. entries' = [entries EXCEPT ![e].data = d]
      BY Zenon, <2>2, <3>3 DEF Publish, d
    <3> HIDE DEF b, e, p, old
    <3>5. /\ entries' \in Seq(Entries) /\ Len(entries') = Len(entries)
          /\ DOMAIN entries' = DOMAIN entries
          /\ entries'[e].data = d /\ entries'[e].key = entries[e].key
          /\ entries'[e].indirect = entries[e].indirect
          /\ \A f \in DOMAIN entries : f # e => entries'[f] = entries[f]
      BY Zenon, <1>0, <1>2, <3>1, <3>4, DataSet
    <3>6. SegmentGrows
      BY Zenon, <1>4, <3>5 DEF SegmentGrows
    <3>7. EntriesOK'
      <4>1. \A f \in DOMAIN entries : entries'[f].indirect = entries[f].indirect
        BY <3>5
      <4>2. EntriesOK /\ scripts' = scripts
        BY <1>4 DEF StoreInv
      <4>3. \A f \in DOMAIN entries : f # e => entries'[f] = entries[f]
        BY Zenon, <3>5
      <4>4. /\ entries'[e].data.kind = "script" /\ entries'[e].data.at = o.script
            /\ entries'[e].key = p /\ ~entries'[e].indirect
        BY <1>3, <3>1, <3>3, <3>5 DEF Direct
      <4> HIDE DEF o
      <4> QED
        BY ONLY <1>1, <3>5, <4>1, <4>2, <4>3, <4>4 DEF EntriesOK
    <3>8. Len(entries') <= MaxEntries
      BY <1>0, <3>5 DEF TypeOK
    <3> QED
      BY <3>1, <3>3, <3>5, <3>6, <3>7, <3>8 DEF Direct
  <2> QED
    BY <2>1, <2>2
<1> HIDE DEF b, e, old
<1>7. /\ q \in Ops /\ q.pc = l /\ q.call = o.call /\ q.name = o.name
      /\ q.opened = o.opened /\ q.handle = o.handle /\ q.bucket = b
      /\ q.script = o.script /\ q.stamp = o.stamp /\ q.text = o.text
      /\ q.floor = o.floor /\ q.reach = o.reach
  <2> HIDE DEF o, q
  <2> QED
    BY ONLY Zenon, <1>0, <1>4, <1>5, <1>6 DEF Ops
<1>8. SegmentTypes' /\ ScriptsOK'
  BY <1>0, <1>4, <1>6 DEF StoreInv, TypeOK, SegmentTypes, ScriptsOK, restart
<1> USE DEF At
<1>. link' = link /\ ino' = ino /\ ver' = ver /\ scripts' = scripts
  BY ZenonT(60), <1>4 DEF files
<1>9. NamesOK(w)' /\ HandleOK(w)'
  BY Zenon, <1>0, <1>1, <1>5, <1>7 DEF CallOK, NamesOK, HandleOK, mtime
<1>10. FoundOK(w)'
  BY Zenon, <1>1, <1>5, <1>6, <1>7 DEF FoundOK, HasScript, Direct
<1>11. StoringOK(w)'
  BY Zenon, <1>0, <1>1, <1>4, <1>5, <1>7 DEF CallOK, StoringOK, Storing, Held
<1> QED
  BY Zenon, <1>1, <1>4, <1>6, <1>7, <1>8, <1>9, <1>10, <1>11, HolderStep DEF CallOK

\* Alias(): the key is not a file, so its entry, if there is one, refers to
\* another; no script of its own is displaced.
LEMMA AliasStep ==
    ASSUME StoreInv, NEW w \in Workers, Alias(w)
    PROVE  StoreInv'
<1> DEFINE o == op[w]
           k == o.name
           d == EntryRef(o.bucket)
           old == Published(k)
<1>0. TypeOK /\ CallOK(w) /\ o \in Ops
  BY OpTypes DEF StoreInv
<1>1. /\ o.pc = "alias" /\ k \in Names /\ k \notin Files /\ lock = w
      /\ Direct(o.bucket) /\ o.bucket # 0
  BY <1>0 DEF Alias, CallOK, NamesOK, FoundOK, StoringOK, Storing, Held, At, Direct, TypeOK
<1>2. d \in [kind : {"script", "entry"}, at : Nat \ {0}]
  BY Zenon, <1>0, <1>1, OpTypes DEF EntryRef
<1>3. d.kind = "entry" /\ d.at = o.bucket
  BY DEF EntryRef
<1>4. EntriesOK /\ UNCHANGED <<files, scripts, shared_free, wasted, restart, counted>>
  BY Zenon DEF Alias, StoreInv
<1>5. \A e \in old : e \in DOMAIN entries /\ entries[e].key = k /\ entries[e].indirect
  BY <1>1, <1>4 DEF Published, EntriesOK
<1>a. CASE Full(w, TRUE) /\ entries' = entries
  BY Zenon, <1>1, <1>4, <1>a, FullStep
<1>b. SUFFICES ASSUME ~(Full(w, TRUE) /\ entries' = entries) PROVE StoreInv'
  BY <1>a
<1>6. /\ KeyDone(w) /\ memory_exhausted' = memory_exhausted
      /\ \/ ~zend_accel_hash_is_full /\ entries' = NewEntry(k, TRUE, d)
         \/ \E e \in old : entries' = [entries EXCEPT ![e].data = d]
  BY Zenon, <1>5, <1>b DEF Alias
<1>7. /\ op' = [op EXCEPT ![w] = op'[w]] /\ op'[w] \in Ops /\ CallOK(w)'
      /\ lock' \in Workers \cup {None}
  BY <1>1, <1>4, <1>6, KeyDoneStep
<1> HIDE DEF d, old
<1>8. /\ SegmentGrows /\ EntriesOK'
      /\ entries' \in Seq(Entries) /\ Len(entries') <= MaxEntries
  <2>2. CASE ~zend_accel_hash_is_full /\ entries' = NewEntry(k, TRUE, d)
    <3> DEFINE b == Len(entries')
    <3>1. Len(entries) < MaxEntries
      BY <1>0, <2>2, StoreAssumption DEF TypeOK, zend_accel_hash_is_full
    <3>2. /\ entries' \in Seq(Entries) /\ Len(entries') <= MaxEntries
          /\ DOMAIN entries' = DOMAIN entries \cup {b} /\ b \notin DOMAIN entries
          /\ entries'[b].data = d /\ entries'[b].key = k /\ entries'[b].indirect = TRUE
          /\ \A f \in DOMAIN entries : entries'[f] = entries[f]
      BY Zenon, <1>0, <1>1, <1>2, <2>2, <3>1, EntryAdded
    <3> HIDE DEF b, k
    <3> QED
      BY Zenon, <1>1, <1>3, <1>4, <3>2 DEF EntriesOK, SegmentGrows, Direct
  <2>3. CASE \E e \in old : entries' = [entries EXCEPT ![e].data = d]
    <3>1. PICK e \in old : entries' = [entries EXCEPT ![e].data = d]
      BY Zenon, <2>3
    <3>2. /\ entries' \in Seq(Entries) /\ Len(entries') = Len(entries)
          /\ DOMAIN entries' = DOMAIN entries
          /\ entries'[e].data = d /\ entries'[e].key = entries[e].key
          /\ entries'[e].indirect = entries[e].indirect
          /\ \A f \in DOMAIN entries : f # e => entries'[f] = entries[f]
      BY Zenon, <1>0, <1>2, <1>5, <3>1, DataSet
    <3>3. SegmentGrows
      BY ZenonT(60), <1>4, <3>2 DEF SegmentGrows
    <3>4. EntriesOK'
      <4>1. \A f \in DOMAIN entries : entries'[f].indirect = entries[f].indirect
        BY Zenon, <3>2
      <4>2. /\ entries'[e].data.kind = "entry" /\ entries'[e].data.at = o.bucket
            /\ entries'[e].key = k /\ entries'[e].indirect
        BY Zenon, <1>3, <1>5, <3>2
      <4> HIDE DEF o, k
      <4> QED
        BY ONLY SMTT(40), <1>1, <1>4, <3>2, <4>1, <4>2 DEF EntriesOK, Direct
    <3>5. Len(entries') <= MaxEntries
      BY Zenon, <1>0, <3>2 DEF TypeOK
    <3> QED
      BY <3>2, <3>3, <3>4, <3>5
  <2> QED
    BY Zenon, <1>6, <2>2, <2>3
<1>9. SegmentTypes' /\ ScriptsOK'
  BY <1>0, <1>4, <1>6, <1>7, <1>8 DEF StoreInv, TypeOK, SegmentTypes, ScriptsOK, restart
<1> QED
  BY Zenon, <1>1, <1>4, <1>7, <1>8, <1>9, HolderStep

\* Account(): the script that w has stored is the one it has compiled.
LEMMA AccountStep ==
    ASSUME StoreInv, NEW w \in Workers, Account(w)
    PROVE  StoreInv'
<1> DEFINE o == op[w]
           q == op'[w]
           i == o.script
<1>0. TypeOK /\ CallOK(w) /\ o \in Ops
  BY OpTypes DEF StoreInv
<1>1. /\ o.pc = "account" /\ i # 0 /\ i \in DOMAIN scripts /\ lock = w
      /\ o.name \in Names /\ o.call = "include" /\ o.text # 0
      /\ scripts[i].path = o.opened /\ scripts[i].text = o.text
      /\ o.opened \in o.reach /\ o.text >= o.floor[o.opened]
  BY <1>0 DEF Account, CallOK, NamesOK, HandleOK, FoundOK, StoringOK, HasScript, Storing, Held,
              Included, At
<1>2. /\ q = Found(w, "run") /\ op' = [op EXCEPT ![w] = op'[w]] /\ lock' = None
      /\ scripts' = [scripts EXCEPT ![i].consumption = ScriptSize]
      /\ UNCHANGED <<files, entries, shared_free, wasted, memory_exhausted, restart,
                     counted>>
  BY Zenon, <1>0 DEF Account, TypeOK
<1>3. /\ scripts \in [1 .. Len(scripts) -> Scripts] /\ i \in 1 .. Len(scripts)
      /\ scripts \in Seq(Scripts)
  <2>1. scripts \in Seq(Scripts)
    BY <1>0 DEF TypeOK
  <2> HIDE DEF i
  <2> QED
    BY ONLY <1>1, <2>1
<1>4. /\ DOMAIN scripts' = DOMAIN scripts
      /\ scripts'[i] = [scripts[i] EXCEPT !.consumption = ScriptSize]
      /\ \A j \in DOMAIN scripts : j # i => scripts'[j] = scripts[j]
      /\ scripts' = [scripts EXCEPT ![i] = scripts'[i]]
  BY Zenon, <1>1, <1>2, <1>3
<1>5. /\ scripts'[i] \in Scripts /\ scripts'[i].path = scripts[i].path
      /\ scripts'[i].text = scripts[i].text /\ scripts'[i].timestamp = scripts[i].timestamp
  <2> DEFINE s == scripts[i]
             r == scripts'[i]
  <2>1. s \in Scripts /\ r = [s EXCEPT !.consumption = ScriptSize]
    BY <1>3, <1>4
  <2> HIDE DEF s, r
  <2>2. r \in Scripts /\ r.path = s.path /\ r.text = s.text /\ r.timestamp = s.timestamp
    BY ONLY <2>1 DEF Scripts
  <2> QED
    BY <2>2 DEF s, r
<1>6. scripts' \in Seq(Scripts)
  BY <1>3, <1>4, <1>5, ElementSet
<1>7. SegmentGrows /\ EntriesOK' /\ ScriptsOK'
  <2>1. \A j \in DOMAIN scripts : /\ scripts'[j].path = scripts[j].path
                                  /\ scripts'[j].text = scripts[j].text
                                  /\ scripts'[j].timestamp = scripts[j].timestamp
    BY Zenon, <1>4, <1>5
  <2> HIDE DEF i
  <2> QED
    BY <1>2, <1>4, <2>1 DEF StoreInv, EntriesOK, ScriptsOK, SegmentGrows
<1>8. SegmentTypes'
  BY <1>0, <1>2, <1>6 DEF TypeOK, SegmentTypes, restart
<1>9. op'[w] \in Ops /\ CallOK(w)'
  BY Zenon, <1>1, <1>2, <1>4, <1>5, FoundStep
<1> QED
  BY Zenon, <1>1, <1>2, <1>7, <1>8, <1>9, HolderStep

----------------------------------------------------------------------------
\* A change of the file system: contents only get newer.
LEMMA NewContents ==
    ASSUME StoreInv, NEW n \in Names, events < MaxEvents, events' = events + 1,
           n \in Renamed \/ n \notin Files \/ ino' = ino,
           ino' = ino \/ ino' = [ino EXCEPT ![n] = <<n, events'>>],
           ver' = [ver EXCEPT ![ino'[n]] = events' + 1],
           link' \in [Names -> Names],
           \A f \in Names : link'[f] \in Files /\ (f \in Files => link'[f] = f),
           UNCHANGED <<entries, scripts>>
    PROVE  /\ ino' \in [Names -> Inodes] /\ ver' \in [Inodes -> 1 .. MaxEvents + 1]
           /\ events' \in 0 .. MaxEvents /\ FilesOK' /\ Grows
<1> DEFINE i == ino'[n]
<1>0. /\ TypeOK /\ FilesOK /\ MaxEvents \in Nat /\ events \in Nat
      /\ ino \in [Names -> Inodes] /\ ver \in [Inodes -> 1 .. MaxEvents + 1]
      /\ events' \in 0 .. MaxEvents /\ Files \subseteq Names
  BY StoreAssumption DEF StoreInv, TypeOK, Files
<1>1. <<n, events'>> \in Inodes
  BY <1>0 DEF Inodes
<1>2. ino' \in [Names -> Inodes] /\ \A f \in Names : f # n => ino'[f] = ino[f]
  BY <1>0, <1>1
<1>3. i \in Inodes
  BY <1>2
<1>4. events' + 1 \in 1 .. MaxEvents + 1
  BY <1>0
<1>5. /\ ver' \in [Inodes -> 1 .. MaxEvents + 1]
      /\ ver'[i] = events' + 1 /\ \A j \in Inodes : j # i => ver'[j] = ver[j]
  BY Zenon, <1>0, <1>3, <1>4
<1>6. \A j \in Inodes : ver[j] <= events + 1 /\ ver[j] \in Int
  BY <1>0 DEF FilesOK
<1>7. \A j \in Inodes : ver'[j] >= ver[j] /\ ver'[j] <= events' + 1
  BY <1>0, <1>5, <1>6
<1>8. \A f \in Files \ Renamed : ino'[f] = ino[f]
  BY <1>0, <1>2
<1>9. \A f \in Files : mtime(f)' >= mtime(f)
  <2>1. SUFFICES ASSUME NEW f \in Files PROVE mtime(f)' >= mtime(f)
    BY Zenon
  <2>2. link[f] = f /\ link'[f] = f /\ f \in Names
    BY Zenon, <1>0 DEF FilesOK
  <2>3. mtime(f) = ver[ino[f]] /\ mtime(f)' = ver'[ino'[f]] /\ ino[f] \in Inodes
    BY Zenon, <1>0, <2>2 DEF mtime
  <2>4. CASE f = n
    BY <1>0, <1>5, <1>6, <2>3, <2>4
  <2>5. CASE f # n
    BY <1>2, <1>7, <2>2, <2>3, <2>5
  <2> QED
    BY <2>4, <2>5
<1>10. FilesOK'
  BY Zenon, <1>0, <1>7, <1>8 DEF FilesOK
<1>11. Grows
  BY <1>7, <1>8, <1>9 DEF Grows
<1> QED
  BY Zenon, <1>0, <1>2, <1>5, <1>10, <1>11

\* New contents of a file, in its inode or in another, disturb no call.
LEMMA EditStep ==
    ASSUME StoreInv, NEW n \in Names, Edit(n)
    PROVE  StoreInv'
<1>1. /\ events < MaxEvents /\ events' = events + 1
      /\ n \in Renamed \/ n \notin Files \/ ino' = ino
      /\ ino' = ino \/ ino' = [ino EXCEPT ![n] = <<n, events'>>]
      /\ ver' = [ver EXCEPT ![ino'[n]] = events' + 1]
      /\ UNCHANGED <<link, mixed, segment, lock, counted, op>>
  BY Zenon DEF Edit
<1>2. /\ link' \in [Names -> Names]
      /\ \A f \in Names : link'[f] \in Files /\ (f \in Files => link'[f] = f)
      /\ UNCHANGED <<entries, scripts>>
  BY <1>1 DEF StoreInv, TypeOK, FilesOK, segment, restart
<1>3. /\ ino' \in [Names -> Inodes] /\ ver' \in [Inodes -> 1 .. MaxEvents + 1]
      /\ events' \in 0 .. MaxEvents /\ FilesOK' /\ Grows
  BY Zenon, <1>1, <1>2, NewContents
<1>4. TypeOK'
  BY Zenon, <1>1, <1>2, <1>3 DEF StoreInv, TypeOK, segment, restart
<1>5. EntriesOK' /\ ScriptsOK'
  BY Zenon, <1>2 DEF StoreInv, EntriesOK, ScriptsOK
<1>6. ASSUME NEW v \in Workers PROVE CallOK(v)'
  <2>1. Stays(v) /\ CallOK(v)
    BY <1>1 DEF Stays, StoreInv
  <2>2. /\ op[v].call = "include" => link'[op[v].name] \in op'[v].reach
        /\ op[v].pc \in Held => lock' = v
        /\ Len(entries') = Len(entries)
    BY Zenon, <1>1, <1>2, <2>1 DEF CallOK, NamesOK, StoringOK
  <2> QED
    BY Zenon, <1>3, <1>4, <2>1, <2>2, Others DEF StoreInv
<1> QED
  BY Zenon, <1>3, <1>4, <1>5, <1>6 DEF StoreInv

\* A link is made to lead to another file.
LEMMA RelinkStep ==
    ASSUME StoreInv, NEW n \in Names, NEW t \in Names, Relink(n, t), ~mixed'
    PROVE  StoreInv'
<1>0. TypeOK /\ FilesOK
  BY DEF StoreInv
<1>1. /\ events < MaxEvents /\ events' = events + 1 /\ link' = [link EXCEPT ![n] = t]
      /\ ino' = [ino EXCEPT ![n] = <<n, events'>>]
      /\ ver' = [ver EXCEPT ![ino'[n]] = events' + 1]
      /\ n # t /\ n # link[n] /\ link[t] = t /\ mixed' = FALSE
      /\ UNCHANGED <<segment, lock, counted>>
  BY Zenon DEF Relink
<1>2. n \notin Files /\ t \in Files
  BY Zenon, <1>0, <1>1 DEF FilesOK
<1>3. /\ link' \in [Names -> Names]
      /\ \A f \in Names : link'[f] \in Files /\ (f \in Files => link'[f] = f)
      /\ UNCHANGED <<entries, scripts>>
  BY <1>0, <1>1, <1>2 DEF TypeOK, FilesOK, segment, restart
<1>4. /\ ino' \in [Names -> Inodes] /\ ver' \in [Inodes -> 1 .. MaxEvents + 1]
      /\ events' \in 0 .. MaxEvents /\ FilesOK' /\ Grows
  BY Zenon, <1>1, <1>2, <1>3, NewContents
<1>5. ASSUME NEW v \in Workers
      PROVE  /\ op'[v] \in Ops /\ Stays(v)
             /\ op[v].name = n => t \in op'[v].reach
  <2> DEFINE o == op[v]
             q == op'[v]
  <2>1. q = IF o.name = n THEN [o EXCEPT !.reach = @ \cup {t}] ELSE o
    BY Zenon DEF Relink
  <2>2. o \in Ops /\ o.reach \cup {t} \in SUBSET Names
    BY <1>0, OpTypes
  <2>3. CASE o.name # n
    BY Zenon, <2>1, <2>2, <2>3 DEF Stays
  <2>4. CASE o.name = n
    <3>1. q = [o EXCEPT !.reach = o.reach \cup {t}]
      BY <2>1, <2>4
    <3> HIDE DEF o, q
    <3>2. /\ q \in Ops /\ q.reach = o.reach \cup {t}
          /\ q.pc = o.pc /\ q.call = o.call /\ q.name = o.name /\ q.opened = o.opened
          /\ q.handle = o.handle /\ q.bucket = o.bucket /\ q.script = o.script
          /\ q.stamp = o.stamp /\ q.text = o.text /\ q.floor = o.floor
      BY ONLY Zenon, <2>2, <3>1 DEF Ops
    <3>3. o.reach \subseteq q.reach /\ t \in q.reach
      BY <3>2
    <3> QED
      BY <3>2, <3>3 DEF Stays, o, q
  <2> QED
    BY <2>3, <2>4
<1>6. op' \in [Workers -> Ops]
  BY Zenon, <1>5 DEF Relink
<1>7. TypeOK'
  <2>1. mixed' \in BOOLEAN /\ UNCHANGED <<segment, lock, counted>>
    BY Zenon, <1>1
  <2> QED
    BY ONLY Zenon, <1>0, <2>1, <1>3, <1>4, <1>6 DEF TypeOK, segment, restart
<1>8. EntriesOK' /\ ScriptsOK'
  BY Zenon, <1>3 DEF StoreInv, EntriesOK, ScriptsOK
<1>9. ASSUME NEW v \in Workers PROVE CallOK(v)'
  <2>1. Stays(v) /\ CallOK(v)
    BY <1>5 DEF StoreInv
  <2>2. op[v].call = "include" => link'[op[v].name] \in op'[v].reach
    <3>1. SUFFICES ASSUME op[v].call = "include"
                   PROVE  link'[op[v].name] \in op'[v].reach
      BY Zenon
    <3>2. op[v].name \in Names /\ link[op[v].name] \in op'[v].reach
      BY Zenon, <2>1, <3>1 DEF CallOK, NamesOK, Stays
    <3>3. CASE op[v].name = n
      BY Zenon, <1>0, <1>1, <1>5, <3>3 DEF TypeOK
    <3>4. CASE op[v].name # n
      BY ZenonT(60), <1>0, <1>1, <3>2, <3>4 DEF TypeOK
    <3> QED
      BY Zenon, <3>3, <3>4
  <2>3. /\ op[v].pc \in Held => lock' = v
        /\ Len(entries') = Len(entries)
    BY Zenon, <1>1, <1>3, <2>1 DEF CallOK, StoringOK
  <2> QED
    BY Zenon, <1>0, <1>4, <1>7, <2>1, <2>2, <2>3, Others
<1> QED
  BY <1>4, <1>7, <1>8, <1>9 DEF StoreInv

\* A worker dies and leaves the segment as it is, without its lock.
LEMMA CrashStep ==
    ASSUME StoreInv, NEW w \in Workers, Crash(w)
    PROVE  StoreInv'
<1>0. TypeOK /\ MaxEvents \in Nat
  BY StoreAssumption DEF StoreInv
<1>1. /\ events < MaxEvents /\ events' = events + 1 /\ op' = [op EXCEPT ![w] = Outside]
      /\ counted' = [counted EXCEPT ![w] = FALSE]
      /\ lock' = IF lock = w THEN None ELSE lock
      /\ UNCHANGED <<link, ino, ver, mixed, entries, scripts, shared_free, wasted,
                     memory_exhausted, restart_pending, accelerator_enabled>>
      /\ uncounted' = uncounted \cup {i \in {op[w].script} : Marking(w)}
      /\ undecided' = (undecided \/ (Deciding(w) /\ RestartDue))
  BY Zenon DEF Crash
<1>2. op'[w] = Outside /\ \A v \in Workers : v # w => op'[v] = op[v]
  BY Zenon, <1>0, <1>1 DEF TypeOK
<1>3. /\ ver' \in [Inodes -> 1 .. MaxEvents + 1] /\ ino' \in [Names -> Inodes]
      /\ link' \in [Names -> Names]
  BY Zenon, <1>0, <1>1 DEF TypeOK
<1>4. op'[w] \in Ops /\ CallOK(w)'
  BY Zenon, <1>2, <1>3, Idle
<1>5. TypeOK'
  <2>1. events' \in 0 .. MaxEvents
    BY <1>0, <1>1 DEF TypeOK
  <2>2. op' \in [Workers -> Ops] /\ counted' \in [Workers -> BOOLEAN]
        /\ lock' \in Workers \cup {None}
    BY ZenonT(60), <1>0, <1>1, <1>2, <1>4 DEF TypeOK
  <2>3. uncounted' \in SUBSET Nat /\ undecided' \in BOOLEAN
    <3>1. op[w].script \in Nat /\ uncounted \in SUBSET Nat
      BY Zenon, <1>0, OpTypes DEF TypeOK
    <3> QED
      BY ONLY Zenon, <1>1, <3>1
  <2> QED
    BY Zenon, <1>0, <1>1, <2>1, <2>2, <2>3 DEF TypeOK
<1>6. FilesOK' /\ EntriesOK' /\ ScriptsOK'
  <2>1. \A i \in Inodes : ver'[i] <= events' + 1
    <3>1. /\ \A i \in Inodes : ver[i] <= events + 1
          /\ \A i \in Inodes : ver[i] \in Int
          /\ events' = events + 1 /\ ver' = ver
      BY Zenon, <1>0, <1>1, Times DEF StoreInv, FilesOK
    <3>2. events \in 0 .. MaxEvents
      BY Zenon, <1>0 DEF TypeOK
    <3> QED
      BY ONLY SMTT(40), <1>0, <3>1, <3>2
  <2> QED
    BY Zenon, <1>1, <2>1 DEF StoreInv, FilesOK, EntriesOK, ScriptsOK
<1>7. Grows
  <2>1. /\ \A i \in Inodes : ver[i] \in Int
        /\ \A f \in Files : mtime(f) \in Int
    BY <1>0, Times DEF Files
  <2> QED
    BY SMTT(40), <1>1, <2>1 DEF Grows, mtime
<1>8. ASSUME NEW v \in Workers PROVE CallOK(v)'
  <2>1. CASE v = w
    BY Zenon, <1>4, <2>1
  <2>2. CASE v # w
    <3>1. Stays(v) /\ CallOK(v)
      BY Zenon, <1>2, <2>2 DEF Stays, StoreInv
    <3>2. op[v].pc \in Held => lock' = v
      BY ZenonT(60), <1>1, <2>2, <3>1 DEF CallOK, StoringOK
    <3>3. op[v].call = "include" => link'[op[v].name] \in op'[v].reach
      BY Zenon, <1>1, <1>2, <2>2, <3>1 DEF CallOK, NamesOK
    <3>4. Len(entries') = Len(entries)
      BY <1>1
    <3> QED
      BY Zenon, <1>0, <1>5, <1>7, <3>1, <3>2, <3>3, <3>4, Others
  <2> QED
    BY <2>1, <2>2
<1> QED
  BY Zenon, <1>5, <1>6, <1>8 DEF StoreInv

\* A request starts, as usual or to wipe the segment.
LEMMA ActivateStep ==
    ASSUME StoreInv, NEW w \in Workers, accel_activate(w)
    PROVE  StoreInv'
<1>0. TypeOK
  BY Zenon DEF StoreInv
<1>1. /\ op' = [op EXCEPT ![w] = op'[w]] /\ counted' \in [Workers -> BOOLEAN]
      /\ UNCHANGED <<files, counted, entries, scripts, shared_free, wasted, memory_exhausted>>
  BY <1>0 DEF accel_activate, TypeOK
<1>2. CASE op' = [op EXCEPT ![w] = Inside] /\ UNCHANGED <<restart, lock>>
  <2>1. op'[w] = Inside /\ UNCHANGED segment
    BY Zenon, <1>0, <1>1, <1>2 DEF segment, TypeOK
  <2> QED
    BY Zenon, <1>1, <1>2, <2>1, IdleStep
<1>3. CASE /\ op' = [op EXCEPT ![w] = [Inside EXCEPT !.pc = "clean"]]
           /\ lock = None /\ lock' = w /\ restart_pending' = FALSE
           /\ UNCHANGED <<accelerator_enabled, uncounted, undecided>>
  <2>1. op'[w] = [Inside EXCEPT !.pc = "clean"]
    BY Zenon, <1>0, <1>3 DEF TypeOK
  <2>2. /\ ver' \in [Inodes -> 1 .. MaxEvents + 1] /\ ino' \in [Names -> Inodes]
        /\ link' \in [Names -> Names]
    BY Zenon, <1>0, <1>1 DEF TypeOK, files
  <2>3. op'[w] \in Ops /\ CallOK(w)'
    BY Zenon, <1>3, <2>1, <2>2, Idle
  <2>4. EntriesOK' /\ ScriptsOK' /\ SegmentGrows /\ SegmentTypes'
    BY <1>0, <1>1, <1>3
       DEF StoreInv, TypeOK, EntriesOK, ScriptsOK, SegmentGrows, SegmentTypes
  <2> QED
    BY Zenon, <1>1, <1>3, <2>3, <2>4, HolderStep
<1> QED
  BY Zenon, <1>2, <1>3 DEF accel_activate

\* The wipe: nobody is in a call.
LEMMA WipeStep ==
    ASSUME StoreInv, NEW w \in Workers, UNCHANGED <<files, counted>>, SegmentTypes',
           EntriesOK', ScriptsOK',
           \A v \in Workers \ {w} : op[v].pc \in {"out", "idle"},
           op' = [op EXCEPT ![w] = op'[w]], op'[w] \in Ops, CallOK(w)'
    PROVE  StoreInv'
<1>0. TypeOK
  BY Zenon DEF StoreInv
<1>1. /\ ver' = ver /\ ino' = ino /\ link' = link /\ events' = events /\ mixed' = mixed
  BY Zenon DEF files
<1>2. TypeOK' /\ FilesOK'
  BY Zenon, <1>0, <1>1 DEF StoreInv, TypeOK, SegmentTypes, FilesOK
<1>3. ASSUME NEW v \in Workers, v # w PROVE CallOK(v)'
  <2>1. op'[v] = op[v] /\ CallOK(v) /\ op[v].pc \in {"out", "idle"}
    BY Zenon, <1>0, <1>3 DEF TypeOK, StoreInv
  <2>2. op[v].script = 0 /\ op[v].text = 0
    BY ZenonT(60), <2>1 DEF CallOK, StoringOK, Storing
  <2>3. NamesOK(v)'
    <3>1. \A f \in Files : mtime(f)' = mtime(f)
      BY Zenon, <1>1 DEF mtime
    <3>2. NamesOK(v)
      BY Zenon, <2>1 DEF CallOK
    <3>3. \A f \in Files : op'[v].floor[f] <= mtime(f)'
      BY Zenon, <2>1, <3>1, <3>2 DEF NamesOK
    <3>4. /\ op'[v].call = "include" => op'[v].name \in Names /\ link'[op'[v].name] \in op'[v].reach
          /\ op'[v].pc \in Included => op'[v].call = "include"
          /\ op'[v].pc \in {"out", "clean", "restore", "idle"}
      BY Zenon, <1>1, <2>1, <3>2 DEF NamesOK
    <3> QED
      BY Zenon, <3>3, <3>4 DEF NamesOK
  <2>4. HandleOK(v)'
    BY ZenonT(60), <1>1, <2>1 DEF CallOK, HandleOK, At
  <2>5. FoundOK(v)' /\ StoringOK(v)'
    BY Zenon, <2>1, <2>2 DEF FoundOK, StoringOK, HasScript, Storing, Held, At
  <2> QED
    BY Zenon, <2>3, <2>4, <2>5 DEF CallOK
<1> QED
  BY Zenon, <1>2, <1>3 DEF StoreInv

----------------------------------------------------------------------------
\* Where no worker uses the segment.
Resting == {"out", "clean", "restore", "idle"}

\* The cache is off while a restart is pending, and is not used from its wipe
\* until it is on again, which is never if the worker that wipes it dies.
RestartInv ==
    /\ restart_pending => ~accelerator_enabled
    /\ ~accelerator_enabled /\ ~restart_pending =>
        \A w \in Workers : ~counted[w] /\ op[w].pc \in Resting
    /\ \A w \in Workers : op[w].pc \in {"clean", "restore"} =>
        ~accelerator_enabled /\ ~restart_pending
    /\ \A w \in Workers : At(w, "restore") => entries = <<>>

\* The worker that wipes the segment is alone with it.
LEMMA WipesAlone ==
    ASSUME StoreInv, RestartInv, NEW w \in Workers, op[w].pc \in {"clean", "restore"}
    PROVE  \A v \in Workers \ {w} : op[v].pc \in {"out", "idle"}
<1>1. /\ \A v \in Workers : op[v].pc \in Held => lock = v
      /\ \A v \in Workers : op[v].pc \in Resting
  BY Zenon DEF StoreInv, CallOK, StoringOK, RestartInv
<1>2. lock = w
  BY <1>1 DEF Held
<1> QED
  BY <1>1, <1>2 DEF Held, Resting

LEMMA CleanStep ==
    ASSUME StoreInv, RestartInv, NEW w \in Workers, zend_accel_hash_clean(w)
    PROVE  StoreInv'
<1> DEFINE o == op[w]
           q == op'[w]
<1>0. TypeOK /\ CallOK(w) /\ o \in Ops /\ o.pc = "clean"
  BY Zenon, OpTypes DEF StoreInv, zend_accel_hash_clean, At
<1>1. /\ UNCHANGED <<files, scripts, shared_free, wasted, memory_exhausted, restart, lock, counted>>
      /\ entries' = <<>> /\ lock = w /\ o.text = 0 /\ o.script = 0
  BY <1>0, NothingCompiled DEF zend_accel_hash_clean, CallOK, StoringOK, Held, Storing
<1>2. q = [o EXCEPT !.pc = "restore"] /\ op' = [op EXCEPT ![w] = op'[w]]
  BY Zenon, <1>0 DEF zend_accel_hash_clean, Goto, TypeOK
<1>3. /\ q \in Ops /\ q.pc = "restore" /\ q.call = o.call /\ q.name = o.name
      /\ q.opened = o.opened /\ q.handle = o.handle /\ q.bucket = o.bucket
      /\ q.script = o.script /\ q.stamp = o.stamp /\ q.text = o.text
      /\ q.floor = o.floor /\ q.reach = o.reach
  <2>1. "restore" \in Locations
    BY DEF Locations
  <2> HIDE DEF o, q
  <2> QED
    BY ONLY Zenon, <1>0, <1>2, <2>1 DEF Ops
<1> USE DEF At
<1>. link' = link /\ ino' = ino /\ ver' = ver
  BY Zenon, <1>1 DEF files
<1>4. NamesOK(w)' /\ HandleOK(w)'
  BY Zenon, <1>0, <1>3 DEF CallOK, NamesOK, HandleOK, mtime, Included
<1>5. FoundOK(w)' /\ StoringOK(w)'
  BY <1>1, <1>3 DEF FoundOK, StoringOK, HasScript, Storing, Held
<1>6. entries' \in Seq(Entries) /\ Len(entries') = 0 /\ DOMAIN entries' = {}
  BY <1>1
<1>7. EntriesOK' /\ ScriptsOK'
  BY Zenon, <1>1, <1>6 DEF StoreInv, EntriesOK, ScriptsOK
<1>8. SegmentTypes'
  BY <1>0, <1>1, <1>6, StoreAssumption DEF TypeOK, SegmentTypes, restart
<1>9. \A v \in Workers \ {w} : op[v].pc \in {"out", "idle"}
  BY <1>0, WipesAlone
<1> QED
  BY Zenon, <1>1, <1>2, <1>3, <1>4, <1>5, <1>7, <1>8, <1>9, WipeStep DEF CallOK

LEMMA RestoreStep ==
    ASSUME StoreInv, RestartInv, NEW w \in Workers, zend_shared_alloc_restore_state(w)
    PROVE  StoreInv'
<1>0. TypeOK /\ op[w].pc = "restore" /\ entries = <<>>
  BY Zenon DEF StoreInv, RestartInv, zend_shared_alloc_restore_state, At
<1>1. /\ UNCHANGED <<files, entries, restart_pending, counted>>
      /\ scripts' = <<>> /\ shared_free' = Memory /\ wasted' = 0 /\ memory_exhausted' = FALSE
      /\ accelerator_enabled' = TRUE /\ uncounted' = {} /\ undecided' = FALSE /\ lock' = None
  BY Zenon DEF zend_shared_alloc_restore_state
<1>2. op'[w] = Inside /\ op' = [op EXCEPT ![w] = op'[w]]
  BY Zenon, <1>0 DEF zend_shared_alloc_restore_state, TypeOK
<1>3. /\ ver' \in [Inodes -> 1 .. MaxEvents + 1] /\ ino' \in [Names -> Inodes]
      /\ link' \in [Names -> Names]
  BY Zenon, <1>0, <1>1 DEF TypeOK, files
<1>4. op'[w] \in Ops /\ CallOK(w)'
  BY <1>2, <1>3, Idle
<1>5. EntriesOK' /\ ScriptsOK'
  <2>1. DOMAIN entries' = {} /\ DOMAIN scripts' = {}
    BY <1>0, <1>1
  <2> QED
    BY ONLY <2>1 DEF EntriesOK, ScriptsOK
<1>6. SegmentTypes'
  <2>1. /\ entries' \in Seq(Entries) /\ Len(entries') = 0 /\ scripts' \in Seq(Scripts)
    BY <1>0, <1>1
  <2>2. shared_free' \in 0 .. Memory /\ Len(entries') <= MaxEntries /\ wasted' \in Nat
    BY ONLY <1>1, <2>1, StoreAssumption
  <2>3. restart_pending' \in BOOLEAN
    BY <1>0, <1>1 DEF TypeOK
  <2> QED
    BY ONLY Zenon, <1>1, <2>1, <2>2, <2>3 DEF SegmentTypes
<1>7. \A v \in Workers \ {w} : op[v].pc \in {"out", "idle"}
  BY <1>0, WipesAlone
<1> QED
  BY Zenon, <1>1, <1>2, <1>4, <1>5, <1>6, <1>7, WipeStep

=============================================================================
