---------------------------- MODULE SharedCache ----------------------------
(***************************************************************************)
(* What the restart of the opcode cache promises the workers that share    *)
(* it.  A wipe is carried out by one worker at a time, once for each time  *)
(* it was asked for, and starts when no other worker is a reader.  What a  *)
(* worker finds as a reader is good until it lets go of it.  What it finds *)
(* otherwise may be wiped under its hands.  OpcacheRestart is shown to     *)
(* implement this module.                                                  *)
(***************************************************************************)
CONSTANT Procs      \* the workers

VARIABLES
  wanted,     \* a wipe has been asked for
  chosen,     \* the worker, if any, that is going to wipe
  answered,   \* it, once it has taken the request back
  readers,    \* workers that no wipe may start against
  held        \* what each worker has found in the cache

vars == <<wanted, chosen, answered, readers, held>>

Init ==
  /\ wanted = FALSE /\ chosen = {} /\ answered = {} /\ readers = {}
  /\ held = [p \in Procs |-> "none"]

Ask ==
  /\ wanted' = TRUE
  /\ UNCHANGED <<chosen, answered, readers, held>>

Choose(p) ==
  /\ wanted /\ chosen = {} /\ readers \subseteq {p}
  /\ chosen' = {p}
  /\ UNCHANGED <<wanted, answered, readers, held>>

Answer(p) ==
  /\ p \in chosen
  /\ wanted' = FALSE
  /\ answered' = {p}
  /\ UNCHANGED <<chosen, readers, held>>

\* What was found by readers stays: nobody but p can hold any of it.
Wipe(p) ==
  /\ p \in answered
  /\ held' = [q \in Procs |-> IF held[q] = "exposed" THEN "dangling" ELSE held[q]]
  /\ chosen' = {} /\ answered' = {}
  /\ UNCHANGED <<wanted, readers>>

\* A worker that comes too late, when the one to wipe is chosen, is no reader.
Enter(p) ==
  /\ chosen = {}
  /\ readers' = readers \cup {p}
  /\ UNCHANGED <<wanted, chosen, answered, held>>

Find(p) ==
  /\ held' = [held EXCEPT ![p] = IF p \in readers THEN "guarded" ELSE "exposed"]
  /\ UNCHANGED <<wanted, chosen, answered, readers>>

Drop(p) ==
  /\ held' = [held EXCEPT ![p] = "none"]
  /\ UNCHANGED <<wanted, chosen, answered, readers>>

\* A reader does not leave with something that it needs to be a reader for.
Leave(p) ==
  /\ readers' = readers \ {p}
  /\ \/ held[p] # "guarded" /\ UNCHANGED held
     \/ held' = [held EXCEPT ![p] = "none"]
  /\ UNCHANGED <<wanted, chosen, answered>>

Die(p) ==
  /\ readers' = readers \ {p}
  /\ held' = [held EXCEPT ![p] = "none"]
  /\ chosen' = chosen \ {p} /\ answered' = answered \ {p}
  /\ UNCHANGED wanted

Next ==
  \/ Ask
  \/ \E p \in Procs : \/ Choose(p) \/ Answer(p) \/ Wipe(p)
                      \/ Enter(p) \/ Leave(p) \/ Find(p) \/ Drop(p) \/ Die(p)

Spec == Init /\ [][Next]_vars
=============================================================================
