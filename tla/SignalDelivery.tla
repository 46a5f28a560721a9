--------------------------- MODULE SignalDelivery ---------------------------
(***************************************************************************)
(* What deferring signals promises the rest of the interpreter.  A signal  *)
(* that the kernel holds is served at once outside critical sections, and  *)
(* waits in order of arrival when it comes within one.  It is forgotten    *)
(* only when the waiting list is full, and abandoned only by a handler     *)
(* that does not return.  ZendSignal is shown to implement this module.    *)
(***************************************************************************)
EXTENDS Integers, Sequences

CONSTANTS
    Signals,    \* the signals that are deferred
    None        \* no signal

VARIABLES
    pending,    \* signals held by the kernel
    enabled,    \* between the start and the end of a request
    critical,   \* the program is in a critical section of a request
    waiting,    \* deferred signals, oldest first
    serving,    \* the signal whose handler runs, or None
    room        \* how many signals can wait

vars == <<pending, enabled, critical, waiting, serving, room>>

Init ==
    /\ pending = {} /\ ~enabled /\ ~critical
    /\ waiting = <<>> /\ serving = None /\ room \in Nat

\* Another process, a timer or the program itself raises s.
Raise(s) ==
    /\ pending' = pending \cup {s}
    /\ UNCHANGED <<enabled, critical, waiting, serving, room>>

\* The program enters or leaves a critical section, starts or ends a request.
Move ==
    /\ serving = None
    /\ enabled' \in BOOLEAN
    /\ critical' \in BOOLEAN
    /\ critical' => enabled'
    /\ UNCHANGED <<pending, waiting, serving, room>>

Defer(s) ==
    /\ s \in pending /\ critical /\ serving = None
    /\ Len(waiting) < room
    /\ pending' = pending \ {s}
    /\ waiting' = Append(waiting, s)
    /\ UNCHANGED <<enabled, critical, serving, room>>

Forget(s) ==
    /\ s \in pending /\ critical /\ serving = None
    /\ Len(waiting) = room
    /\ pending' = pending \ {s}
    /\ UNCHANGED <<enabled, critical, waiting, serving, room>>

ServeNew(s) ==
    /\ s \in pending /\ ~critical /\ serving = None
    /\ pending' = pending \ {s}
    /\ serving' = s
    /\ UNCHANGED <<enabled, critical, waiting, room>>

ServeOldest ==
    /\ enabled /\ ~critical /\ waiting # <<>>
    /\ serving' = Head(waiting)
    /\ waiting' = Tail(waiting)
    /\ UNCHANGED <<pending, enabled, critical, room>>

\* Within a request the last handler returns when nothing waits any more.
Finish ==
    /\ serving # None
    /\ enabled => waiting = <<>>
    /\ serving' = None
    /\ UNCHANGED <<pending, enabled, critical, waiting, room>>

\* A handler leaves by a jump, with n of the waiting signals and their places.
Abandon ==
    /\ serving # None /\ enabled
    /\ serving' = None
    /\ \E n \in 0 .. Len(waiting) :
          /\ waiting' = SubSeq(waiting, n + 1, Len(waiting))
          /\ room' \in {room - n, room - n - 1}
    /\ UNCHANGED <<pending, enabled, critical>>

Next ==
    \/ Move \/ ServeOldest \/ Finish \/ Abandon
    \/ \E s \in Signals : Raise(s) \/ Defer(s) \/ Forget(s) \/ ServeNew(s)

Spec == Init /\ [][Next]_vars
=============================================================================
