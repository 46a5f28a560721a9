----------------------------- MODULE ZendSignal -----------------------------
(***************************************************************************)
(* Deferred signals (Zend/zend_signal.c).  The interpreter brackets its    *)
(* critical sections with HANDLE_BLOCK_INTERRUPTIONS and                   *)
(* HANDLE_UNBLOCK_INTERRUPTIONS, which count SIGG(depth).  The handler     *)
(* installed for every signal, zend_signal_handler_defer(), queues the     *)
(* signal when the depth is not 0 and otherwise calls the handler that     *)
(* PHP or the script registered.                                           *)
(*                                                                         *)
(* The process has one thread.  What interleaves is the kernel, which      *)
(* delivers a pending signal between any two steps at which the signal is  *)
(* not masked.  A handler returns, ends the process (SIG_DFL), or, for the *)
(* time limit of the script (zend_timeout), leaves by longjmp().           *)
(***************************************************************************)
EXTENDS Integers, Sequences

CONSTANTS
    Signals,    \* the signals of zend_sigs
    Timer,      \* TIMEOUT_SIG
    None,       \* no signal is being handled
    Orig,       \* global_orig_handlers, saved at startup
    QueueSize,  \* ZEND_SIGNAL_QUEUE_SIZE
    MaxDepth    \* bound: nesting of critical sections

ASSUME SignalAssumption ==
    /\ Timer \in Signals
    /\ None \notin Signals
    /\ Orig \in [Signals -> {"default", "returns"}]
    /\ QueueSize \in Nat
    /\ MaxDepth \in Nat \ {0}

VARIABLES
    active,     \* SIGG(active)
    depth,      \* SIGG(depth)
    blocked,    \* SIGG(blocked): 0 is true, -1 is false
    running,    \* SIGG(running)
    queue,      \* the list from SIGG(phead), a sequence of signals
    avail,      \* length of the list SIGG(pavail) of free nodes
    handlers,   \* SIGG(handlers): what handling each signal does
    mask,       \* the process's signal mask
    pending,    \* signals the kernel holds for the process
    pc,         \* where the program is, outside handlers
    serving,    \* the signal zend_signal_handler() was called for, or None
    listed,     \* serving is a node of the list that handler_defer detached
    todo,       \* the rest of that list
    oldmask     \* the mask to restore when handler_defer returns

globals == <<active, depth, blocked, running, queue, avail, handlers>>
frame == <<serving, listed, todo, oldmask>>
vars == <<globals, mask, pending, pc, frame>>

\* SIG_DFL, a function that returns (or SIG_IGN), zend_timeout().
Actions == {"default", "returns", "timeout"}

Init ==
    /\ active = FALSE /\ depth = 0 /\ blocked = -1 /\ running = 0
    /\ queue = <<>> /\ avail = QueueSize
    /\ handlers = Orig
    /\ mask = {} /\ pending = {} /\ pc = "run"
    /\ serving = None /\ listed = FALSE /\ todo = <<>> /\ oldmask = {}

----------------------------------------------------------------------------
(* Delivery.  zend_signal_handler_defer(s), up to the call of the handler. *)

\* zend_signal_handler() is entered for s; old is the mask to restore.
\* Every signal is masked by global_sigmask meanwhile.
Call(s, old) ==
    /\ serving' = s
    /\ listed' = FALSE
    /\ todo' = <<>>
    /\ oldmask' = old
    /\ mask' = Signals

\* Bug: the depth is not looked at.
HandleAnyDepth(s, old) ==
    /\ active
    /\ blocked' = -1
    /\ \/ /\ running = 0
          /\ running' = 1
          /\ Call(s, old)
       \/ /\ running # 0
          /\ UNCHANGED <<running, mask, frame>>
    /\ UNCHANGED <<active, depth, handlers>>

HandleNow(s, old) ==
    /\ active /\ depth = 0
    /\ blocked' = -1
    /\ \/ /\ running = 0
          /\ running' = 1
          /\ Call(s, old)
       \/ /\ running # 0
          /\ UNCHANGED <<running, mask, frame>>
    /\ UNCHANGED <<active, depth, handlers>>

\* Bug: an exhausted queue takes one more signal.
DelayAlways(s) ==
    /\ active /\ depth # 0
    /\ blocked' = 0
    /\ avail' = avail - 1
    /\ queue' = Append(queue, s)
    /\ UNCHANGED <<active, depth, running, handlers, mask, frame>>

\* Without a free node the signal is forgotten, and blocked is set all the same.
Delay(s) ==
    /\ active /\ depth # 0
    /\ blocked' = 0
    /\ \/ /\ avail > 0
          /\ avail' = avail - 1
          /\ queue' = Append(queue, s)
       \/ /\ avail = 0
          /\ UNCHANGED <<avail, queue>>
    /\ UNCHANGED <<active, depth, running, handlers, mask, frame>>

HandleInactive(s) ==
    /\ ~active
    /\ Call(s, mask)
    /\ UNCHANGED globals

Alive == pc \in {"run", "compare", "unblock"}

zend_signal_handler_defer(s) ==
    /\ Alive
    /\ s \in pending \ mask
    /\ pending' = pending \ {s}
    /\ \/ HandleNow(s, mask) /\ UNCHANGED <<queue, avail>>
       \/ Delay(s)
       \/ HandleInactive(s)
    /\ UNCHANGED pc

----------------------------------------------------------------------------
(* Handling.  zend_signal_handler() for the signal that is being served.   *)

\* The handler returns to handler_defer, which goes on with the queue: it
\* detaches the whole list, and frees each node after its handler.
Rest == IF listed THEN todo ELSE queue

NextInList ==
    /\ Rest # <<>>
    /\ serving' = Head(Rest)
    /\ todo' = Tail(Rest)
    /\ listed' = TRUE
    /\ UNCHANGED <<running, mask, oldmask>>

DeferReturns ==
    /\ Rest = <<>>
    /\ running' = 0
    /\ serving' = None /\ todo' = <<>> /\ listed' = FALSE
    /\ mask' = oldmask
    /\ UNCHANGED oldmask

\* Bug: handler_defer does not look into the queue.
HandlerReturnsOnly ==
    /\ Alive /\ serving # None
    /\ handlers[serving] = "returns"
    /\ active
    /\ running' = 0
    /\ serving' = None
    /\ mask' = oldmask
    /\ UNCHANGED <<active, depth, blocked, queue, avail, handlers, pending, pc,
                   listed, todo, oldmask>>

HandlerReturns ==
    /\ Alive /\ serving # None
    /\ handlers[serving] = "returns"
    /\ active
    /\ queue' = IF listed THEN queue ELSE <<>>
    /\ avail' = IF listed THEN avail + 1 ELSE avail
    /\ NextInList \/ DeferReturns
    /\ UNCHANGED <<active, depth, blocked, handlers, pending, pc>>

\* Between requests handler_defer calls the handler and nothing else.
InactiveReturns ==
    /\ Alive /\ serving # None
    /\ handlers[serving] = "returns"
    /\ ~active
    /\ serving' = None
    /\ mask' = oldmask
    /\ UNCHANGED <<globals, pending, pc, listed, todo, oldmask>>

\* SIG_DFL is installed, unmasked and raised; the default ends the process.
HandlerDefault ==
    /\ Alive /\ serving # None
    /\ handlers[serving] = "default"
    /\ pc' = "dead"
    /\ UNCHANGED <<globals, mask, pending, frame>>

\* Bug: zend_timeout() leaves running set.
zend_timeout_running ==
    /\ Alive /\ serving # None
    /\ handlers[serving] = "timeout"
    /\ active
    /\ mask' = mask \ {Timer}
    /\ serving' = None /\ listed' = FALSE /\ todo' = <<>>
    /\ pc' = "run"
    /\ UNCHANGED <<active, depth, blocked, running, queue, avail, handlers,
                   pending, oldmask>>

\* zend_timeout(): running is cleared, zend_set_timeout() registers the timer
\* signal again and so unmasks it, and zend_error(E_ERROR) leaves by longjmp()
\* to code that runs outside critical sections.  The mask is that of the
\* handler, for sigsetjmp() did not save another; the frame of handler_defer
\* and the list it had detached are gone.
zend_timeout ==
    /\ Alive /\ serving # None
    /\ handlers[serving] = "timeout"
    /\ active
    /\ running' = 0
    /\ mask' = mask \ {Timer}
    /\ serving' = None /\ listed' = FALSE /\ todo' = <<>>
    /\ pc' = "run"
    /\ UNCHANGED <<active, depth, blocked, queue, avail, handlers, pending, oldmask>>

\* Between requests the bailout leaves the request loop: the process exits.
TimeoutInactive ==
    /\ Alive /\ serving # None
    /\ handlers[serving] = "timeout"
    /\ ~active
    /\ pc' = "dead"
    /\ UNCHANGED <<globals, mask, pending, frame>>

----------------------------------------------------------------------------
(* The program.  It takes a step only while no handler runs.               *)

Program(l) == pc = l /\ serving = None

HANDLE_BLOCK_INTERRUPTIONS ==
    /\ Program("run")
    /\ depth < MaxDepth
    /\ depth' = depth + 1
    /\ UNCHANGED <<active, blocked, running, queue, avail, handlers, mask,
                   pending, pc, frame>>

\* if (--depth == blocked) zend_signal_handler_unblock(): three steps.
HANDLE_UNBLOCK_INTERRUPTIONS ==
    /\ Program("run")
    /\ depth > 0
    /\ depth' = depth - 1
    /\ pc' = "compare"
    /\ UNCHANGED <<active, blocked, running, queue, avail, handlers, mask,
                   pending, frame>>

Compare ==
    /\ Program("compare")
    /\ pc' = IF depth = blocked THEN "unblock" ELSE "run"
    /\ UNCHANGED <<globals, mask, pending, frame>>

\* With every signal masked, the oldest node is freed and its signal passed
\* to handler_defer.  The code does not look whether there is one.
zend_signal_handler_unblock ==
    /\ Program("unblock")
    /\ \/ /\ ~active
          /\ pc' = "run"
          /\ UNCHANGED <<globals, mask, pending, frame>>
       \/ /\ active /\ queue = <<>>
          /\ pc' = "crashed"
          /\ UNCHANGED <<globals, mask, pending, frame>>
       \/ /\ active /\ queue # <<>>
          /\ queue' = Tail(queue)
          /\ avail' = avail + 1
          /\ HandleNow(Head(queue), mask)
          /\ pc' = "run"
          /\ UNCHANGED pending

\* zend_signal(), for zend_set_timeout() and pcntl_signal(): s is unmasked.
zend_sigaction(s, act) ==
    /\ Program("run") /\ active
    /\ act = "timeout" => s = Timer
    /\ handlers' = [handlers EXCEPT ![s] = act]
    /\ mask' = mask \ {s}
    /\ UNCHANGED <<active, depth, blocked, running, queue, avail, pending, pc, frame>>

zend_signal_activate ==
    /\ Program("run") /\ ~active
    /\ handlers' = Orig
    /\ active' = TRUE
    /\ depth' = 0
    /\ UNCHANGED <<blocked, running, queue, avail, mask, pending, pc, frame>>

\* Bug: blocked survives the request.
zend_signal_deactivate_blocked ==
    /\ Program("run") /\ active
    /\ active' = FALSE
    /\ running' = 0
    /\ depth' = 0
    /\ UNCHANGED <<blocked, queue, avail, handlers, mask, pending, pc, frame>>

\* The request may end within a critical section it left by a bailout.  The
\* queue is not emptied.
zend_signal_deactivate ==
    /\ Program("run") /\ active
    /\ active' = FALSE
    /\ running' = 0
    /\ blocked' = -1
    /\ depth' = 0
    /\ UNCHANGED <<queue, avail, handlers, mask, pending, pc, frame>>

\* kill() by another process, or the timer.
Raise(s) ==
    /\ Alive
    /\ pending' = pending \cup {s}
    /\ UNCHANGED <<globals, mask, pc, frame>>

Handling ==
    HandlerReturns \/ InactiveReturns \/ HandlerDefault \/ zend_timeout \/ TimeoutInactive

Running ==
    \/ HANDLE_BLOCK_INTERRUPTIONS \/ HANDLE_UNBLOCK_INTERRUPTIONS \/ Compare
    \/ zend_signal_handler_unblock \/ zend_signal_activate \/ zend_signal_deactivate
    \/ \E s \in Signals, act \in Actions : zend_sigaction(s, act)

Next ==
    \/ \E s \in Signals : Raise(s) \/ zend_signal_handler_defer(s)
    \/ Handling
    \/ Running

Spec == Init /\ [][Next]_vars

----------------------------------------------------------------------------
(* Properties                                                              *)

\* Nodes of the queue that are free, queued or in the detached list.
Nodes == avail + Len(queue) + Len(todo) + (IF listed THEN 1 ELSE 0)

TypeOK ==
    /\ active \in BOOLEAN
    /\ depth \in 0 .. MaxDepth
    /\ blocked \in {-1, 0}
    /\ running \in {0, 1}
    /\ queue \in Seq(Signals)
    /\ avail \in 0 .. QueueSize
    /\ handlers \in [Signals -> Actions]
    /\ mask \subseteq Signals
    /\ pending \subseteq Signals
    /\ pc \in {"run", "compare", "unblock", "dead", "crashed"}
    /\ serving \in Signals \cup {None}
    /\ listed \in BOOLEAN
    /\ todo \in Seq(Signals)
    /\ oldmask \subseteq Signals

\* When the flag that makes HANDLE_UNBLOCK_INTERRUPTIONS look into the queue is
\* set, there is something in the queue, or no node is left in which to queue
\* anything; and the program has still to leave the critical section or to act
\* on the flag.  It outlives neither the queue nor the request.
BlockedMeansQueued ==
    blocked = 0 =>
        /\ active /\ (queue # <<>> \/ avail = 0)
        /\ Program("run") => depth > 0

\* "We want to be able to timeout any user-supplied shutdown functions"
\* (zend_timeout): whatever handlers ran before and however they were left, the
\* program never runs with the timer masked or with running set, either of
\* which would swallow the next time limit.
TimeoutHeard ==
    serving = None => running = 0 /\ Timer \notin mask

\* A deferred signal that no later HANDLE_UNBLOCK_INTERRUPTIONS will look for,
\* for the flag is not set, was left in the queue by a handler that did not
\* return or by the end of the request.  A critical section that is left
\* properly serves all that came within it.
Unattended == (active => serving = None) /\ queue # <<>> /\ blocked = -1
LeftBehind ==
    [][Unattended' /\ ~Unattended => zend_timeout \/ zend_signal_deactivate]_vars

\* handler_defer and handler_unblock implement the delivery of SignalDelivery:
\* no handler in a critical section, each signal served once and in order, none
\* forgotten before the queue is full, none lost but by zend_timeout().
Delivery == INSTANCE SignalDelivery WITH
    enabled <- active,
    critical <- active /\ depth > 0,
    waiting <- Rest,
    room <- Nodes
DeliverySpec == Delivery!Spec

=============================================================================
