-------------------------- MODULE ZendSignal_proof --------------------------
(***************************************************************************)
(* Proofs about deferred signals, for every set of signals, queue size and *)
(* nesting of critical sections.                                           *)
(***************************************************************************)
EXTENDS ZendSignal, SequenceTheorems, TLAPS

\* No handler runs: handler_defer is not on the stack.
Outside ==
    serving = None =>
        /\ running = 0
        /\ ~listed
        /\ Timer \notin mask

\* A handler runs: everything is masked, and the mask that will be restored lets
\* the timer through; in a request it was called outside critical sections.
Inside ==
    serving # None =>
        /\ mask = Signals
        /\ Timer \notin oldmask
        /\ active => running = 1 /\ depth = 0 /\ blocked = -1
        /\ ~active => ~listed

\* The list that handler_defer detached, and the queue's nodes.
Lists ==
    /\ ~listed => todo = <<>>
    /\ listed => queue = <<>> /\ active
    /\ Nodes \in 0 .. QueueSize

Flags ==
    /\ ~active => blocked = -1 /\ running = 0
    /\ pc = "unblock" => depth = 0

\* The inductive invariant.
IInv == TypeOK /\ Outside /\ Inside /\ Lists /\ Flags /\ BlockedMeansQueued

----------------------------------------------------------------------------
LEMMA InitIInv == Init => IInv
<1> SUFFICES ASSUME Init PROVE IInv
  OBVIOUS
<1> USE SignalAssumption DEF Init
<1>1. handlers \in [Signals -> Actions]
  BY DEF Actions
<1>2. TypeOK
  <2>1. depth \in 0 .. MaxDepth /\ blocked \in {-1, 0} /\ running \in {0, 1}
    OBVIOUS
  <2>2. queue \in Seq(Signals) /\ todo \in Seq(Signals) /\ avail \in 0 .. QueueSize
    OBVIOUS
  <2>3. QED
    BY Zenon, <1>1, <2>1, <2>2 DEF TypeOK
<1>3. Outside /\ Inside /\ Lists /\ Flags /\ BlockedMeansQueued
  BY DEF Outside, Inside, Lists, Flags, BlockedMeansQueued, Nodes, Program
<1>4. QED
  BY <1>2, <1>3 DEF IInv

USE DEF IInv, TypeOK, Outside, Inside, Lists, Flags, BlockedMeansQueued, Nodes,
        Program, Alive, globals, frame, Actions

LEMMA Step_HANDLE_BLOCK_INTERRUPTIONS == IInv /\ HANDLE_BLOCK_INTERRUPTIONS => IInv'
BY SignalAssumption DEF HANDLE_BLOCK_INTERRUPTIONS

LEMMA Step_HANDLE_UNBLOCK_INTERRUPTIONS == IInv /\ HANDLE_UNBLOCK_INTERRUPTIONS => IInv'
BY SignalAssumption DEF HANDLE_UNBLOCK_INTERRUPTIONS

LEMMA Step_Compare == IInv /\ Compare => IInv'
BY SignalAssumption DEF Compare

LEMMA Step_zend_signal_activate == IInv /\ zend_signal_activate => IInv'
BY SignalAssumption DEF zend_signal_activate

LEMMA Step_zend_signal_deactivate == IInv /\ zend_signal_deactivate => IInv'
<1> SUFFICES ASSUME IInv, zend_signal_deactivate PROVE IInv'
  OBVIOUS
<1> USE SignalAssumption
<1>1. TypeOK'
  <2>1. depth' \in 0 .. MaxDepth /\ blocked' \in {-1, 0} /\ running' \in {0, 1}
    BY DEF zend_signal_deactivate
  <2>2. queue' \in Seq(Signals) /\ todo' \in Seq(Signals)
    BY DEF zend_signal_deactivate
  <2>3. avail' \in 0 .. QueueSize
    BY DEF zend_signal_deactivate
  <2>4. QED
    BY Zenon, <2>1, <2>2, <2>3 DEF zend_signal_deactivate
<1>2. Outside'
  BY DEF zend_signal_deactivate
<1>3. Inside'
  BY DEF zend_signal_deactivate
<1>4. Lists'
  BY DEF zend_signal_deactivate
<1>5. Flags'
  BY DEF zend_signal_deactivate
<1>6. BlockedMeansQueued'
  BY DEF zend_signal_deactivate
<1>7. QED
  BY SMTT(40), <1>1, <1>2, <1>3, <1>4, <1>5, <1>6

LEMMA Step_InactiveReturns == IInv /\ InactiveReturns => IInv'
BY SignalAssumption DEF InactiveReturns

LEMMA Step_HandlerDefault == IInv /\ HandlerDefault => IInv'
BY SignalAssumption DEF HandlerDefault

LEMMA Step_zend_timeout == IInv /\ zend_timeout => IInv'
<1> SUFFICES ASSUME IInv, zend_timeout PROVE IInv'
  OBVIOUS
<1> USE SignalAssumption DEF zend_timeout
<1>1. Len(queue) \in Nat /\ Len(todo) \in Nat /\ Len(<<>>) = 0
  BY LenProperties
<1>2. Nodes' \in 0 .. QueueSize
  BY <1>1
<1>3. TypeOK'
  BY Zenon
<1>4. QED
  BY <1>2, <1>3

LEMMA Step_TimeoutInactive == IInv /\ TimeoutInactive => IInv'
BY SignalAssumption DEF TimeoutInactive

LEMMA Step_zend_sigaction ==
  ASSUME IInv, NEW s \in Signals, NEW act \in Actions, zend_sigaction(s, act)
  PROVE  IInv'
BY SignalAssumption DEF zend_sigaction

LEMMA Step_Raise ==
  ASSUME IInv, NEW s \in Signals, Raise(s)
  PROVE  IInv'
BY SignalAssumption DEF Raise

\* handler_defer appends to the queue, forgets, or calls the handler.
LEMMA Step_zend_signal_handler_defer ==
  ASSUME IInv, NEW s \in Signals, zend_signal_handler_defer(s)
  PROVE  IInv'
<1> USE SignalAssumption DEF zend_signal_handler_defer, Call
<1>1. CASE HandleNow(s, mask) /\ UNCHANGED <<queue, avail>>
  BY Zenon, <1>1 DEF HandleNow
<1>2. CASE Delay(s)
  <2>a. /\ Len(queue) \in Nat /\ Append(queue, s) \in Seq(Signals)
        /\ Len(Append(queue, s)) = Len(queue) + 1 /\ Append(queue, s) # <<>>
    BY AppendProperties, LenProperties
  <2>1. TypeOK'
    <3>1. depth' \in 0 .. MaxDepth /\ blocked' \in {-1, 0} /\ running' \in {0, 1}
      BY <1>2, <2>a DEF Delay
    <3>2. queue' \in Seq(Signals) /\ todo' \in Seq(Signals)
      BY Zenon, <1>2, <2>a DEF Delay
    <3>3. avail' \in 0 .. QueueSize
      BY <1>2, <2>a DEF Delay
    <3>4. QED
      BY <1>2, <2>a, <3>1, <3>2, <3>3 DEF Delay
  <2>2. Outside'
    BY <1>2, <2>a DEF Delay
  <2>3. Inside'
    BY <1>2, <2>a DEF Delay
  <2>4. Lists'
    BY <1>2, <2>a DEF Delay
  <2>5. Flags'
    BY <1>2, <2>a DEF Delay
  <2>6. BlockedMeansQueued'
    BY <1>2, <2>a DEF Delay
  <2>7. QED
    BY SMTT(40), <2>1, <2>2, <2>3, <2>4, <2>5, <2>6
<1>3. CASE HandleInactive(s)
  BY Zenon, <1>3 DEF HandleInactive
<1>4. QED
  BY SMTT(40), <1>1, <1>2, <1>3

LEMMA Step_HandlerReturns == IInv /\ HandlerReturns => IInv'
<1> SUFFICES ASSUME IInv, HandlerReturns PROVE IInv'
  OBVIOUS
<1> USE SignalAssumption DEF HandlerReturns, Rest
<1>1. CASE NextInList
  <2>a. /\ Rest \in Seq(Signals) /\ Head(Rest) \in Signals /\ Tail(Rest) \in Seq(Signals)
        /\ Len(Tail(Rest)) = Len(Rest) - 1 /\ Len(Rest) \in Nat /\ Len(<<>>) = 0
    BY <1>1, HeadTailProperties, LenProperties DEF NextInList
  <2>1. TypeOK'
    BY <1>1, <2>a DEF NextInList
  <2>2. Outside'
    BY <1>1, <2>a DEF NextInList
  <2>3. Inside'
    BY <1>1, <2>a DEF NextInList
  <2>4. Lists'
    <3>1. Nodes' = Nodes
      <4>1. CASE listed
        BY <1>1, <2>a, <4>1 DEF NextInList
      <4>2. CASE ~listed
        <5>1. /\ todo = <<>> /\ queue' = <<>> /\ todo' = Tail(queue) /\ listed'
              /\ avail' = avail
          BY <1>1, <2>a, <4>2 DEF NextInList
        <5>2. Len(Tail(queue)) = Len(queue) - 1 /\ Len(queue) \in Nat
          BY <2>a, <4>2
        <5>a. /\ Nodes' = avail + Len(<<>>) + Len(Tail(queue)) + 1
              /\ Nodes = avail + Len(queue) + Len(<<>>) + 0
          BY ONLY <4>2, <5>1 DEF Nodes
        <5>3. Nodes' = avail + 0 + (Len(queue) - 1) + 1 /\ Nodes = avail + Len(queue) + 0 + 0
          BY ONLY Zenon, <2>a, <5>a, <5>2
        <5>4. avail \in Nat
          OBVIOUS
        <5>5. QED
          BY ONLY <5>2, <5>3, <5>4
      <4>3. QED
        BY Zenon, <4>1, <4>2
    <3>2. QED
      BY Zenon, <3>1, <1>1, <2>a DEF NextInList
  <2>5. Flags'
    BY <1>1, <2>a DEF NextInList
  <2>6. BlockedMeansQueued'
    BY <1>1, <2>a DEF NextInList
  <2>7. QED
    BY Zenon, <2>1, <2>2, <2>3, <2>4, <2>5, <2>6
<1>2. CASE DeferReturns
  <2>a. Len(<<>>) = 0
    OBVIOUS
  <2>1. TypeOK'
    <3>1. depth' \in 0 .. MaxDepth /\ blocked' \in {-1, 0} /\ running' \in {0, 1}
      BY <1>2, <2>a DEF DeferReturns
    <3>2. queue' \in Seq(Signals) /\ todo' \in Seq(Signals)
      BY <1>2, <2>a DEF DeferReturns
    <3>3. avail' \in 0 .. QueueSize
      BY <1>2, <2>a DEF DeferReturns
    <3>4. QED
      BY Zenon, <1>2, <2>a, <3>1, <3>2, <3>3 DEF DeferReturns
  <2>2. Outside'
    BY <1>2, <2>a DEF DeferReturns
  <2>3. Inside'
    BY <1>2, <2>a DEF DeferReturns
  <2>4. Lists'
    BY <1>2, <2>a DEF DeferReturns
  <2>5. Flags'
    BY <1>2, <2>a DEF DeferReturns
  <2>6. BlockedMeansQueued'
    BY <1>2, <2>a DEF DeferReturns
  <2>7. QED
    BY Zenon, <2>1, <2>2, <2>3, <2>4, <2>5, <2>6
<1>3. QED
  BY Zenon, <1>1, <1>2

LEMMA Step_zend_signal_handler_unblock == IInv /\ zend_signal_handler_unblock => IInv'
<1> SUFFICES ASSUME IInv, zend_signal_handler_unblock PROVE IInv'
  OBVIOUS
<1> USE SignalAssumption DEF zend_signal_handler_unblock
<1>1. CASE ~active
  <2>1. TypeOK'
    BY Zenon, <1>1 DEF zend_signal_handler_unblock
  <2>2. Outside'
    BY <1>1 DEF zend_signal_handler_unblock
  <2>3. Inside'
    BY <1>1 DEF zend_signal_handler_unblock
  <2>4. Lists'
    BY <1>1 DEF zend_signal_handler_unblock
  <2>5. Flags'
    BY <1>1 DEF zend_signal_handler_unblock
  <2>6. BlockedMeansQueued'
    BY <1>1 DEF zend_signal_handler_unblock
  <2>7. QED
    BY Zenon, <2>1, <2>2, <2>3, <2>4, <2>5, <2>6
<1>2. CASE active /\ queue = <<>>
  BY <1>2
<1>3. CASE active /\ queue # <<>>
  <2>a. /\ Head(queue) \in Signals /\ Tail(queue) \in Seq(Signals)
        /\ Len(Tail(queue)) = Len(queue) - 1 /\ Len(queue) \in Nat /\ Len(<<>>) = 0
    BY <1>3, HeadTailProperties, LenProperties
  <2>b. /\ ~listed /\ ~listed' /\ todo = <<>> /\ todo' = <<>>
        /\ queue' = Tail(queue) /\ avail' = avail + 1
    BY Zenon, <1>3 DEF HandleNow, Call
  <2>c. Nodes' = Nodes /\ avail + Len(queue) <= QueueSize /\ Len(queue) > 0
    <3>a. Nodes' = (avail + 1) + Len(Tail(queue)) + Len(<<>>) + 0
      BY ONLY <2>b DEF Nodes
    <3>1. Nodes' = (avail + 1) + (Len(queue) - 1) + 0 + 0
      BY ONLY <3>a, <2>a
    <3>2. Nodes = avail + Len(queue) + 0 + 0
      BY Zenon, <2>a, <2>b
    <3>3. Len(queue) > 0
      BY <1>3, EmptySeq
    <3>4. QED
      BY <2>a, <3>1, <3>2, <3>3
  <2>1. TypeOK'
    <3>1. depth' \in 0 .. MaxDepth /\ blocked' \in {-1, 0} /\ running' \in {0, 1}
      BY Zenon, <1>3, <2>a DEF HandleNow, Call
    <3>2. queue' \in Seq(Signals) /\ todo' \in Seq(Signals)
      BY Zenon, <1>3, <2>a DEF HandleNow, Call
    <3>a. avail \in Nat /\ QueueSize \in Nat
      OBVIOUS
    <3>3. avail' \in 0 .. QueueSize
      BY ONLY <2>a, <2>b, <2>c, <3>a
    <3>4. QED
      BY Zenon, <1>3, <2>a, <3>1, <3>2, <3>3 DEF HandleNow, Call
  <2>2. Outside'
    BY Zenon, <1>3, <2>a DEF HandleNow, Call
  <2>3. Inside'
    BY Zenon, <1>3, <2>a DEF HandleNow, Call
  <2>4. Lists'
    BY Zenon, <2>b, <2>c
  <2>5. Flags'
    BY Zenon, <1>3, <2>a DEF HandleNow, Call
  <2>6. BlockedMeansQueued'
    BY <1>3, <2>a DEF HandleNow, Call
  <2>7. QED
    BY Zenon, <2>1, <2>2, <2>3, <2>4, <2>5, <2>6
<1>4. QED
  BY Zenon, <1>1, <1>2, <1>3

LEMMA StepIInv == IInv /\ [Next]_vars => IInv'
<1> SUFFICES ASSUME IInv, [Next]_vars PROVE IInv'
  BY SMTT(40)
<1>1. CASE UNCHANGED vars
  BY <1>1 DEF vars
<1>2. CASE \E s \in Signals : Raise(s) \/ zend_signal_handler_defer(s)
  BY ONLY SMTT(40), <1>2, IInv, Step_Raise, Step_zend_signal_handler_defer
<1>3. CASE Handling
  BY ONLY SMTT(40), <1>3, IInv, Step_HandlerReturns, Step_InactiveReturns, Step_HandlerDefault,
     Step_zend_timeout, Step_TimeoutInactive DEF Handling
<1>4. CASE Running
  BY ONLY Zenon, <1>4, IInv, Step_HANDLE_BLOCK_INTERRUPTIONS, Step_HANDLE_UNBLOCK_INTERRUPTIONS,
     Step_Compare, Step_zend_signal_handler_unblock, Step_zend_signal_activate,
     Step_zend_signal_deactivate, Step_zend_sigaction DEF Running
<1>5. QED
  BY ONLY <1>1, <1>2, <1>3, <1>4, [Next]_vars DEF Next

HIDE DEF IInv, TypeOK, Outside, Inside, Lists, Flags, BlockedMeansQueued, Nodes,
        Program, Alive, globals, frame, Actions

\* The inductive invariant holds in every state zend_signal.c can reach.
THEOREM SignalIInv == Spec => []IInv
BY InitIInv, StepIInv, PTL DEF Spec

\* Every word of SIGG keeps its range: no node of the queue is used twice.
THEOREM SignalTypeOK == Spec => []TypeOK
<1>1. IInv => TypeOK
  BY DEF IInv
<1>2. QED
  BY <1>1, SignalIInv, PTL

\* The flag of a blocked signal is set only while the queue holds one, or can
\* hold none, and never outlives the critical section.
THEOREM SignalBlockedMeansQueued == Spec => []BlockedMeansQueued
<1>1. IInv => BlockedMeansQueued
  BY DEF IInv
<1>2. QED
  BY <1>1, SignalIInv, PTL

\* The time limit is heard again after any number of timeouts.
THEOREM SignalTimeoutHeard == Spec => []TimeoutHeard
<1>1. IInv => TimeoutHeard
  BY DEF TimeoutHeard, IInv, Outside
<1>2. QED
  BY <1>1, SignalIInv, PTL

----------------------------------------------------------------------------
(* No signal is left behind by a critical section.                         *)

LEMMA StepLeftBehind ==
  ASSUME IInv, Next, Unattended', ~Unattended
  PROVE  zend_timeout \/ zend_signal_deactivate
<1> USE SignalAssumption
    DEF Unattended, IInv, TypeOK, Outside, Inside, Lists, Flags, BlockedMeansQueued,
        Program, Alive, globals, frame, Actions
<1>1. ASSUME NEW s \in Signals, Raise(s) PROVE FALSE
  BY <1>1 DEF Raise
<1>2. ASSUME NEW s \in Signals, zend_signal_handler_defer(s) PROVE FALSE
  <2>1. CASE HandleNow(s, mask) /\ UNCHANGED <<queue, avail>>
    BY <1>2, <2>1 DEF HandleNow, Call, zend_signal_handler_defer
  <2>2. CASE Delay(s)
    BY <1>2, <2>2 DEF Delay
  <2>3. CASE HandleInactive(s)
    BY <1>2, <2>3 DEF HandleInactive
  <2>4. QED
    BY <1>2, <2>1, <2>2, <2>3 DEF zend_signal_handler_defer
<1>3. ASSUME HandlerReturns PROVE FALSE
  BY <1>3 DEF HandlerReturns, NextInList, DeferReturns, Rest
<1>4. ASSUME InactiveReturns PROVE FALSE
  BY <1>4 DEF InactiveReturns
<1>5. ASSUME HandlerDefault \/ TimeoutInactive PROVE FALSE
  BY <1>5 DEF HandlerDefault, TimeoutInactive
<1>6. ASSUME HANDLE_BLOCK_INTERRUPTIONS \/ HANDLE_UNBLOCK_INTERRUPTIONS \/ Compare PROVE FALSE
  BY <1>6 DEF HANDLE_BLOCK_INTERRUPTIONS, HANDLE_UNBLOCK_INTERRUPTIONS, Compare
<1>7. ASSUME zend_signal_handler_unblock PROVE FALSE
  BY <1>7 DEF zend_signal_handler_unblock, HandleNow, Call
<1>8. ASSUME zend_signal_activate PROVE FALSE
  BY <1>8 DEF zend_signal_activate
<1>9. ASSUME NEW s \in Signals, NEW act \in Actions, zend_sigaction(s, act) PROVE FALSE
  BY <1>9 DEF zend_sigaction
<1>10. QED
  BY ONLY <1>1, <1>2, <1>3, <1>4, <1>5, <1>6, <1>7, <1>8, <1>9, Next
     DEF Next, Handling, Running

\* A deferred signal is left in the queue, with no flag to recall it, only by
\* zend_timeout() or by the end of the request.
THEOREM SignalLeftBehind == Spec => LeftBehind
<1>1. IInv /\ [Next]_vars
        => [Unattended' /\ ~Unattended => zend_timeout \/ zend_signal_deactivate]_vars
  BY StepLeftBehind
<1>2. QED
  BY <1>1, SignalIInv, PTL DEF Spec, LeftBehind

----------------------------------------------------------------------------
(* ZendSignal implements SignalDelivery.                                   *)

LEMMA Stutters ==
  ASSUME UNCHANGED <<pending, active, depth, queue, avail, serving, listed, todo>>
  PROVE  UNCHANGED Delivery!vars
BY DEF Delivery!vars, Rest, Nodes

LEMMA InitRefines == Init => Delivery!Init
BY SignalAssumption DEF Init, Delivery!Init, Rest, Nodes

LEMMA MoveRefines ==
  ASSUME IInv, serving = None, active' \in BOOLEAN,
         UNCHANGED <<pending, queue, avail, serving, listed, todo>>
  PROVE  Delivery!Move
BY DEF Delivery!Move, Rest, Nodes

LEMMA RefinesDefer ==
  ASSUME IInv, NEW s \in Signals, zend_signal_handler_defer(s)
  PROVE  Delivery!Next
<1> USE SignalAssumption
<1>1. serving = None /\ s \in pending /\ pending' = pending \ {s}
  BY DEF zend_signal_handler_defer, IInv, Inside
<1>2. ~listed /\ todo = <<>> /\ running = 0
  BY <1>1 DEF IInv, Outside, Lists
<1>3. CASE HandleNow(s, mask) /\ UNCHANGED <<queue, avail>>
  <2>1. /\ serving' = s /\ listed' = FALSE /\ todo' = <<>>
        /\ UNCHANGED <<active, depth, queue, avail>> /\ active /\ depth = 0
    BY <1>2, <1>3 DEF HandleNow, Call
  <2>2. Delivery!ServeNew(s)
    BY <1>1, <1>2, <2>1 DEF Delivery!ServeNew, Rest, Nodes
  <2>3. QED
    BY <2>2 DEF Delivery!Next
<1>4. CASE Delay(s)
  <2>1. UNCHANGED <<active, depth, serving, listed, todo>> /\ active /\ depth > 0
    BY <1>4 DEF Delay, frame, IInv, TypeOK
  <2>2. Len(queue) \in Nat /\ avail \in Nat /\ Nodes = avail + Len(queue)
    BY <1>2 DEF IInv, TypeOK, Nodes
  <2>3. CASE avail = 0
    <3>1. UNCHANGED <<queue, avail>>
      BY <1>4, <2>3 DEF Delay
    <3>2. Delivery!Forget(s)
      BY <1>1, <1>2, <2>1, <2>2, <2>3, <3>1 DEF Delivery!Forget, Rest, Nodes
    <3>3. QED
      BY <3>2 DEF Delivery!Next
  <2>4. CASE avail > 0
    <3>1. queue' = Append(queue, s) /\ avail' = avail - 1
      BY <1>4, <2>4 DEF Delay
    <3>2. Len(queue') = Len(queue) + 1
      BY <3>1, AppendProperties DEF IInv, TypeOK
    <3>3. Nodes' = Nodes
      BY ONLY <1>2, <2>1, <2>2, <3>1, <3>2, Len(<<>>) = 0 DEF Nodes
    <3>4. Delivery!Defer(s)
      BY <1>1, <1>2, <2>1, <2>2, <2>4, <3>1, <3>3 DEF Delivery!Defer, Rest
    <3>5. QED
      BY <3>4 DEF Delivery!Next
  <2>5. QED
    BY <2>2, <2>3, <2>4
<1>5. CASE HandleInactive(s)
  <2>1. Delivery!ServeNew(s)
    BY <1>1, <1>2, <1>5 DEF HandleInactive, Call, globals, Delivery!ServeNew, Rest, Nodes
  <2>2. QED
    BY <2>1 DEF Delivery!Next
<1>6. QED
  BY <1>3, <1>4, <1>5 DEF zend_signal_handler_defer

LEMMA RefinesHandlerReturns == IInv /\ HandlerReturns => Delivery!Next
<1> SUFFICES ASSUME IInv, HandlerReturns PROVE Delivery!Next
  OBVIOUS
<1> USE SignalAssumption
<1>1. /\ active /\ active' = active /\ depth' = depth /\ depth = 0
      /\ pending' = pending /\ serving # None
  BY DEF HandlerReturns, IInv, Inside
<1>2. queue \in Seq(Signals) /\ todo \in Seq(Signals) /\ avail \in Nat /\ Rest \in Seq(Signals)
  BY DEF IInv, TypeOK, Rest
<1>3. (~listed => todo = <<>>) /\ (listed => queue = <<>>)
  BY DEF IInv, Lists
<1>4. queue' = <<>> /\ avail' = IF listed THEN avail + 1 ELSE avail
  BY <1>3 DEF HandlerReturns
<1>5. Nodes = avail + Len(Rest) + (IF listed THEN 1 ELSE 0)
  BY <1>2, <1>3 DEF Nodes, Rest
<1>6. CASE NextInList
  <2>1. Rest # <<>> /\ serving' = Head(Rest) /\ todo' = Tail(Rest) /\ listed'
    BY <1>6 DEF NextInList
  <2>2. Len(Tail(Rest)) = Len(Rest) - 1 /\ Len(Rest) \in Nat
    BY <1>2, <2>1, HeadTailProperties, LenProperties
  <2>3. Nodes' = avail' + Len(<<>>) + Len(Tail(Rest)) + 1
    BY ONLY <1>4, <2>1 DEF Nodes
  <2>4. Nodes' = Nodes
    <3>1. Nodes' = avail' + 0 + (Len(Rest) - 1) + 1
      BY ONLY <2>2, <2>3
    <3>2. avail \in Nat /\ Len(Rest) \in Nat
      BY <1>2, <2>2
    <3>3. QED
      BY ONLY <1>4, <1>5, <3>1, <3>2
  <2>5. Rest' = Tail(Rest)
    BY ONLY <2>1 DEF Rest
  <2>6. Delivery!ServeOldest
    <3>1. ~(depth > 0)
      BY <1>1
    <3>2. QED
      BY ONLY <1>1, <2>1, <2>4, <2>5, <3>1 DEF Delivery!ServeOldest
  <2>7. QED
    BY <2>6 DEF Delivery!Next
<1>7. CASE DeferReturns
  <2>1. Rest = <<>> /\ serving' = None /\ todo' = <<>> /\ ~listed'
    BY <1>7 DEF DeferReturns
  <2>2. Nodes' = avail' + Len(<<>>) + Len(<<>>) + 0
    BY ONLY <1>4, <2>1 DEF Nodes
  <2>3. Nodes' = Nodes
    BY ONLY <1>2, <1>4, <1>5, <2>1, <2>2
  <2>4. Rest' = <<>>
    BY ONLY <1>4, <2>1 DEF Rest
  <2>5. Delivery!Finish
    BY ONLY <1>1, <2>1, <2>3, <2>4 DEF Delivery!Finish
  <2>6. QED
    BY <2>5 DEF Delivery!Next
<1>8. QED
  BY <1>6, <1>7 DEF HandlerReturns

LEMMA RefinesTimeout == IInv /\ zend_timeout => Delivery!Next
<1> SUFFICES ASSUME IInv, zend_timeout PROVE Delivery!Next
  OBVIOUS
<1> USE SignalAssumption
<1>1. /\ active /\ active' /\ UNCHANGED <<pending, active, depth, queue, avail>>
      /\ serving # None /\ serving' = None /\ listed' = FALSE /\ todo' = <<>>
  BY DEF zend_timeout
<1>2. queue \in Seq(Signals) /\ todo \in Seq(Signals) /\ avail \in Nat
      /\ listed \in BOOLEAN /\ Rest \in Seq(Signals)
  BY DEF IInv, TypeOK, Rest
<1>3. (~listed => todo = <<>>) /\ (listed => queue = <<>>)
  BY DEF IInv, Lists
<1>4. Rest' = queue /\ Nodes' = avail + Len(queue)
  BY <1>1, <1>2 DEF Rest, Nodes
<1>5. \E n \in 0 .. Len(Rest) :
         /\ Rest' = SubSeq(Rest, n + 1, Len(Rest))
         /\ Nodes' \in {Nodes - n, Nodes - n - 1}
  <2>1. CASE listed
    <3>1. SubSeq(Rest, Len(Rest) + 1, Len(Rest)) = <<>> /\ Len(Rest) \in Nat
      BY <1>2, SubSeqEmpty, LenProperties
    <3>2. Nodes = avail + Len(Rest) + 1 /\ Nodes' = avail
      BY <1>2, <1>3, <1>4, <2>1 DEF Nodes, Rest
    <3>3. Nodes' = Nodes - Len(Rest) - 1
      BY ONLY <1>2, <3>1, <3>2
    <3>4. Rest' = <<>>
      BY <1>3, <1>4, <2>1
    <3>5. QED
      BY ONLY <3>1, <3>3, <3>4
  <2>2. CASE ~listed
    <3>1. Rest = queue /\ Nodes = avail + Len(queue) /\ Len(queue) \in Nat
      BY <1>2, <1>3, <2>2 DEF Nodes, Rest
    <3>2. SubSeq(queue, 1, Len(queue)) = queue
      BY <1>2, SubSeqFull
    <3>3. Nodes' = Nodes - 0
      BY ONLY <1>2, <1>4, <3>1
    <3>4. QED
      BY ONLY <1>4, <3>1, <3>2, <3>3
  <2>3. QED
    BY <2>1, <2>2
<1>6. Delivery!Abandon
  BY ONLY <1>1, <1>5 DEF Delivery!Abandon
<1>7. QED
  BY <1>6 DEF Delivery!Next

LEMMA RefinesUnblock ==
  IInv /\ zend_signal_handler_unblock => Delivery!Next \/ UNCHANGED Delivery!vars
<1> SUFFICES ASSUME IInv, zend_signal_handler_unblock
             PROVE  Delivery!Next \/ UNCHANGED Delivery!vars
  OBVIOUS
<1> USE SignalAssumption
<1>1. CASE ~active \/ queue = <<>>
  BY <1>1, Stutters DEF zend_signal_handler_unblock, globals, frame
<1>2. CASE active /\ queue # <<>>
  <2>1. /\ serving = None /\ running = 0 /\ ~listed /\ todo = <<>> /\ depth = 0
        /\ queue \in Seq(Signals) /\ avail \in Nat
    BY DEF zend_signal_handler_unblock, Program, IInv, TypeOK, Outside, Lists, Flags
  <2>2. /\ queue' = Tail(queue) /\ avail' = avail + 1 /\ serving' = Head(queue)
        /\ ~listed' /\ todo' = <<>> /\ UNCHANGED <<active, depth, pending>>
    BY Zenon, <1>2, <2>1 DEF zend_signal_handler_unblock, HandleNow, Call
  <2>3. Len(Tail(queue)) = Len(queue) - 1 /\ Len(queue) \in Nat
    BY <1>2, <2>1, HeadTailProperties, LenProperties
  <2>4. Nodes = avail + Len(queue) + Len(<<>>) + 0
        /\ Nodes' = (avail + 1) + Len(Tail(queue)) + Len(<<>>) + 0
    BY ONLY <2>1, <2>2 DEF Nodes
  <2>5. Nodes' = Nodes
    <3>1. Nodes' = (avail + 1) + (Len(queue) - 1) + 0 + 0 /\ Nodes = avail + Len(queue) + 0 + 0
      BY ONLY <2>3, <2>4
    <3>2. avail \in Nat /\ Len(queue) \in Nat
      BY <2>1, <2>3
    <3>3. QED
      BY ONLY <3>1, <3>2
  <2>6. Rest = queue /\ Rest' = Tail(queue)
    BY ONLY <2>1, <2>2 DEF Rest
  <2>7. Delivery!ServeOldest
    <3>1. ~(depth > 0)
      BY <2>1
    <3>2. QED
      BY ONLY <1>2, <2>2, <2>5, <2>6, <3>1 DEF Delivery!ServeOldest
  <2>8. QED
    BY <2>7 DEF Delivery!Next
<1>3. QED
  BY <1>1, <1>2

LEMMA StepRefines ==
  ASSUME IInv, [Next]_vars
  PROVE  Delivery!Next \/ UNCHANGED Delivery!vars
<1> USE SignalAssumption
<1>1. CASE UNCHANGED vars
  BY <1>1, Stutters DEF vars, globals, frame
<1>2. ASSUME NEW s \in Signals, Raise(s) PROVE Delivery!Next
  <2>1. Delivery!Raise(s)
    BY <1>2 DEF Raise, globals, frame, Delivery!Raise, Rest, Nodes
  <2>2. QED
    BY <2>1 DEF Delivery!Next
<1>3. ASSUME InactiveReturns PROVE Delivery!Next
  <2>1. Delivery!Finish
    BY <1>3 DEF InactiveReturns, globals, Delivery!Finish, Rest, Nodes
  <2>2. QED
    BY <2>1 DEF Delivery!Next
<1>4. ASSUME HandlerDefault \/ TimeoutInactive \/ Compare PROVE UNCHANGED Delivery!vars
  BY <1>4, Stutters DEF HandlerDefault, TimeoutInactive, Compare, globals, frame
<1>5. ASSUME NEW s \in Signals, NEW act \in Actions, zend_sigaction(s, act)
      PROVE  UNCHANGED Delivery!vars
  BY <1>5, Stutters DEF zend_sigaction, frame
<1>6. ASSUME \/ HANDLE_BLOCK_INTERRUPTIONS \/ HANDLE_UNBLOCK_INTERRUPTIONS
             \/ zend_signal_activate \/ zend_signal_deactivate
      PROVE  Delivery!Next
  <2>1. serving = None /\ active' \in BOOLEAN
        /\ UNCHANGED <<pending, queue, avail, serving, listed, todo>>
    BY Zenon, <1>6 DEF HANDLE_BLOCK_INTERRUPTIONS, HANDLE_UNBLOCK_INTERRUPTIONS,
        zend_signal_activate, zend_signal_deactivate, Program, frame, IInv, TypeOK
  <2>2. QED
    BY <2>1, MoveRefines DEF Delivery!Next
<1>7. CASE Next
  BY ONLY <1>2, <1>3, <1>4, <1>5, <1>6, <1>7, IInv, RefinesDefer, RefinesHandlerReturns,
     RefinesTimeout, RefinesUnblock DEF Next, Handling, Running
<1>8. QED
  BY <1>1, <1>7

\* zend_signal.c implements the abstract delivery: no handler runs in a critical
\* section, every signal is served once and in order, and none is lost but for
\* a full queue or a handler that jumps out.
THEOREM SignalRefines == Spec => DeliverySpec
<1>1. IInv /\ [Next]_vars => [Delivery!Next]_(Delivery!vars)
  BY StepRefines
<1>2. QED
  BY <1>1, InitRefines, SignalIInv, PTL DEF Spec, DeliverySpec, Delivery!Spec

=============================================================================
