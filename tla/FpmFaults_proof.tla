-------------------------- MODULE FpmFaults_proof --------------------------
(***************************************************************************)
(* The emergency restart decides as documented, for every threshold and    *)
(* interval, once the machine has been up for longer than the interval.    *)
(***************************************************************************)
EXTENDS FpmFaults, TLAPS

\* The fault whose time entry i of the ring holds (none when not positive):
\* the entries before the index are of this round, the others of the last one.
SlotFault(i) ==
  IF i < fault THEN Len(history) - fault + i + 1
               ELSE Len(history) - fault - Threshold + i + 1

\* The ring is the end of the history, padded with the zeros of the memset.
RingInv ==
  /\ TypeOK
  /\ now >= Boot
  /\ \A k \in 1 .. Len(history) : history[k] <= now
  /\ \A j, k \in 1 .. Len(history) : j <= k => history[j] <= history[k]
  /\ \A i \in Ring :
       last_faults[i] = IF SlotFault(i) >= 1 THEN history[SlotFault(i)] ELSE 0

LEMMA RingInit == Init => RingInv
<1> SUFFICES ASSUME Init PROVE RingInv
  OBVIOUS
<1> USE FaultsAssumption DEF Init, Ring
<1>1. now \in Nat /\ now >= Boot /\ fault \in Ring
  OBVIOUS
<1>2. history \in Seq(Nat) /\ Len(history) = 0
  OBVIOUS
<1>3. TypeOK
  BY Zenon, <1>1, <1>2 DEF TypeOK
<1>4. \A i \in Ring : last_faults[i] = 0 /\ ~(SlotFault(i) >= 1)
  BY <1>2 DEF SlotFault
<1>. QED BY <1>1, <1>2, <1>3, <1>4 DEF RingInv

LEMMA RingNext == RingInv /\ [Next]_vars => RingInv'
<1> SUFFICES ASSUME RingInv, [Next]_vars PROVE RingInv'
  OBVIOUS
<1> USE FaultsAssumption DEF RingInv, TypeOK, Ring
<1>1. CASE Tick
  BY SMTT(40), <1>1 DEF Tick, SlotFault
<1>2. CASE Fault
  <2> USE <1>2 DEF Fault, Wrap
  <2>1. TypeOK' /\ now' >= Boot
    <3>1. restart_condition' \in BOOLEAN
      BY Zenon DEF AllRecent
    <3>. QED BY <3>1
  <2>2. /\ Len(history') = Len(history) + 1
        /\ history'[Len(history) + 1] = now
        /\ \A k \in 1 .. Len(history) : history'[k] = history[k]
    OBVIOUS
  <2>3. /\ \A k \in 1 .. Len(history') : history'[k] <= now'
        /\ \A j, k \in 1 .. Len(history') :
             j <= k => history'[j] <= history'[k]
    <3>1. now' = now /\ now \in Nat /\ Len(history) \in Nat
      OBVIOUS
    <3>2. \A k \in 1 .. Len(history') :
            k \in 1 .. Len(history) \/ k = Len(history) + 1
      BY <2>2, <3>1
    <3>3. \A k \in 1 .. Len(history') : history'[k] \in Nat /\ history'[k] <= now
      BY SMTT(40), <2>1, <2>2, <3>1, <3>2
    <3>4. ASSUME NEW j \in 1 .. Len(history'), NEW k \in 1 .. Len(history'),
                 j <= k
          PROVE  history'[j] <= history'[k]
      BY SMTT(40), <2>2, <3>1, <3>2, <3>3, <3>4
    <3>. QED BY Zenon, <3>1, <3>3, <3>4
  <2>4. ASSUME NEW i \in Ring
        PROVE  last_faults'[i] = (IF SlotFault(i)' >= 1
                                  THEN history'[SlotFault(i)'] ELSE 0)
    <3>1. CASE i = fault
      BY SMTT(40), <3>1, <2>2 DEF SlotFault
    <3>2. CASE i # fault
      <4>1. last_faults'[i] = last_faults[i] /\ SlotFault(i)' = SlotFault(i)
        <5>1. last_faults'[i] = last_faults[i]
          BY <3>2
        <5>2. Len(history) \in Nat /\ Len(history') = Len(history) + 1
          BY <2>2
        <5>3. /\ fault \in 0 .. Threshold - 1 /\ i \in 0 .. Threshold - 1
              /\ fault' = IF fault + 1 = Threshold THEN 0 ELSE fault + 1
          OBVIOUS
        <5> HIDE <1>2 DEF RingInv, TypeOK, Fault
        <5>4. SlotFault(i)' = SlotFault(i)
          BY <3>2, <5>2, <5>3 DEF SlotFault
        <5>. QED BY <5>1, <5>4
      <4>2. SlotFault(i) \in Int /\ SlotFault(i) <= Len(history)
        BY <3>2 DEF SlotFault
      <4>. QED BY SMTT(40), <4>1, <4>2, <2>2
    <3>. QED BY Zenon, <3>1, <3>2
  <2>. QED BY Zenon, <2>1, <2>3, <2>4
<1>3. CASE UNCHANGED vars
  BY <1>3 DEF vars, SlotFault
<1>. QED BY Zenon, <1>1, <1>2, <1>3 DEF Next

\* The types hold: the index of fpm_children_bury() never leaves the ring.
THEOREM FaultsTypeOK == Spec => []TypeOK
<1>1. RingInv => TypeOK
  BY DEF RingInv
<1>. QED BY <1>1, RingInit, RingNext, PTL DEF Spec

\* One fault: the loop over the ring finds what the history says.
LEMMA FaultExact ==
  ASSUME RingInv, RingInv', Fault, Boot > Interval
  PROVE  restart_condition' <=> Reached(history', now)
<1> DEFINE n == Len(history')
           first == n - Threshold + 1
           s(i) == SlotFault(i)'
<1>1. /\ now' = now /\ now \in Nat /\ now >= Boot
      /\ restart_condition' = AllRecent(last_faults')
  BY DEF Fault, RingInv, TypeOK
<1>2. /\ Threshold \in Nat \ {0} /\ Interval \in Nat /\ Boot \in Nat
      /\ n \in Nat /\ fault' \in 0 .. Threshold - 1 /\ Ring = 0 .. Threshold - 1
  BY FaultsAssumption DEF RingInv, TypeOK, Ring
<1>3. /\ \A i \in Ring : last_faults'[i] \in Nat
      /\ \A k \in 1 .. n : history'[k] \in Nat
  BY DEF RingInv, TypeOK
<1>4. /\ \A j, k \in 1 .. n : j <= k => history'[j] <= history'[k]
      /\ \A i \in Ring :
           last_faults'[i] = IF s(i) >= 1 THEN history'[s(i)] ELSE 0
  BY DEF RingInv
<1>5. \A i \in Ring : s(i) \in Int /\ s(i) >= first /\ s(i) <= n
  BY <1>2 DEF SlotFault
<1>6. \A i \in Ring : i = fault' => s(i) = first
  BY <1>2 DEF SlotFault
<1>7. restart_condition' <=> \A i \in Ring : now - last_faults'[i] <= Interval
  BY <1>1, Zenon DEF AllRecent
<1>8. Reached(history', now) <=> n >= Threshold /\ now - history'[first] <= Interval
  BY Zenon DEF Reached
<1> HIDE DEF n, s
<1>9. CASE n >= Threshold
  <2>1. first \in 1 .. n
    BY <1>2, <1>9
  <2>2. last_faults'[fault'] = history'[first]
    BY <1>2, <1>4, <1>6, <2>1
  <2>3. \A i \in Ring : last_faults'[i] >= history'[first]
    BY <1>2, <1>4, <1>5, <2>1
  <2>. QED BY <1>1, <1>2, <1>3, <1>7, <1>8, <1>9, <2>1, <2>2, <2>3
<1>10. CASE ~(n >= Threshold)
  <2>1. last_faults'[fault'] = 0
    BY <1>2, <1>4, <1>6, <1>10
  <2>. QED BY <1>1, <1>2, <1>7, <1>8, <1>10, <2>1
<1>. QED BY <1>9, <1>10

\* The reload is started exactly when the last Threshold faults lie within the
\* interval, provided the clock had passed the interval when FPM started: the
\* zeros of the memset then never count as faults.
THEOREM FaultsExact ==
  ASSUME Boot > Interval PROVE Spec => ReloadExact
<1>1. ASSUME RingInv, RingInv', [Next]_vars
      PROVE  [history' # history
                => (restart_condition' <=> Reached(history', now))]_vars
  <2>1. CASE Fault BY <1>1, <2>1, FaultExact
  <2>2. CASE Tick BY <2>2 DEF Tick
  <2>3. CASE UNCHANGED vars BY <2>3 DEF vars
  <2>. QED BY <1>1, <2>1, <2>2, <2>3 DEF Next
<1>. QED BY <1>1, RingInit, RingNext, PTL DEF Spec, ReloadExact
=============================================================================
