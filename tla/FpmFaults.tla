----------------------------- MODULE FpmFaults -----------------------------
(***************************************************************************)
(* The emergency restart of FPM: fpm_children_bury() keeps the times of    *)
(* the last faults (workers killed by SIGSEGV or SIGBUS) in a ring and     *)
(* reloads the server when the whole ring falls into the interval.         *)
(* FpmMaster leaves this decision open (MayReload).                        *)
(***************************************************************************)
EXTENDS Integers, Sequences

CONSTANTS Threshold,   \* emergency_restart_threshold
          Interval,    \* emergency_restart_interval, in seconds
          Boot,        \* the monotonic clock when the master starts
          MaxTime, MaxHistory   \* bounds

ASSUME FaultsAssumption == /\ Threshold \in Nat \ {0} /\ Interval \in Nat \ {0}
                           /\ Boot \in Nat /\ MaxTime \in Nat
                           /\ MaxHistory \in Nat

VARIABLES now, last_faults, fault,
          restart_condition, \* of the last fault
          history            \* the times of all faults, for the properties

vars == <<now, last_faults, fault, restart_condition, history>>

Ring == 0 .. Threshold - 1

Init == /\ now = Boot
        /\ last_faults = [i \in Ring |-> 0] /\ fault = 0
        /\ restart_condition = FALSE /\ history = <<>>

Tick == /\ now < MaxTime /\ now' = now + 1
        /\ UNCHANGED <<last_faults, fault, restart_condition, history>>

\* Faulty variant: the index wraps one entry late.
WrapLate(i) == IF i > Threshold THEN 0 ELSE i

Wrap(i) == IF i = Threshold THEN 0 ELSE i

\* Faulty variant: only the oldest entry is compared, as if it were at fault.
ComparesFirst(ring) == now - ring[0] <= Interval

AllRecent(ring) == \A i \in Ring : now - ring[i] <= Interval

Fault ==
  /\ Len(history) < MaxHistory
  /\ last_faults' = [last_faults EXCEPT ![fault] = now]
  /\ fault' = Wrap(fault + 1)
  /\ restart_condition' = AllRecent(last_faults')
  /\ history' = Append(history, now)
  /\ UNCHANGED now

Next == Tick \/ Fault

Spec == Init /\ [][Next]_vars

TypeOK == /\ now \in Nat /\ last_faults \in [Ring -> Nat] /\ fault \in Ring
          /\ restart_condition \in BOOLEAN /\ history \in Seq(Nat)

\* The documented condition, on the history: the last Threshold faults lie in
\* the interval that ends now.
Reached(h, time) ==
  /\ Len(h) >= Threshold
  /\ time - h[Len(h) - Threshold + 1] <= Interval

\* php-fpm.conf: the server restarts if this number of workers die by a fault
\* within the interval.
ReloadExact ==
  [][history' # history => (restart_condition' <=> Reached(history', now))]_vars
============================================================================
