----------------------------- MODULE Supervisor -----------------------------
(***************************************************************************)
(* What a process manager promises.  It keeps a team of workers for each   *)
(* pool, within the limits, and knows each of them from its first moment   *)
(* until it is buried.  Orders to reload or to stop only get stronger, and *)
(* nobody is hired after one.  The manager itself leaves, or begins anew,  *)
(* when no worker is left.  FpmMaster is shown to implement this module.   *)
(***************************************************************************)
EXTENDS Integers, FiniteSets

CONSTANTS Pools, Pids,
          Limit,        \* how many workers a pool may have
          TotalLimit    \* how many all pools may have (0: any number)

VARIABLES mode,         \* the order that is being carried out
          team,         \* the workers of each pool, dead ones included
          alive         \* the processes that run

vars == <<mode, team, alive>>

Nobody == [p \in Pools |-> {}]
Members == UNION {team[p] : p \in Pools}
Strength(order) == [NORMAL |-> 0, RELOADING |-> 1, FINISHING |-> 2, TERMINATING |-> 3][order]

Init == mode = "NORMAL" /\ team = Nobody /\ alive = {}

Hire(p, c) ==
  /\ mode = "NORMAL" /\ UNCHANGED mode
  /\ c \notin alive /\ alive' = alive \cup {c}
  /\ c \notin Members /\ team' = [team EXCEPT ![p] = @ \cup {c}]
  /\ Cardinality(team[p]) < Limit[p]
  /\ TotalLimit > 0 => Cardinality(Members) < TotalLimit

Die(c) ==
  /\ c \in alive
  /\ alive' = alive \ {c}
  /\ UNCHANGED <<mode, team>>

\* What the worker died of may be a reason to reload.
Bury(p, c) ==
  /\ c \in team[p] \ alive
  /\ team' = [team EXCEPT ![p] = @ \ {c}]
  /\ mode' = mode \/ (mode = "NORMAL" /\ mode' = "RELOADING")
  /\ UNCHANGED alive

Order(new) ==
  /\ mode # "GONE" /\ Strength(new) > Strength(mode)
  /\ mode' = new
  /\ UNCHANGED <<team, alive>>

\* The last worker need not be buried by a manager that leaves.  One that is to stop
\* does not begin anew.
Finish ==
  /\ mode # "GONE" /\ alive = {}
  /\ Cardinality(Members) <= 1
  /\ \/ mode' = "GONE"
     \/ mode \in {"NORMAL", "RELOADING"} /\ mode' = "NORMAL"
  /\ team' = Nobody
  /\ UNCHANGED alive

Next ==
  \/ Finish
  \/ \E new \in {"RELOADING", "FINISHING", "TERMINATING"} : Order(new)
  \/ \E c \in Pids : Die(c) \/ \E p \in Pools : Hire(p, c) \/ Bury(p, c)

Spec == Init /\ [][Next]_vars
=============================================================================
