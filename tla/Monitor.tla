------------------------------- MODULE Monitor -------------------------------
(***************************************************************************)
(* pkg/monitor/service.go: what the running bot keeps in its metrics.  The *)
(* metrics have a mutex, so each update is one step, but what an update    *)
(* stores was read from the rebalancer before the lock.  The prices and    *)
(* the deviation it shows are data of one update: Metrics models them.     *)
(***************************************************************************)
EXTENDS Rebalancer

VARIABLES
  metricRebalance,  \* age of metrics.LastRebalance
  status            \* metrics.Status

monVars == <<metricRebalance, status>>

Statuses == {"", "running", "stopped", "circuit_breaker"}

MonTypeOK ==
  /\ metricRebalance \in 0..MaxAge
  /\ status \in Statuses

MonInit ==
  /\ metricRebalance = MaxAge
  /\ status = ""

UpdateStatus(s) ==
  /\ status' = s
  /\ UNCHANGED metricRebalance

UpdateLastRebalance(age) ==
  /\ metricRebalance' = age
  /\ UNCHANGED status

MonTick ==
  /\ metricRebalance' = Older(metricRebalance, MaxAge)
  /\ UNCHANGED status
=============================================================================
