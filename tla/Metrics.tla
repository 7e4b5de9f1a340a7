-------------------------------- MODULE Metrics --------------------------------
(***************************************************************************)
(* pkg/monitor/service.go: all the metrics and what is computed from them, *)
(* the profit.  Every operation holds the metrics' lock, so it is one      *)
(* step.  The running bot calls UpdatePrices and, in module Monitor,       *)
(* UpdateStatus and UpdateLastRebalance; the others are there for callers  *)
(* to come.                                                                *)
(***************************************************************************)
EXTENDS Integers

CONSTANTS
  MetricPrices,     \* prices UpdatePrices may be given, in bps of the reference
  Costs,            \* fees and gas costs
  Rates,            \* failure rates, in per cent
  MaxTotal          \* bound: fees and gas costs added up

ASSUME MetricsAssumption ==
  /\ MetricPrices \subseteq Nat
  /\ Costs \subseteq Nat
  /\ Rates \subseteq Nat
  /\ MaxTotal \in Nat

VARIABLES
  metrics,      \* the fields; the deviation as the prices it is computed from
  trading       \* external: the rebalancer's running flag

metricsVars == <<metrics, trading>>

\* The reference price, in bps of itself.
Reference == 10000

\* All fields are zero; the deviation is, too, as if the price were the reference.
MetricsInit ==
  /\ metrics = [CurrentPrice |-> Reference, TotalLiquidity |-> 0, PositionCount |-> 0,
                FeesCollected |-> 0, GasCost |-> 0, NetProfit |-> 0,
                FailureRate |-> 0, Status |-> ""]
  /\ trading = TRUE

-----------------------------------------------------------------------------
\* An update of one field.
Set(field, value) ==
  /\ metrics' = [metrics EXCEPT ![field] = value]
  /\ UNCHANGED trading

SetPrices(current) == Set("CurrentPrice", current)
UpdateLiquidity(n) == Set("TotalLiquidity", n)
UpdatePositionCount(n) == Set("PositionCount", n)
UpdateFailureRate(rate) == Set("FailureRate", rate)
SetStatus(s) == Set("Status", s)

UpdateFees(fees) ==
  /\ metrics.FeesCollected + fees <= MaxTotal
  /\ Set("FeesCollected", metrics.FeesCollected + fees)

\* Mutant of UpdateGasCost: the profit is computed before the cost is added.
UpdateGasCostLate(cost) ==
  /\ metrics.GasCost + cost <= MaxTotal
  /\ metrics' = [metrics EXCEPT !.GasCost = @ + cost,
                                !.NetProfit = metrics.FeesCollected - metrics.GasCost]
  /\ UNCHANGED trading

\* The profit is computed anew only here, from the fees collected so far.
UpdateGasCost(cost) ==
  /\ metrics.GasCost + cost <= MaxTotal
  /\ metrics' = [metrics EXCEPT !.GasCost = @ + cost,
                                !.NetProfit = metrics.FeesCollected - (metrics.GasCost + cost)]
  /\ UNCHANGED trading

\* The snapshot of StartPeriodicTasks takes its status from the rebalancer (and
\* the time of the last rebalance, which is left to Monitor).
Snapshot == Set("Status", IF trading THEN "running" ELSE "stopped")

\* External: the rebalancer is started or stopped.
FlagChanges == trading' \in BOOLEAN /\ UNCHANGED metrics

MetricsNext ==
  \/ \E current \in MetricPrices : SetPrices(current)
  \/ \E n \in {0, 1} : UpdateLiquidity(n) \/ UpdatePositionCount(n)
  \/ \E rate \in Rates : UpdateFailureRate(rate)
  \/ SetStatus("circuit_breaker")
  \/ \E n \in Costs : UpdateFees(n) \/ UpdateGasCost(n)
  \/ Snapshot
  \/ FlagChanges

MetricsSpec == MetricsInit /\ [][MetricsNext]_metricsVars

-----------------------------------------------------------------------------
\* The profit shown may be out of date, because new fees do not update it, but
\* is never more than the fees less the gas (lines 63-75).
ProfitNotOverstated ==
  metrics.NetProfit <= metrics.FeesCollected - metrics.GasCost
=============================================================================
