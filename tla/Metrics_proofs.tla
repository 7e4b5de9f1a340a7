---------------------------- MODULE Metrics_proofs ----------------------------
(***************************************************************************)
(* The profit computed from the metrics, whatever the order of the updates.*)
(***************************************************************************)
EXTENDS Metrics, TLAPS

\* The fields of the metrics are what they should be.
MetricsInv ==
  metrics \in [CurrentPrice : Nat, TotalLiquidity : Nat, PositionCount : Nat,
               FeesCollected : Nat, GasCost : Nat, NetProfit : Int, FailureRate : Nat,
               Status : {"", "running", "stopped", "circuit_breaker"}]

\* New fees leave numbers, and a profit that was not more than the difference is
\* not more than the new one.
LEMMA FeesOnlyHelp ==
  ASSUME NEW fees \in Nat, NEW gas \in Nat, NEW profit \in Int, NEW n \in Nat,
         profit <= fees - gas
  PROVE  fees + n \in Nat /\ profit <= (fees + n) - gas
  OBVIOUS

\* A new cost leaves numbers, and a profit that is the new difference.
LEMMA CostsCounted ==
  ASSUME NEW fees \in Nat, NEW gas \in Nat, NEW n \in Nat
  PROVE  gas + n \in Nat /\ fees - (gas + n) \in Int /\ fees - (gas + n) <= fees - (gas + n)
  OBVIOUS

\* In every state the fields have their types, and the profit shown is at most
\* the fees less the gas, whatever the order of the updates.
THEOREM MetricsInvariant == MetricsSpec => [](MetricsInv /\ ProfitNotOverstated)
<1> USE MetricsAssumption DEF MetricsAssumption
<1>1. MetricsInit => MetricsInv /\ ProfitNotOverstated
  <2> SUFFICES ASSUME MetricsInit PROVE MetricsInv /\ ProfitNotOverstated
    OBVIOUS
  <2>1. MetricsInv
    <3>1. 0 \in Nat /\ 0 \in Int /\ Reference \in Nat
      BY DEF Reference
    <3> QED
      BY <3>1, Zenon DEF MetricsInit, MetricsInv
  <2>2. metrics.NetProfit = 0 /\ metrics.FeesCollected = 0 /\ metrics.GasCost = 0
    BY DEF MetricsInit
  <2> QED
    BY <2>1, <2>2 DEF ProfitNotOverstated
<1>2. MetricsInv /\ ProfitNotOverstated /\ [MetricsNext]_metricsVars
        => MetricsInv' /\ ProfitNotOverstated'
  <2> SUFFICES ASSUME MetricsInv, ProfitNotOverstated, [MetricsNext]_metricsVars
               PROVE  MetricsInv' /\ ProfitNotOverstated'
    OBVIOUS
  <2> USE DEF MetricsInv, ProfitNotOverstated
  <2>1. ASSUME NEW current \in MetricPrices, SetPrices(current)
        PROVE  MetricsInv' /\ ProfitNotOverstated'
    BY <2>1 DEF SetPrices, Set
  <2>2. ASSUME NEW n \in Nat,
               UpdateLiquidity(n) \/ UpdatePositionCount(n) \/ UpdateFailureRate(n)
        PROVE  MetricsInv' /\ ProfitNotOverstated'
    BY <2>2 DEF UpdateLiquidity, UpdatePositionCount, UpdateFailureRate, Set
  <2>3. ASSUME NEW n \in Costs, UpdateFees(n) PROVE MetricsInv' /\ ProfitNotOverstated'
    <3>1. n \in Nat /\ metrics.FeesCollected \in Nat /\ metrics.GasCost \in Nat
            /\ metrics.NetProfit \in Int
      OBVIOUS
    <3>2. metrics' = [metrics EXCEPT !.FeesCollected = metrics.FeesCollected + n]
      BY <2>3 DEF UpdateFees, Set
    <3>3. /\ metrics.FeesCollected + n \in Nat
          /\ metrics.NetProfit <= (metrics.FeesCollected + n) - metrics.GasCost
      BY <3>1, FeesOnlyHelp, Zenon
    <3>4. MetricsInv'
      BY <3>2, <3>3
    <3>5. /\ metrics'.FeesCollected = metrics.FeesCollected + n
          /\ metrics'.GasCost = metrics.GasCost
          /\ metrics'.NetProfit = metrics.NetProfit
      BY <3>2
    <3> QED
      BY <3>3, <3>4, <3>5, Zenon
  <2>4. ASSUME NEW n \in Costs, UpdateGasCost(n) PROVE MetricsInv' /\ ProfitNotOverstated'
    <3> DEFINE profit == metrics.FeesCollected - (metrics.GasCost + n)
    <3>1. n \in Nat /\ metrics.FeesCollected \in Nat /\ metrics.GasCost \in Nat
      OBVIOUS
    <3>2. metrics' = [metrics EXCEPT !.GasCost = metrics.GasCost + n, !.NetProfit = profit]
      BY <2>4 DEF UpdateGasCost
    <3>3. metrics.GasCost + n \in Nat /\ profit \in Int /\ profit <= profit
      BY <3>1, CostsCounted, Zenon
    <3>4. MetricsInv'
      BY <3>2, <3>3
    <3>5. /\ metrics'.FeesCollected = metrics.FeesCollected
          /\ metrics'.GasCost = metrics.GasCost + n
          /\ metrics'.NetProfit = profit
      BY <3>2
    <3> QED
      BY <3>3, <3>4, <3>5, Zenon
  <2>5. CASE Snapshot \/ SetStatus("circuit_breaker")
    BY <2>5 DEF Snapshot, SetStatus, Set
  <2>6. CASE FlagChanges \/ UNCHANGED metricsVars
    BY <2>6 DEF FlagChanges, metricsVars
  <2> QED
    BY <2>1, <2>2, <2>3, <2>4, <2>5, <2>6 DEF MetricsNext
<1> QED
  BY <1>1, <1>2, PTL DEF MetricsSpec

\* In particular the profit shown is never overstated.
THEOREM ProfitNeverOverstated == MetricsSpec => []ProfitNotOverstated
  BY MetricsInvariant, PTL

=============================================================================
