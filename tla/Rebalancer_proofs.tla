--------------------------- MODULE Rebalancer_proofs ---------------------------
(***************************************************************************)
(* The rebalancer keeps its types and its two stamps in order with any     *)
(* number of workers; it keeps the cooldown when one worker runs and the   *)
(* chain answers it in time.                                               *)
(***************************************************************************)
EXTENDS Rebalancer, RiskEngine_proofs, FiniteSetTheorems

\* An age never goes back when time passes.
LEMMA OlderGrows ==
  ASSUME NEW limit \in Nat, NEW age \in 0..limit
  PROVE  Older(age, limit) \in 0..limit /\ Older(age, limit) >= age
  BY DEF Older

\* Older keeps the order of two ages on the same clock.
LEMMA OlderMonotone ==
  ASSUME NEW limit \in Nat, NEW a \in 0..limit, NEW b \in 0..limit, a <= b
  PROVE  Older(a, limit) <= Older(b, limit)
  BY DEF Older

\* The swaps a crash leaves behind are counted within their bound.
LEMMA OrphansBounded ==
  ASSUME NEW n \in Nat
  PROVE  LET sent == {w \in Callers : tx[w] = "sent"}
         IN  AtMost(n + Cardinality(sent), MaxOrphans) \in 0..MaxOrphans
<1> DEFINE sent == {w \in Callers : tx[w] = "sent"}
<1>1. IsFiniteSet(sent)
  BY FS_Subset, RebalancerAssumption DEF RebalancerAssumption
<1>2. Cardinality(sent) \in Nat
  BY <1>1, FS_CardinalityType
<1> QED
  BY <1>2, RebalancerAssumption DEF RebalancerAssumption, AtMost

\* A new engine has its type.
LEMMA RiskRestartType == RiskRestart => RiskTypeOK'
<1> SUFFICES ASSUME RiskRestart PROVE RiskTypeOK'
  OBVIOUS
<1>1. isCircuitBreaker' \in BOOLEAN
  BY DEF RiskRestart
<1>2. CircuitBreakerDuration \in Ages
  BY RiskAssumption DEF RiskAssumption, Ages
<1>3. checkTwap' \in [Callers -> Nat]
  BY RiskAssumption DEF RiskAssumption, RiskRestart
<1>4. checkPc' \in [Callers -> CheckSteps] /\ verdict' \in [Callers -> Verdicts]
  BY DEF RiskRestart, CheckSteps, Verdicts
<1> QED
  BY <1>1, <1>2, <1>3, <1>4 DEF RiskRestart, RiskTypeOK

-----------------------------------------------------------------------------
\* The risk engine's state keeps its type in every step of the rebalancer.
LEMMA RiskTypeKept ==
  ASSUME TypeOK, [Next]_vars
  PROVE  RiskTypeOK'
<1>1. CASE UNCHANGED riskVars
  BY <1>1 DEF TypeOK, RiskTypeOK, riskVars, breakerVars, statVars, checkVars
<1>2. ASSUME NEW w \in Callers, AskRisk(w) PROVE RiskTypeOK'
  BY <1>2, BeginKeepsType DEF AskRisk, TypeOK, RebTypeOK
<1>3. ASSUME NEW w \in Callers, InCheck(w) PROVE RiskTypeOK'
  BY <1>3, CheckStepKeepsType DEF InCheck, TypeOK
<1>4. ASSUME NEW w \in Callers, TakeAnswer(w) PROVE RiskTypeOK'
  BY <1>4, EndKeepsType DEF TakeAnswer, TypeOK
<1>5. CASE Tick
  BY <1>5, RiskTickKeepsType DEF Tick, TypeOK
<1>6. ASSUME NEW w \in Callers, WorkerStep(w) PROVE RiskTypeOK'
  BY <1>1, <1>2, <1>3, <1>4, <1>6
     DEF WorkerStep, BoundedStep, CheckRunning, CheckInterval, CheckDeviation, CheckCooldown,
         CheckBps, Read, ReadMarket, FailMarket, SendSwap, FailSend, GetReceipt,
         TimeOut, Forget, Settle, Retry, GiveUp, StampStabilize, StampRebalance
<1>7. ASSUME NEW w \in Callers, Begin(w, FALSE) \/ Return(w) \/ Expire(w)
      PROVE  RiskTypeOK'
  BY <1>1, <1>7 DEF Begin, Return, Expire
<1>8. CASE Chain
  BY <1>1, <1>8 DEF Chain, MineOrphan, MineSwap, RevertSwap, LoseReceipt, Forget, Settle
<1>9. ASSUME NEW current \in Prices, UpdatePrices(current) PROVE RiskTypeOK'
  BY <1>1, <1>9 DEF UpdatePrices
<1>10. CASE Start \/ Stop
  BY <1>1, <1>10 DEF Start, Stop
<1>11. CASE Restart
  BY <1>11, RiskRestartType DEF Restart
<1> QED
  BY <1>1, <1>5, <1>6, <1>7, <1>8, <1>9, <1>10, <1>11 DEF Next, vars

\* A step that moves only a worker, and only along the program, keeps types.
LEMMA ReadKeepsType ==
  ASSUME RebTypeOK, NEW w \in Callers, NEW from, NEW to \in WorkSteps, Read(w, from, to)
  PROVE  RebTypeOK'
  BY DEF RebTypeOK, Read, Go, priceVars, gateVars, chainVars

\* The steps of a worker keep the types of the rebalancer's own state.
LEMMA WorkerKeepsType ==
  ASSUME RebTypeOK, NEW w \in Callers, WorkerStep(w)
  PROVE  RebTypeOK'
<1> USE RebalancerAssumption DEF RebalancerAssumption
<1>1. CASE CheckRunning(w) \/ CheckInterval(w) \/ CheckDeviation(w)
           \/ CheckCooldown(w) \/ CheckBps(w)
  BY <1>1, ReadKeepsType
     DEF CheckRunning, CheckInterval, CheckDeviation, Approved, CheckCooldown, CheckBps, WorkSteps
<1> USE DEF RebTypeOK, WorkSteps, Go, priceVars, gateVars, chainVars
<1>2. CASE AskRisk(w) \/ TakeAnswer(w)
  BY <1>2 DEF AskRisk, TakeAnswer, Approved
<1>3. CASE InCheck(w)
  BY <1>3 DEF InCheck, rebVars, workVars
<1>4. CASE ReadMarket(w) \/ FailMarket(w)
  BY <1>4 DEF ReadMarket, FailMarket
<1>5. CASE SendSwap(w) \/ FailSend(w)
  BY <1>5 DEF SendSwap, FailSend
<1>6. CASE GetReceipt(w)
  BY <1>6 DEF GetReceipt, Settle
<1>7. CASE TimeOut(w)
  BY <1>7, OlderStays DEF TimeOut, Forget, Settle
<1>8. CASE Retry(w)
  BY <1>8 DEF Retry
<1>9. CASE GiveUp(w)
  BY <1>9 DEF GiveUp
<1>10. CASE StampStabilize(w) \/ StampRebalance(w)
  BY <1>10 DEF StampStabilize, StampRebalance
<1> QED
  BY <1>1, <1>2, <1>3, <1>4, <1>5, <1>6, <1>7, <1>8, <1>9, <1>10 DEF WorkerStep, BoundedStep

\* Every step keeps the types.
LEMMA NextKeepsType ==
  TypeOK /\ [Next]_vars => TypeOK'
<1> SUFFICES ASSUME TypeOK, [Next]_vars
             PROVE  RebTypeOK'
  BY RiskTypeKept DEF TypeOK
<1> USE RebalancerAssumption, RiskAssumption
    DEF RebalancerAssumption, TypeOK, priceVars, gateVars, chainVars, workVars
<1>1. ASSUME NEW current \in Prices, UpdatePrices(current) PROVE RebTypeOK'
  BY <1>1 DEF UpdatePrices, GetTwapPrice, RebTypeOK, RiskAssumption
<1>2. CASE Start \/ Stop
  BY <1>2 DEF Start, Stop, RebTypeOK
<1>3. ASSUME NEW w \in Callers, Begin(w, FALSE) PROVE RebTypeOK'
  BY <1>3 DEF Begin, Go, RebTypeOK, WorkSteps
<1>4. ASSUME NEW w \in Callers, WorkerStep(w) PROVE RebTypeOK'
  BY <1>4, WorkerKeepsType
<1>5. ASSUME NEW w \in Callers, Return(w) PROVE RebTypeOK'
  BY <1>5 DEF Return, RebTypeOK, WorkSteps
<1>6. ASSUME NEW w \in Callers, Expire(w) PROVE RebTypeOK'
  BY <1>6 DEF Expire, RebTypeOK
<1>7. CASE Chain
  <2>1. CASE MineOrphan
    BY <2>1 DEF MineOrphan, RebTypeOK
  <2>2. ASSUME NEW w \in Callers, MineSwap(w) \/ RevertSwap(w) PROVE RebTypeOK'
    BY <2>2 DEF MineSwap, RevertSwap, RebTypeOK
  <2>3. ASSUME NEW w \in Callers, LoseReceipt(w) PROVE RebTypeOK'
    BY <2>3, OlderStays DEF LoseReceipt, Forget, Settle, Go, RebTypeOK, WorkSteps
  <2> QED
    BY <1>7, <2>1, <2>2, <2>3 DEF Chain
<1>8. CASE Tick
  BY <1>8, OlderStays DEF Tick, RebTypeOK
<1>9. CASE Restart
  <2>1. orphans' \in 0..MaxOrphans
    BY <1>9, OrphansBounded DEF Restart, RebTypeOK
  <2>2. isRunning' \in BOOLEAN /\ expired' \in [Callers -> BOOLEAN]
    BY <1>9 DEF Restart
  <2> QED
    BY <1>9, <2>1, <2>2 DEF Restart, RebTypeOK, WorkSteps
<1>10. CASE UNCHANGED vars
  BY <1>10 DEF vars, rebVars, RebTypeOK
<1> QED
  BY <1>1, <1>2, <1>3, <1>4, <1>5, <1>6, <1>7, <1>8, <1>9, <1>10 DEF Next

\* The initial states have their types.
LEMMA InitType == Init => TypeOK
<1> SUFFICES ASSUME Init PROVE RebTypeOK
  BY RiskInitType DEF Init, TypeOK
<1>1. isRunning \in BOOLEAN /\ expired \in [Callers -> BOOLEAN]
  BY DEF Init, RebInit
<1> QED
  BY <1>1, RiskAssumption, RebalancerAssumption
     DEF RiskAssumption, RebalancerAssumption, Init, RebInit, RebTypeOK, WorkSteps

\* Every reachable state of the rebalancer and its engine has its type.
THEOREM TypeCorrect == Spec => []TypeOK
  BY InitType, NextKeepsType, PTL DEF Spec

-----------------------------------------------------------------------------
\* Steps that leave both stamps alone and bring no worker out of the second
\* one keep their order.
LEMMA UnstampedKeepsOrder ==
  ASSUME StampsOrdered, UNCHANGED <<rebalanceAge, stabilizeAge>>,
         StabilizationEnabled =>
           \A w \in Callers : pc[w] = "stampRebalance" => pc'[w] = "stampRebalance"
  PROVE  StampsOrdered'
  BY DEF StampsOrdered

\* Every step keeps the order of the stamps.
LEMMA NextKeepsOrder ==
  TypeOK /\ StampsOrdered /\ [Next]_vars => StampsOrdered'
<1> SUFFICES ASSUME TypeOK, StampsOrdered, [Next]_vars
             PROVE  StampsOrdered'
  OBVIOUS
<1> USE DEF TypeOK, RebTypeOK, Go, gateVars
<1>1. ASSUME NEW w \in Callers, StampStabilize(w) PROVE StampsOrdered'
  <2>1. pc'[w] = "stampRebalance"
    BY <1>1 DEF StampStabilize
  <2> QED
    BY <2>1 DEF StampsOrdered
<1>2. ASSUME NEW w \in Callers, StampRebalance(w) PROVE StampsOrdered'
  <2>1. rebalanceAge' = 0 /\ stabilizeAge' = stabilizeAge
    BY <1>2 DEF StampRebalance
  <2> QED
    BY <2>1 DEF StampsOrdered
<1>3. CASE Tick
  BY <1>3, OlderMonotone, RebalancerAssumption
     DEF RebalancerAssumption, Tick, workVars, StampsOrdered
<1>4. ASSUME NEW w \in Callers, WorkerStep(w), ~StampStabilize(w), ~StampRebalance(w)
      PROVE  StampsOrdered'
  BY <1>4, UnstampedKeepsOrder
     DEF WorkerStep, BoundedStep, CheckRunning, CheckInterval, CheckDeviation, CheckCooldown,
         CheckBps, Read, AskRisk, InCheck, rebVars, workVars, TakeAnswer, ReadMarket,
         FailMarket, SendSwap, FailSend, GetReceipt, TimeOut, Forget, Settle, Retry, GiveUp
<1>5. ASSUME NEW w \in Callers, Begin(w, FALSE) \/ Return(w) \/ Expire(w)
      PROVE  StampsOrdered'
  BY <1>5, UnstampedKeepsOrder DEF Begin, Return, Expire
<1>6. CASE Chain
  BY <1>6, UnstampedKeepsOrder
     DEF Chain, MineOrphan, MineSwap, RevertSwap, LoseReceipt, Forget, Settle, workVars
<1>7. CASE Start \/ Stop \/ (\E current \in Prices : UpdatePrices(current))
  BY <1>7, UnstampedKeepsOrder DEF Start, Stop, UpdatePrices, workVars
<1>8. CASE UNCHANGED vars
  BY <1>8, UnstampedKeepsOrder DEF vars, rebVars, workVars
<1>9. CASE Restart
  BY <1>9 DEF Restart, StampsOrdered
<1> QED
  BY <1>1, <1>2, <1>3, <1>4, <1>5, <1>6, <1>7, <1>8, <1>9 DEF Next

\* A stabilization is always followed by the rebalance's own stamp, whoever
\* else runs: the interval's clock is never behind the cooldown's.
THEOREM StampsInOrder == Spec => []StampsOrdered
<1>1. Init => StampsOrdered
  BY DEF Init, RebInit, StampsOrdered
<1>2. TypeOK /\ StampsOrdered /\ [Next]_vars => StampsOrdered'
  BY NextKeepsOrder
<1> QED
  BY <1>1, <1>2, TypeCorrect, PTL DEF Spec

-----------------------------------------------------------------------------
\* What keeps the cooldown when one worker runs and is answered in time: a
\* swap is under way only when the last one is a cooldown old, and the stamp
\* is never older than the last swap, but for the worker about to write it.
Deciding(w) ==
  \/ pc[w] \in {"bps", "attempt", "send", "failed"}
  \/ pc[w] = "wait" /\ tx[w] # "mined"

Unstamped(w) ==
  \/ pc[w] = "wait" /\ tx[w] = "mined"
  \/ pc[w] = "stampStabilize"

CooldownInv ==
  /\ orphans = 0
  /\ \A w \in Callers :
       /\ ~expired[w]
       /\ tx[w] # "none" => pc[w] = "wait"
       /\ Deciding(w) => swapAge >= Cooldown
  /\ (\A w \in Callers : ~Unstamped(w)) => stabilizeAge <= swapAge

\* The worker's own steps keep it.
LEMMA WorkerKeepsCooldown ==
  ASSUME OneCaller, ReceiptsArrive, TypeOK, CooldownInv, NEW w \in Callers, WorkerStep(w)
  PROVE  CooldownInv'
<1> USE RebalancerAssumption
    DEF RebalancerAssumption, OneCaller, TypeOK, RebTypeOK, CooldownInv, Deciding,
        Unstamped, Go, gateVars, chainVars
<1>1. CASE CheckRunning(w) \/ CheckInterval(w) \/ CheckDeviation(w) \/ CheckBps(w)
  BY <1>1 DEF CheckRunning, CheckInterval, CheckDeviation, CheckBps, Approved, Read
<1>2. CASE CheckCooldown(w)
  BY <1>2 DEF CheckCooldown, Read
<1>3. CASE AskRisk(w) \/ TakeAnswer(w)
  BY <1>3 DEF AskRisk, TakeAnswer, Approved
<1>4. CASE InCheck(w)
  BY <1>4 DEF InCheck, rebVars, workVars
<1>5. CASE ReadMarket(w) \/ FailMarket(w)
  BY <1>5 DEF ReadMarket, FailMarket
<1>6. CASE SendSwap(w) \/ FailSend(w)
  BY <1>6 DEF SendSwap, FailSend
<1>7. CASE GetReceipt(w)
  BY <1>7 DEF GetReceipt, Settle
<1>8. CASE TimeOut(w)
  BY <1>8 DEF TimeOut
<1>9. CASE Retry(w) \/ GiveUp(w)
  BY <1>9 DEF Retry, GiveUp
<1>10. CASE StampStabilize(w) \/ StampRebalance(w)
  BY <1>10 DEF StampStabilize, StampRebalance
<1> QED
  BY <1>1, <1>2, <1>3, <1>4, <1>5, <1>6, <1>7, <1>8, <1>9, <1>10 DEF WorkerStep, BoundedStep

\* CooldownInv holds in every state one worker can reach with such a chain.
THEOREM CooldownInvariant ==
  ASSUME OneCaller, ReceiptsArrive
  PROVE  Spec => [](TypeOK /\ CooldownInv)
<1>1. Init => CooldownInv
  BY RebalancerAssumption
     DEF RebalancerAssumption, Init, RebInit, CooldownInv, Deciding, Unstamped
<1>2. TypeOK /\ CooldownInv /\ [Next]_vars => CooldownInv'
  <2> SUFFICES ASSUME TypeOK, CooldownInv, [Next]_vars
               PROVE  CooldownInv'
    OBVIOUS
  <2> USE RebalancerAssumption
      DEF RebalancerAssumption, TypeOK, RebTypeOK, CooldownInv, Deciding, Unstamped,
          gateVars, chainVars, workVars
  <2>1. ASSUME NEW w \in Callers, WorkerStep(w) PROVE CooldownInv'
    BY <2>1, OneCaller, ReceiptsArrive, WorkerKeepsCooldown
  <2>2. ASSUME NEW w \in Callers, Begin(w, FALSE) \/ Return(w) \/ Expire(w)
        PROVE  CooldownInv'
    BY <2>2, ReceiptsArrive DEF Begin, Go, Return, Expire
  <2>3. CASE Chain
    <3>1. ASSUME NEW w \in Callers, MineSwap(w) PROVE CooldownInv'
      BY <3>1, OneCaller DEF OneCaller, MineSwap
    <3>2. ASSUME NEW w \in Callers, RevertSwap(w) PROVE CooldownInv'
      BY <3>2, OneCaller DEF OneCaller, RevertSwap
    <3> QED
      BY <2>3, <3>1, <3>2, ReceiptsArrive DEF Chain, MineOrphan, LoseReceipt
  <2>4. CASE Tick
    <3>1. swapAge' \in 0..MaxAge /\ swapAge' >= swapAge
      BY <2>4, OlderGrows DEF Tick
    <3>2. stabilizeAge <= swapAge => stabilizeAge' <= swapAge'
      BY <2>4, OlderMonotone DEF Tick
    <3> QED
      BY <2>4, <3>1, <3>2 DEF Tick
  <2>5. CASE Start \/ Stop \/ (\E current \in Prices : UpdatePrices(current))
    BY <2>5 DEF Start, Stop, UpdatePrices
  <2>6. CASE UNCHANGED vars
    BY <2>6 DEF vars, rebVars
  <2>7. CASE Restart
    <3>1. {w \in Callers : tx[w] = "sent"} = {}
      BY <2>7, ReceiptsArrive DEF Restart
    <3>2. orphans' = 0
      BY <2>7, <3>1, FS_EmptySet DEF Restart, AtMost
    <3> QED
      BY <2>7, <3>2 DEF Restart
  <2> QED
    BY <2>1, <2>2, <2>3, <2>4, <2>5, <2>6, <2>7 DEF Next
<1> QED
  BY <1>1, <1>2, TypeCorrect, PTL DEF Spec

\* With one worker and a chain that answers in time, no two swaps are mined
\* within one cooldown; each of the two assumptions is needed, as a run shows.
THEOREM CooldownKeptAlone ==
  ASSUME OneCaller, ReceiptsArrive
  PROVE  Spec => CooldownKept
<1>1. TypeOK /\ CooldownInv /\ [Next]_vars
        => [MineOrphan \/ (\E w \in Callers : MineSwap(w)) => swapAge >= Cooldown]_vars
  <2> SUFFICES ASSUME TypeOK, CooldownInv, MineOrphan \/ (\E w \in Callers : MineSwap(w))
               PROVE  swapAge >= Cooldown
    OBVIOUS
  <2> QED
    BY DEF CooldownInv, Deciding, MineOrphan, MineSwap
<1> QED
  BY <1>1, CooldownInvariant, PTL DEF Spec, CooldownKept
=============================================================================
