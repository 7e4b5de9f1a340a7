------------------------------ MODULE Rebalancer ------------------------------
(***************************************************************************)
(* pkg/rebalancer/service.go, with the part of pkg/executor/service.go a   *)
(* stabilization swap goes through.  Every worker is a goroutine inside    *)
(* ExecuteRebalance: the bot's rebalance loop, or one that the API server  *)
(* started.  Nothing locks the rebalancer, so a worker takes one step for  *)
(* each field it reads or writes and for each answer of the chain.         *)
(*                                                                         *)
(* The chain is external: a swap that was sent is mined at any later time, *)
(* whether or not anyone still waits for its receipt.                      *)
(***************************************************************************)
EXTENDS RiskEngine, FiniteSets

CONSTANTS
  RebalanceThresholdBps,  \* bot.rebalance_threshold, in bps
  RebalanceInterval,      \* bot.rebalance_interval_seconds, in ticks
  StabilizationEnabled,   \* stabilization.enabled
  ExecutorAvailable,      \* NewExecutor succeeded
  DeviationBps,           \* stabilization.deviation_bps
  Cooldown,               \* stabilization.cooldown_seconds, in ticks
  MaxRetries,             \* maxRetries of ExecuteStabilization
  ReceiptsArrive,         \* the chain answers all of a run within its deadline
  Crashes,                \* the process may be killed and started again
  MaxAge,                 \* bound: where the ages below saturate
  MaxOrphans              \* bound: sent swaps nobody waits for

ASSUME RebalancerAssumption ==
  /\ RebalanceThresholdBps \in Nat
  /\ RebalanceInterval \in Nat
  /\ StabilizationEnabled \in BOOLEAN
  /\ ExecutorAvailable \in BOOLEAN
  /\ DeviationBps \in Nat
  /\ Cooldown \in Nat
  /\ MaxRetries \in Nat \ {0}
  /\ ReceiptsArrive \in BOOLEAN
  /\ Crashes \in BOOLEAN
  /\ IsFiniteSet(Callers)
  /\ MaxAge \in Nat
  /\ MaxOrphans \in Nat
  /\ RebalanceInterval <= MaxAge
  /\ Cooldown <= MaxAge

VARIABLES
  currentPrice, twapPrice,
  isRunning,
  rebalanceAge,   \* time.Since(lastRebalance)
  stabilizeAge,   \* time.Since(lastStabilize)
  pc,             \* where each worker is in ExecuteRebalance
  attempt,        \* its attempt of ExecuteStabilization
  side,           \* what its swap sells: token0, the stablecoin, or token1
  expired,        \* its context is done
  tx,             \* external: the swap it waits for
  orphans,        \* external: swaps sent, not mined, waited for by nobody
  swapAge         \* external: time since a swap was last mined

priceVars == <<currentPrice, twapPrice>>
gateVars == <<isRunning, rebalanceAge, stabilizeAge>>
chainVars == <<tx, orphans, swapAge>>
workVars == <<pc, attempt, side, expired>>
rebVars == <<priceVars, gateVars, chainVars, workVars>>
vars == <<riskVars, rebVars>>

WorkSteps == {"idle", "running", "interval", "deviation", "risk", "checking",
              "cooldown", "bps", "attempt", "send", "wait", "failed",
              "stampStabilize", "stampRebalance", "ok", "err"}

RebTypeOK ==
  /\ currentPrice \in Nat
  /\ twapPrice \in Nat
  /\ isRunning \in BOOLEAN
  /\ rebalanceAge \in 0..MaxAge
  /\ stabilizeAge \in 0..MaxAge
  /\ pc \in [Callers -> WorkSteps]
  /\ attempt \in [Callers -> 1..MaxRetries]
  /\ side \in [Callers -> {"none", "token0", "token1"}]
  /\ expired \in [Callers -> BOOLEAN]
  /\ tx \in [Callers -> {"none", "sent", "mined", "reverted"}]
  /\ orphans \in 0..MaxOrphans
  /\ swapAge \in 0..MaxAge

TypeOK == RiskTypeOK /\ RebTypeOK

-----------------------------------------------------------------------------
\* calculateDeviation is more than bps; a zero TWAP counts as no deviation.
DeviationOver(bps) ==
  twapPrice > 0 /\ Distance(currentPrice, twapPrice) * 10000 > bps * twapPrice

\* int(calculateDeviation() * 10000), the deviation in whole bps.
WholeBps ==
  IF twapPrice = 0 THEN 0
  ELSE (Distance(currentPrice, twapPrice) * 10000) \div twapPrice

\* A counter that stops at its bound.
AtMost(n, limit) == IF n < limit THEN n ELSE limit

RebInit ==
  /\ currentPrice = Par
  /\ twapPrice = Par
  /\ isRunning = FALSE
  /\ rebalanceAge = 0
  /\ stabilizeAge = 0
  /\ pc = [w \in Callers |-> "idle"]
  /\ attempt = [w \in Callers |-> 1]
  /\ side = [w \in Callers |-> "none"]
  /\ expired = [w \in Callers |-> FALSE]
  /\ tx = [w \in Callers |-> "none"]
  /\ orphans = 0
  /\ swapAge = MaxAge

\* pkg/uniswap/client.go answers every query for a TWAP with 1.0.
GetTwapPrice == Par

\* UpdatePrices, with the TWAP of GetPriceInfo.  It is constant, so the second
\* of the two writes never changes what a worker between them would read.
UpdatePrices(current) ==
  /\ currentPrice' = current
  /\ twapPrice' = GetTwapPrice
  /\ UNCHANGED <<riskVars, gateVars, chainVars, workVars>>

Start ==
  /\ isRunning' = TRUE
  /\ UNCHANGED <<riskVars, priceVars, rebalanceAge, stabilizeAge, chainVars, workVars>>

Stop ==
  /\ isRunning' = FALSE
  /\ UNCHANGED <<riskVars, priceVars, rebalanceAge, stabilizeAge, chainVars, workVars>>

-----------------------------------------------------------------------------
\* Worker w goes from one step of ExecuteRebalance to the next.
Go(w, from, to) ==
  /\ pc[w] = from
  /\ pc' = [pc EXCEPT ![w] = to]

\* A step that only reads.
Read(w, from, to) ==
  /\ Go(w, from, to)
  /\ UNCHANGED <<riskVars, priceVars, gateVars, chainVars, attempt, side, expired>>

\* ExecuteRebalance is called with a context of 60 seconds, which is done from
\* the start when its parent is.
Begin(w, done) ==
  /\ Go(w, "idle", "running")
  /\ expired' = [expired EXCEPT ![w] = done]
  /\ UNCHANGED <<riskVars, priceVars, gateVars, chainVars, attempt, side>>

\* Mutant of CheckRunning: the running flag is not looked at.
CheckRunningNever(w) == Read(w, "running", "interval")

\* ShouldRebalance.
CheckRunning(w) == Read(w, "running", IF isRunning THEN "interval" ELSE "err")

CheckInterval(w) ==
  Read(w, "interval", IF rebalanceAge < RebalanceInterval THEN "err" ELSE "deviation")

\* Over the threshold the answer is yes without asking the risk engine.
Approved == IF StabilizationEnabled THEN "cooldown" ELSE "stampRebalance"

CheckDeviation(w) ==
  Read(w, "deviation", IF DeviationOver(RebalanceThresholdBps) THEN Approved ELSE "risk")

\* The risk engine is given the prices as they are now.
AskRisk(w) ==
  /\ Go(w, "risk", "checking")
  /\ BeginCheck(w, currentPrice, twapPrice)
  /\ UNCHANGED <<priceVars, gateVars, chainVars, attempt, side, expired>>

InCheck(w) ==
  /\ CheckStep(w)
  /\ UNCHANGED rebVars

TakeAnswer(w) ==
  /\ Go(w, "checking", IF verdict[w] = "allowed" THEN Approved ELSE "err")
  /\ EndCheck(w)
  /\ UNCHANGED <<priceVars, gateVars, chainVars, attempt, side, expired>>

\* ShouldStabilize.
CheckCooldown(w) ==
  Read(w, "cooldown",
       IF ExecutorAvailable /\ stabilizeAge >= Cooldown THEN "bps" ELSE "err")

\* Mutant of CheckBps: a deviation of exactly the threshold is not enough.
CheckBpsStrict(w) == Read(w, "bps", IF WholeBps <= DeviationBps THEN "err" ELSE "attempt")

CheckBps(w) == Read(w, "bps", IF WholeBps < DeviationBps THEN "err" ELSE "attempt")

-----------------------------------------------------------------------------
\* doStabilization reads both balances, then the price once more to choose
\* what to sell; SwapSizing says how much.
ReadMarket(w) ==
  /\ ~expired[w]
  /\ Go(w, "attempt", "send")
  /\ side' = [side EXCEPT ![w] = IF currentPrice > Par THEN "token0" ELSE "token1"]
  /\ UNCHANGED <<riskVars, priceVars, gateVars, chainVars, attempt, expired>>

\* A balance could not be read, or nothing of the token is there to sell.
FailMarket(w) ==
  /\ Go(w, "attempt", "failed")
  /\ UNCHANGED <<riskVars, priceVars, gateVars, chainVars, attempt, side, expired>>

\* ExecuteSwap.  A failed approval is only logged, and the swap is sent with
\* no context: an expired one does not stop it here, and neither does it end
\* the wait for a node that does not answer.
SendSwap(w) ==
  /\ Go(w, "send", "wait")
  /\ tx' = [tx EXCEPT ![w] = "sent"]
  /\ UNCHANGED <<riskVars, priceVars, gateVars, orphans, swapAge, attempt, side, expired>>

FailSend(w) ==
  /\ Go(w, "send", "failed")
  /\ side' = [side EXCEPT ![w] = "none"]
  /\ UNCHANGED <<riskVars, priceVars, gateVars, chainVars, attempt, expired>>

\* The worker's swap is done with.
Settle(w, to) ==
  /\ Go(w, "wait", to)
  /\ tx' = [tx EXCEPT ![w] = "none"]
  /\ side' = [side EXCEPT ![w] = "none"]
  /\ UNCHANGED <<riskVars, priceVars, gateVars, swapAge, attempt, expired>>

\* waitForReceipt finds the receipt, whose status is the swap's success.
GetReceipt(w) ==
  /\ tx[w] \in {"mined", "reverted"}
  /\ ~expired[w]
  /\ Settle(w, IF tx[w] = "mined" THEN "stampStabilize" ELSE "failed")
  /\ UNCHANGED orphans

\* waitForReceipt gives up: nothing remembers the swap that was sent.
Forget(w) ==
  /\ Settle(w, "failed")
  /\ orphans' = IF tx[w] = "sent" THEN Older(orphans, MaxOrphans) ELSE orphans

\* Mutant of TimeOut: the wait ends only for a swap that was mined.
TimeOutIgnored(w) == expired[w] /\ tx[w] # "sent" /\ Forget(w)

\* The context's deadline passed while the receipt was awaited, or before.
TimeOut(w) == expired[w] /\ Forget(w)

\* The chain answered with an error that is not NotFound.
LoseReceipt(w) == ~ReceiptsArrive /\ ~expired[w] /\ Forget(w)

\* Mutant of Retry: one attempt too many.
RetryOnceMore(w) ==
  /\ attempt[w] <= MaxRetries
  /\ Go(w, "failed", "attempt")
  /\ attempt' = [attempt EXCEPT ![w] = @ + 1]
  /\ UNCHANGED <<riskVars, priceVars, gateVars, chainVars, side, expired>>

\* Mutant of Retry: attempts are not counted.
RetryUncounted(w) ==
  /\ Go(w, "failed", "attempt")
  /\ UNCHANGED <<riskVars, priceVars, gateVars, chainVars, attempt, side, expired>>

\* ExecuteStabilization tries again after a sleep, or returns the last error.
Retry(w) ==
  /\ attempt[w] < MaxRetries
  /\ Go(w, "failed", "attempt")
  /\ attempt' = [attempt EXCEPT ![w] = @ + 1]
  /\ UNCHANGED <<riskVars, priceVars, gateVars, chainVars, side, expired>>

GiveUp(w) ==
  /\ attempt[w] = MaxRetries
  /\ Go(w, "failed", "err")
  /\ UNCHANGED <<riskVars, priceVars, gateVars, chainVars, attempt, side, expired>>

\* lastStabilize = time.Now(), after the receipt.
StampStabilize(w) ==
  /\ Go(w, "stampStabilize", "stampRebalance")
  /\ stabilizeAge' = 0
  /\ UNCHANGED <<riskVars, priceVars, isRunning, rebalanceAge, chainVars, attempt, side, expired>>

\* Mutant of StampRebalance: only rebalances without a stabilization are stamped.
StampRebalanceAlone(w) ==
  /\ Go(w, "stampRebalance", "ok")
  /\ rebalanceAge' = IF StabilizationEnabled THEN rebalanceAge ELSE 0
  /\ UNCHANGED <<riskVars, priceVars, isRunning, stabilizeAge, chainVars, attempt, side, expired>>

\* lastRebalance = time.Now(), only when the stabilization did not fail.
StampRebalance(w) ==
  /\ Go(w, "stampRebalance", "ok")
  /\ rebalanceAge' = 0
  /\ UNCHANGED <<riskVars, priceVars, isRunning, stabilizeAge, chainVars, attempt, side, expired>>

\* ExecuteRebalance has returned and its context is cancelled.
Return(w) ==
  /\ pc[w] \in {"ok", "err"}
  /\ pc' = [pc EXCEPT ![w] = "idle"]
  /\ attempt' = [attempt EXCEPT ![w] = 1]
  /\ side' = [side EXCEPT ![w] = "none"]
  /\ expired' = [expired EXCEPT ![w] = FALSE]
  /\ UNCHANGED <<riskVars, priceVars, gateVars, chainVars>>

\* The 60 seconds are over before the run is.
Expire(w) ==
  /\ ~ReceiptsArrive
  /\ pc[w] \notin {"idle", "ok", "err"}
  /\ ~expired[w]
  /\ expired' = [expired EXCEPT ![w] = TRUE]
  /\ UNCHANGED <<riskVars, priceVars, gateVars, chainVars, pc, attempt, side>>

\* Mutant of Restart: the new process does not know when it last stabilized.
RestartUnstamped ==
  /\ Crashes
  /\ ReceiptsArrive => \A w \in Callers : tx[w] # "sent"
  /\ RiskRestart
  /\ currentPrice' = Par /\ twapPrice' = Par
  /\ isRunning' = FALSE
  /\ rebalanceAge' = 0 /\ stabilizeAge' = MaxAge
  /\ pc' = [w \in Callers |-> "idle"]
  /\ attempt' = [w \in Callers |-> 1]
  /\ side' = [w \in Callers |-> "none"]
  /\ expired' = [w \in Callers |-> FALSE]
  /\ tx' = [w \in Callers |-> "none"]
  /\ UNCHANGED <<orphans, swapAge>>

\* The process is killed and started again.  NewRebalancer takes the time of
\* the start for both stamps; the swaps under way, if the crash hits any, are
\* still mined one day.
Restart ==
  /\ Crashes
  /\ ReceiptsArrive => \A w \in Callers : tx[w] # "sent"
  /\ RiskRestart
  /\ currentPrice' = Par /\ twapPrice' = Par
  /\ isRunning' = FALSE
  /\ rebalanceAge' = 0 /\ stabilizeAge' = 0
  /\ pc' = [w \in Callers |-> "idle"]
  /\ attempt' = [w \in Callers |-> 1]
  /\ side' = [w \in Callers |-> "none"]
  /\ expired' = [w \in Callers |-> FALSE]
  /\ tx' = [w \in Callers |-> "none"]
  /\ orphans' = AtMost(orphans + Cardinality({w \in Callers : tx[w] = "sent"}), MaxOrphans)
  /\ UNCHANGED swapAge

-----------------------------------------------------------------------------
\* External: the chain.
MineSwap(w) ==
  /\ tx[w] = "sent"
  /\ tx' = [tx EXCEPT ![w] = "mined"]
  /\ swapAge' = 0
  /\ UNCHANGED <<riskVars, priceVars, gateVars, workVars, orphans>>

RevertSwap(w) ==
  /\ tx[w] = "sent"
  /\ tx' = [tx EXCEPT ![w] = "reverted"]
  /\ UNCHANGED <<riskVars, priceVars, gateVars, workVars, orphans, swapAge>>

MineOrphan ==
  /\ orphans > 0
  /\ orphans' = orphans - 1
  /\ swapAge' = 0
  /\ UNCHANGED <<riskVars, priceVars, gateVars, workVars, tx>>

Tick ==
  /\ RiskTick
  /\ rebalanceAge' = Older(rebalanceAge, MaxAge)
  /\ stabilizeAge' = Older(stabilizeAge, MaxAge)
  /\ swapAge' = Older(swapAge, MaxAge)
  /\ UNCHANGED <<priceVars, isRunning, workVars, tx, orphans>>

\* The steps of a run that end by themselves: they touch the process's own
\* memory only, or ask the node under the run's context.
BoundedStep(w) ==
  \/ CheckRunning(w) \/ CheckInterval(w) \/ CheckDeviation(w)
  \/ AskRisk(w) \/ InCheck(w) \/ TakeAnswer(w)
  \/ CheckCooldown(w) \/ CheckBps(w)
  \/ ReadMarket(w) \/ FailMarket(w)
  \/ GetReceipt(w) \/ TimeOut(w)
  \/ Retry(w) \/ GiveUp(w)
  \/ StampStabilize(w) \/ StampRebalance(w)

\* A worker inside ExecuteRebalance takes its next step.
WorkerStep(w) == BoundedStep(w) \/ SendSwap(w) \/ FailSend(w)

Chain ==
  \/ MineOrphan
  \/ \E w \in Callers : MineSwap(w) \/ RevertSwap(w) \/ LoseReceipt(w)

Init == RiskInit /\ RebInit

Next ==
  \/ \E current \in Prices : UpdatePrices(current)
  \/ Start \/ Stop
  \/ \E w \in Callers : Begin(w, FALSE) \/ WorkerStep(w) \/ Return(w) \/ Expire(w)
  \/ Restart
  \/ Chain
  \/ Tick

Spec == Init /\ [][Next]_vars

-----------------------------------------------------------------------------
\* Two swaps are never mined within one cooldown (lines 142-145 read
\* lastStabilize, line 267 writes it a receipt later).
CooldownKept ==
  [][MineOrphan \/ (\E w \in Callers : MineSwap(w)) => swapAge >= Cooldown]_vars

\* Once no worker is between its two stamps, the interval's clock is never
\* behind the cooldown's: a stabilization also counts as a rebalance.
StampsOrdered ==
  StabilizationEnabled /\ (\A w \in Callers : pc[w] # "stampRebalance")
    => rebalanceAge <= stabilizeAge

\* A worker that was told to rebalance comes back, because the retries are
\* counted and every wait for a receipt ends at the context's deadline; the
\* one place that can hold it for ever is the send, which has no context
\* (lines 273-288 of pkg/executor/service.go).
RunsEnd ==
  \A w \in Callers :
    (pc[w] = "running" ~> pc[w] = "idle") \/ <>[](pc[w] = "send")

\* After a stop, workers already past the gate finish, and then no swap is
\* sent until the next start.
StopQuiesces == <>[](~isRunning) => <>[](\A w \in Callers : tx[w] = "none")
=============================================================================
