# stablecoin-mmm: specifications, checks and proofs

TLA+ modules for the market-making bot of this repository and for the vault
contract it is deployed with, the TLC configurations that check them on small
instances, and theorems that the TLA+ proof system checks for every value of
the constants. `PROJECT.json` lists the runs, the mutants that show each
property can fail, the lines every definition stands for, the hazards and the
findings.

## 1. The system

### Components and their state

| component | code | state | operations |
|---|---|---|---|
| risk engine | `pkg/risk/engine.go` | breaker flag and start time, daily loss, trade counts | `CheckRisk`, `RecordTrade`, `RecordLoss`, `ResetDailyStats` |
| rebalancer | `pkg/rebalancer/service.go` | two prices, running flag, times of the last rebalance and stabilization | `UpdatePrices`, `ExecuteRebalance`, `Start`, `Stop` |
| executor | `pkg/executor/` | none of its own; the wallet's nonces and allowances on the chain | `ExecuteSwap`, `ApproveToken`, `CreatePool`, `AddLiquidity`, tier amounts |
| monitor | `pkg/monitor/service.go` | metrics, under a mutex | `Update*`, `CheckAlerts`, `GetMetrics` |
| oracle | `pkg/oracle`, `pkg/uniswap` | none | `GetPriceInfo`: the pool's price and a constant TWAP of 1.0 |
| bot | `main.go` | one context | three loops, start-up, signal, shutdown |
| API server | `pkg/api/service.go` | none | start, stop, rebalance; create-pool, add-liquidity, swap; reads |
| vault | `foundry-deploy/src/StabilizationVault.sol` | reserves, parameters, a breaker flag | deposit, withdraw, arbitrage, setters, emergency withdrawal |
| positions | `pkg/position/` | a map nothing fills | none is called |

Configuration, contract bindings (generated), the web page and the deployment
scripts keep no state while the bot runs.

### How they interact

    priceUpdateLoop --> Monitor.UpdatePrices, then Rebalancer.UpdatePrices
    rebalanceLoop   --> Rebalancer.ExecuteRebalance --> RiskEngine.CheckRisk
                                                    --> Executor.ExecuteSwap --> chain
                    --> Monitor.UpdateLastRebalance
    monitorLoop     --> RiskEngine.IsCircuitBreakerActive --> Rebalancer.Stop, Monitor.UpdateStatus
    POST /start, /stop --> Rebalancer.Start / Stop, Monitor.UpdateStatus
    POST /rebalance --> a goroutine in Rebalancer.ExecuteRebalance, with a context of its own
    SIGINT/SIGTERM  --> cancel the context, Rebalancer.Stop; the API goes on serving

All of them share the rebalancer and the risk engine, and neither has a lock.

### What is hard

* Interleaving: several goroutines run `ExecuteRebalance` and `CheckRisk` at
  once; every shared field is checked in one step and written in another.
* The chain: a swap that was sent is mined later or never, its receipt may be
  lost, and the retry repeats it.
* Deadlines: a context may expire between any two steps, and some calls have none: the pool is read
  (`pkg/uniswap/client.go` 98, 103, `pkg/executor/service.go` 118, 146) and swaps, mints and creations are sent
  (131-136, 181-201, 273-288) through bindings that are given no context, so a node that never answers holds them for ever.
* Waiting in circles: what resets the breaker runs only while the rebalancer
  runs, and the breaker stops the rebalancer.
* Two timers that gate one action, polled by a third.
* Crashes: nothing is persisted, so a process that starts again knows no trip, no stamp and
  none of the swaps it had sent.
* Reads that belong together and are made apart: the tiers are computed from three calls of a
  pool that others trade on, each of which may fail.
* Units: fractions, bps, per cents, ticks, base units, 64-bit words, whole-number prices.

`PROJECT.json` lists each as a hazard at its line.

### What makes each component correct

* Risk engine: a trip lasts for its duration and no longer than it must; no check is
  allowed while it lasts.
* Rebalancer: one swap per cooldown; every run ends; a stop quiets it; it buys
  below the peg and sells above it; it respects the breaker.
* Bot: a trip stops trading; a signal ends the loops; the metrics never show a rebalance that was not.
* Wallet: what is sent is covered by an allowance; answers are true; liquidity is added layer by layer.
* Swap size: within the wallet and the limits, as near the share as they let.
* Tiers: a pool that stands still is answered as in range; a wider tier holds no less; no amount is
  below zero.
* Metrics: the profit is not overstated.
* Vault: the books are explained; an arbitrage sells toward the target, past the
  threshold.

Not all of this is so: section 3 lists the runs that show where it is not, each next to a run of
what is left of the property.

## 2. The modules

| module | models | extends |
|---|---|---|
| `BreakerLatch` | what a circuit breaker promises (abstract) | |
| `RiskEngine` | the risk engine, one action per access to a shared field | |
| `Rebalancer` | `ExecuteRebalance` of any number of workers, the chain | `RiskEngine` |
| `Monitor` | the status and the time of the last rebalance, which the bot's goroutines write | `Rebalancer` |
| `Bot` | the loops, the signal and the handlers that steer them | `Monitor` |
| `SwapSizing` | the amounts of one swap | |
| `Wallet` | the requests that spend: their transactions, nonces and allowances | |
| `Tiers` | what the tiers are said to hold, and the tick arithmetic | |
| `Metrics` | all metrics and the profit | |
| `Vault` | the vault contract, its pool and its tokens | |
| `MC*` | constants for TLC; `MCNumbers` runs `SwapSizing`, `Tiers`, `Metrics`, `Vault` and `RiskEngine`, which share nothing there, side by side | |
| `*_proofs` | theorems | the module they are about |

### Risk engine

`CheckRisk` is a path through `BeginCheck`, then either `SetFlag`, `Stamp` or
`ReadFlag` and `StillActive` or `Elapsed`, `ClearFlag`, `ClearStart`, then
`CheckLimits`; `checkPc` says where each caller is. The steps follow the reads
and writes of `isCircuitBreaker` and `circuitBreakerStart` in
lines 50-111 and 155-163. A read of the start time that overlaps a write of it may
be torn (a `time.Time` is three words); `StartReads` lets it be any age then.

Times are ages, "how long ago", that stop counting at the longest duration they
are compared with. That keeps the state finite and changes no comparison; the
zero time is the oldest age. Prices are integers in units of `1/Par`, and a
comparison of two floats is the exact comparison of the rationals they stand for:
rounding errors of `float64` are not modelled.

`breachAge` is a history variable: the time since some caller last finished a trip.

### Rebalancer

`pc[w]` is where worker `w` is in `ExecuteRebalance`. Each read of a shared
field is one action (`CheckRunning`, `CheckInterval`, `CheckDeviation`, ...), and so
are both stamps. Steps of `doStabilization` between two such accesses are one
action: `ReadMarket` (the two balance calls and the second read of the price) and
`SendSwap`. The sleep before a retry and the two seconds between polls of a
receipt are time passing. The balance calls and the polls have the run's context; the sending has none and
need never come back, so a run may stay at `"send"`. `BoundedStep` is every step but that one.

The chain is external. `tx[w]` is the swap a worker waits for; one that is sent and
then given up becomes an orphan, which may still be mined. `swapAge`, a history variable,
is the time since a swap was last mined. `UpdatePrices` writes two fields in the
code; it is one action because the second always receives 1.0.

`ReceiptsArrive` states an assumption of a run, not a behaviour of the code: when it
is true, receipts are not lost, no run outlasts its 60 seconds and no crash hits a swap
in flight.

`Restart` is a crash and a new process, in a run that allows it (`Crashes`): engine and
rebalancer are as their constructors make them, both stamps are the time of the start,
every goroutine is gone, and the swaps they had sent are orphans. The chain, `orphans` and
`swapAge`, goes on as it was.

### Bot

A loop is its program counter: `pricePc`, `loopPc`, `monitorPc`. A ticker may fire whenever
its loop waits for it. The price loop reads the pool at `"fetch"`, a call without a deadline, keeps the answer in `fetched`
and gives it to the rebalancer in a step of its own (`PushPrice`); what the metrics are given along with it, and its conversion to a
`float64`, is left to `Metrics`. After a run that succeeded the rebalance loop reads the time of the last rebalance (`ReadRebalanceTime`, into
`reported`) and stores it once it has the monitor's lock (`StoreRebalanceTime`). `Signal` cancels the context, which also expires that of a run
of the rebalance loop but not that of a run the API started. The handlers of
`/start` and `/stop` take two steps, flag and status. Handlers run as long as the
process does; nothing shuts the API down. `BotRestart` ends the whole process at any
moment and starts it with new metrics, before `Launch`.

### SwapSizing

A state is the pair of balances of the wallet; a step is a swap, and the router pays
anything from the least amount accepted up, beyond par too (by `MaxGain`), as it does when the dear token is
sold. Balance and swap are one step: a swap that finds the balance spent meanwhile reverts, which is an outcome of
`Rebalancer` and `Wallet`. The share is computed from the
signed low word of the balance, as `Int64` does. The code computes with floats and in
units of a million; the model is exact and in base units.

### Wallet

A request is a sequence of steps (`Plan`): approvals and calls. `at[r]` is the step it is in and `pc[r]`
where in that step: looking at the chain, reading the nonce, sending, waiting. `ERC20.Approve` and the generated
bindings both read the pending nonce and then send, so every step has these two actions. `sent` holds the account's
transactions by nonce; a second one with a nonce that is not mined yet takes the place of the first (a node
demands a higher fee for that, which the model leaves open), and the first one's receipt never comes. Calls of the
chain may fail at any moment, which is also what a context that is done does to those that have one. `Unbounded` names the
calls that have none, those of the generated bindings: `GetPool` and what sends a swap, a mint or a creation. They may fail or
never come back. Approvals go through `erc20.go`, which hands the context on. The ratios are the per cents that
`int64(ratio*100)` leaves, 28 for 0.29. `disturbed` is a history variable: requests that were at work when a transaction of another
request of their kind, swaps or deposits, was mined, and whose allowances it may have changed. A request
ends as `answered`, with the results in `report`, or as `error`. The rebalancer's own swaps are requests of
this kind too; what it does with their outcome is in `Rebalancer`. When the swap or the creation was mined but
reverted, the handlers ask a result without an `Error` for its text and panic: `PanicOnRevert` ends the
request as `error`. `handleCreatePool` answers a revert that used less than 100000 gas before it comes to that, so
both ways are open to a creation.

### Tiers

`GetTierPositions` calls the pool for its liquidity, its tick and its price, in this order; `reading` says
which is next. Each call is answered or fails, and one that fails leaves a 0. In between, `MovePool` gives the pool
any other price and liquidity. `Held` is what the answer says of a tier. It is computed with
the code's own operations: `SqrtAt` raises 1.0001 to the whole tick, not to half of it as its comment says, rounding
down at each step, and takes the price of tick 0 for every negative tick; `Amounts` rounds down as `Div` does; `TickOf` cuts
towards zero, as `int32` does, while `PoolTick` rounds down, as the pool does. `uniswap.PriceToTick` cuts
as `TickOf`, and the executor's own `PriceToTick` rounds down as `PoolTick`.

A tick multiplies the price by `Num/Den` and square root prices are in units of `1/Q`. In the code these are
10001/10000 and 2^96; the logarithm of a float is the exact count of powers here, which `Exp` raises. Two assumptions,
which TLC evaluates for the run's constants, say how ticks and prices fit together. `PricesEnd`: no price is past the tick
after `MaxTick`, as no pool goes beyond the `MAX_SQRT_RATIO` of its `TickMath`. `FineScale`: one tick at price 1 is two units of `1/Q`
or more (2^96/10000 in the code), so that rounding down at each step never makes two ticks one.
`calm` is a history variable: no read of this request failed and the pool has not moved during it.

### Metrics

Every operation holds the mutex for all it does, so it is one action on one record. The running bot calls three
of those that write, `UpdatePrices` from the price loop and `UpdateStatus` and `UpdateLastRebalance` from several goroutines (`Monitor`); this module has them all, so that the figures computed from
the fields can be stated for any order of calls. The deviation is kept as the price it comes from, because it is
only ever compared. `FlagChanges` is the rebalancer being started or stopped, which the snapshot reads.

### Vault

A transaction is atomic, so each external call of the contract is one action, and a call
that reverts is no step. Fees and what the pool pays are the pool's business: an
arbitrage is paid any positive amount and the price moves any way its direction allows.
`amountInToReachTarget` walks over ticks, but the next initialized tick it asks for lies on
the other side of the price, so its first step always goes to the target with the liquidity
now in range; `AmountInToReach` is that step. `Sqrt` is `_sqrt` with its loop as a recursive function of the guess. The shift
by 192 bits in `_priceToSqrtPriceX96` drops the bits of a target from 2^64 on (`% Word`); `TargetFits` says of a target that none are
lost. The owner may set any target, but an arbitrage toward one that does not fit is left out: the walk may then lead the other way,
over many ticks. `drift` is a history variable: what
was sent to or taken from the vault without being booked.

### Names of the mutants

An operator whose comment begins with "Mutant of" is no part of the model. It is a plausible
mistake in the operator after it, and the run it is listed with fails when it takes that operator's place.

## 3. What is checked

Passing runs:

| run | instance | shows |
|---|---|---|
| `NumbersAll` | five modules of which one moves. `SwapSizing`: balances 0..240 around a word of 200. `Tiers`: 13 prices at ticks -4 to 2 and off them, tiers of 2, 3 and 5 ticks, any read may fail. `Metrics`: three prices, fees and costs of 1 and 2. `Vault`: up to 3 of each token, prices 0.98, 1, 1.51 and 4, thresholds 0 and 300, a target beyond the word. `RiskEngine`: one caller, 3 ticks of breaker, prices 31 bps off, 0 and 30, TWAPs 16 and 15 bps off, losses up to over the limit | `WalletCovers`, `NearestShare`, `SlippageKept`; `InRangeAtRest`, `NegativeExplained`, `WiderHoldsMore`; `ProfitNotOverstated`; `VaultTypeOK`, `BooksExplained`, `RootExact`, `SellsTowardTarget`; `RiskTypeOK`, `LatchHolds`, `LatchImplemented` (the engine implements `BreakerLatch`) and `BreakerReleases` |
| `BotSafe` | loops, signal, one request at a time, a second worker | `BotTypeOK`, `StampsOrdered`, `ReportNotAhead`, `NoNewSwapAfterCancel` |
| `BotExit` | loops, signal, crashes at any step, two attempts, receipts that are lost, a node that may never answer | `LoopsExit`, `RunsEnd`, `StopQuiesces` |
| `BotDefends` | loops, requests, cooldown 2 and interval 1, a price that breaches and one that only calls for a swap, a chain that serves the bot, crashes with no swap in flight | `CooldownKept`, `PegDefended`, `TripShown`, `TripStopsTrading` |
| `WalletShared` | any two of two swaps, an add-liquidity and a create-pool request; allowances left over 0 or 10 | `WalletTypeOK`, `FundedAlone`, `AnswersTrue`, `LayersInOrder`, `RequestsEnd` |

Runs that end in a violation, each a disagreement of the code with a sentence of the
repository (quoted under `findings`):

| run | property | the disagreement |
|---|---|---|
| `RiskShared` | `LatchHolds` | with two goroutines in `CheckRisk`, a reset lowers the flag another has just raised, and the trip is lost |
| `RebRetry` | `CooldownKept` | a lost receipt makes the retry swap twice |
| `BotSustained` | `SustainedDeviationTrips` | large deviations skip the risk check, so a lasting breach never trips the breaker |
| `BotReopens` | `BreakerReopens` | a tripped breaker stops the only code that resets it |
| `TiersNegative` | `AmountsAreAmounts` | under the peg a tier in range is answered to hold a negative amount of token1, where the comment has the whitepaper's formula |
| `VaultThreshold` | `ThresholdKept` | a price just under the target counts as 0, and an arbitrage is made within the threshold |
| `WalletFunded` | `Funded` | of two swaps that approve, of 21 and 1 units, the smaller one's approval lowers the allowance of the larger one |

Several properties come in pairs: a failing run shows what the code does not keep, a passing one what is left of it.

* `CooldownKept` passes in `BotDefends` and fails in `RebRetry`: it needs a chain that answers, and
  a single worker too, as two may pass the cooldown check before either has stamped its swap. `BotDefends` also shows why a restart
  may not begin with old stamps: it is because `NewRebalancer` stamps the start that no swap follows at once on one of the old process.
* `LatchHolds` passes with one caller in `NumbersAll` and fails with two in `RiskShared`.
* `BreakerReleases` says that the flag comes down once breaches stop, if calls of `CheckRisk` keep coming. The bot's own do not: `BreakerReopens` is
  what a reader of the README expects of the bot, and fails.
* `Funded` fails in `WalletFunded`. `FundedAlone` is the same for a request that no other one of its kind disturbed between its look at the
  allowance and its call, and passes for what else may differ: earlier requests' allowances, approvals that are skipped, layers, other kinds of request.
* `AmountsAreAmounts` fails in `TiersNegative`. `NegativeExplained` confines the damage: a price under 1 or a range above the price it was computed for.
* `ThresholdKept` fails in `VaultThreshold`. `SellsTowardTarget` shows that the whole-number price that is to blame still gets the direction right. That direction is the
  opposite of what the comment on lines 118-119 of the contract says (the finding quotes it). The comment describes `calculateSwapAmount`, which takes
  its minimum by it.

The models also follow the code where it parts from its comments in ways no run is spent on:
`ReadMarket` chooses the side of a swap from a newer price than the one that called for it,
`SwapVal` raises a swap to the minimum whatever share of the balance that is, `CalculateSwapAmount` takes as its minimum a unit of the token
that is bought, and the alert "exceeds circuit breaker" of `pkg/monitor/service.go` is given over 300 bps, while the breaker's threshold is 30.

### Bounds and why they are enough

* Durations are 1 to 3 ticks, enough for an age below, at and beyond each of them. Where two
  durations gate one action (`BotDefends`) they differ.
* Prices lie on both sides of every threshold and, for the risk engine in `NumbersAll`, on its two neighbouring bps.
* The bot runs two workers in `BotSafe` and `Wallet` two requests: each hazard here is between two goroutines.
* In `BotSafe` prices call for swaps and stay within the breaker's threshold; in `BotExit` they pass it;
  `BotDefends` has a price of either kind.
* `MaxRetries` is 2 in `BotExit`, so that a run repeats an attempt and gives up, and 1 in `BotSafe` and `BotDefends`; the code's is 3: only that it
  is finite matters. The proofs are for any number.
* A run crashes any number of times in `BotExit` and `BotDefends`. `BotSafe` and the failing runs do without crashes, to keep them small
  and the counterexamples short; the theorems on the bot are for both.
* `MaxOrphans` is 1: one swap nobody waits for is enough to be mined at the wrong time.
* Balances in `NumbersAll` reach beyond the word, below the minimum and above the maximum, and the
  share is the nearest of the three in some states and not in others. `MaxGain` is what a router pays beyond par, 3 units.
* In `NumbersAll` a tick multiplies the price by 5/4 and prices are in hundredths, so that a few ticks are far apart
  after rounding. The prices include 1, the exact prices of ticks on both sides of it, their neighbours, and prices beyond every
  tier. A tier of a single tick is left out by the properties, as it is not in range of itself below the peg.
* The vault's thresholds include 0, the only value for which a price within the target's whole
  number is traded. Square roots are in hundredths, and 99 is a price just under 1. The word is 8 whole prices: targets 0, 1, 2 and 7 fit,
  9 is cut to 1, as 2^64 + 1 is in the contract.
* `MaxTrades`, `MaxLoss`, `MaxTotal`, `MaxAge`, `MaxBalance`, `MaxReserve` cap counters; every one is named in its module.
* `MaxOpen` is 2 in `WalletShared`: every pair of kinds that contests a nonce or an allowance but two add-liquidity requests. Swaps are of 1 and 2 units
  there, so that one's approval lasts for the other's call, and of 1 and 21 in `WalletFunded`, where it does not. Theorem `AlwaysFundedAlone` is for
  any amounts and any number of either.

`NumbersAll` and `Wallet` run without the deadlock check: an empty wallet really swaps no more,
and a run of `Wallet` is over when its requests are answered.

### Fairness

Nothing is assumed of a call that has no deadline unless the run says so.

* `RiskFairSpec` (in `NumbersSpec`): a goroutine in `CheckRisk` runs on, and time passes. Nobody has to call; that calls keep coming is a premise of `BreakerReleases`.
* `BotFairSpec`: tickers tick and loops run, a run of the rebalancer takes its next step and comes back, a context with a timeout expires. Go's `select` picks among ready cases at
  random, so a loop whose context is done cannot take the ticker's case for ever: strong
  fairness of the three exits. No request and no signal ever has to come, no receipt and no crash. Two calls of the node have no
  context and need never return, the price loop's read (`"fetch"`) and the sending of a swap (`"send"`): `LoopsExit` and `RunsEnd` name them as the only places to be held in.
* `WalletFairSpec`: every request moves on while it can, but in the calls that `Unbounded` names, which may never return. `RequestsEnd`
  says that a request ends or stays in one of those.
* `BotServedSpec`, for `BotDefends`, `BotSustained` and `BotReopens`: besides, a node and a chain that
  serve the bot, whose price and balances can be read and whose swaps are sent and mined again and again. It makes
  the two counterexamples stronger, as the chain is not to blame for them.

## 4. What is proved

Theorems hold for every value of the constants that the modules' `ASSUME`s allow.

* `RiskTypeCorrect`, for any set of callers. `LatchHoldsAlone` and
  `LatchImplementedAlone`, for one caller. Their invariant `LatchInv` says what `LatchHolds`
  leaves out because it looks between calls only: in the middle of a trip the flag is up
  already and the start time is still the old one; in the middle of a reset the last trip is
  already older than the duration. Without the first part a step of `Stamp` could restore a
  flag that is down, without the second one of `ClearFlag` could lower it too early. The
  refinement maps the latch's remaining hold to the duration less `breachAge`, and each step
  of the engine to a trip, a tick, an answer or a stutter.
* `TypeCorrect`, for any set of workers, with and without crashes, from the risk engine's type lemmas.
* `StampsInOrder`, for any set of workers: a worker that has stamped the stabilization
  and not yet the rebalance is the only way to have the two stamps out of order, and
  `StampRebalance` ends it.
* `CooldownKeptAlone`, for one worker and a chain that answers: `CooldownInvariant` adds that past the
  cooldown check no swap is younger than the cooldown until one is sent, that the worker's
  swap is settled before its stamp, and that a swap younger than the stamp is
  still in the worker's hands. It is what lost receipts and second workers break. A crash keeps it, because the stamp of the
  new process is younger than any swap of the old one.
* `BotKeepsCooldownAlone`, the same for the whole bot, with its loops, requests and metrics: for one worker (so no `POST /rebalance`
  starts another), a chain that answers, and crashes or signals, but not both. A signal cancels the context of the
  run, which then gives a swap up that is still to be mined. `BotCooldownInv` says that there is one at most, that it is old enough when it is given up, and that no
  other is sent after it, because the context stays cancelled. Started again while that swap is under way, a bot may send a second
  one within the cooldown once the first is mined; TLC finds this when both are allowed.
* `BotHoldsLatchAlone` and `BotImplementsLatchAlone`, the latch in the whole bot for one worker: the invariant is
  `LatchInv` again, and every step of the bot is a step of a call of `CheckRisk`, time, a restart, or leaves the engine alone
  (`BotMovesLatch`). The refinement excludes crashes, as a new process forgets a trip before its time. `LatchHolds` does not: trip and
  flag are forgotten together.
* `BotTypeCorrect`, `ReportNeverAhead`, `NoSwapAfterCancel` and `StampsAlwaysInOrder`, for any number of
  workers and requests. One invariant, `BotInv`, carries them. `NoNewSwapAfterCancel` needs that a
  run of the loop under a cancelled context is an expired one, and that the loop works only while it is busy; the report
  needs that the time read and not stored yet (`reported`) is no later than the last rebalance either: it ages with the stamp it was read
  from, and another run's stamp in between only makes the rebalance younger (`ReportKept`). The rebalancer's actions keep what they kept on
  their own (`NextKeepsType`, `NextKeepsOrder`), and the bot's actions are shown to be those or to leave its state alone.
* `AmountInBounds`, `AmountOutMinBounds`, `WalletAlwaysCovers`, `SlippageAlwaysKept`: the
  arithmetic of a swap, from the facts that a remainder and a quotient are bounded. `ShareAlwaysNearest`, for every balance within the word, adds that a
  number confined to an interval is its nearest point (`ConfinedIsNearest`) and that what is sold is the share so confined (`ConfinedAmount`).
* `AlwaysInRangeAtRest`, whatever a tick is worth: reads of a pool that stands still agree with each other (`RestInv`), and the handler's
  tick is the pool's or the next one (`TickOfNearPool`). `LayersFitLowFees` is a
  fact about the constants of add-liquidity and the tick spacings.
* `NegativeAlwaysExplained` and `WiderAlwaysHoldsMore`, whatever a tick is worth, so for 10001/10000 and 2^96 too. They rest on `PowerRises`, that
  the loops give a higher tick a higher price although they round down at each step (here `FineScale` is needed), on `ReachesOneLess`, that a price
  which reaches a tick reaches every lower one, and on `UnderUpperEnd`, that a price in range lies below what the loops make of its upper
  end: halving is left out there, which errs on the safe side. The amounts then follow from `FractionRises` and `QuotientRises`.
* `ProfitNeverOverstated` is inductive with the types of the fields (`MetricsInv`): fees only help, and each cost recomputes the profit.
* `SplitWithinTotal`: three rounded-down shares make no more than the sum of their per cents of an amount, and less than three units short of it, whatever that
  sum is. Nothing in the code makes it 100.
* `AnswersAlwaysTrue`, for any number of requests: a mined transaction is never replaced, because one is
  only sent with a nonce beyond those that are mined, and a receipt is looked up by what was sent.
* `LayersAlwaysInOrder`, from the same facts and `PassedMined`: a mint step that a request has left behind is a mint of its own among those that are mined.
* `AlwaysFundedAlone`, for any number of requests, amounts and deposits, and whatever allowances there are at first. `PlacesInv` says where a request is in its plan and that
  it sent each step once; `EarlierMined`, that the steps before a call were mined or found unnecessary; `StepsFunded`, what is on the allowance at each step of an undisturbed
  request: after an approval what it was asked for (twice that when it was sent, at least that when it was skipped), which for a swap is ten times its
  amount (`SwapCovered`), and in a deposit, whose layers take their own amounts, the next layer's. Transactions of other kinds of request go to another spender or to none.
* `WalletTypeCorrect`, for any number of requests: a busy request is in a step of its plan and every transaction that was sent
  is one (`WalletInv`), so what is mined has a whole amount (`PlanShape`, `MiningStep`), and as a call is mined only when it is
  covered, no allowance falls below 0.
* `VaultBooksKept`: the types of the vault and `BooksExplained` together are inductive. `VaultTypeCorrect` is its first half.
* `ArbitrageSellsTowardTarget`: a rounded-down quotient that differs from an integer compares with it
  as the exact one does (`QuotientOrder`), and when they are equal the deviation is 0, so the threshold is.

* `TargetRootExact`, for every target whose shift loses no bits: Newton's steps from any guess above the root stay above or at it and fall until they are there (`NewtonStep`), so the loop of `_sqrt`
  ends at the root rounded down (`SqrtRoot`), of any number.

Two of these proofs need an induction: over the powers of a tick and over the guesses of `_sqrt`. The schemes of the library take a predicate as
a parameter, which the provers here cannot instantiate; the proofs state them of sets instead (`SetInduction`, `LeastNatural`: a set of
naturals that is not empty has a least member).

Only model-checked: everything with liveness, `RunsEnd`, `StopQuiesces`, `LoopsExit`, `TripStopsTrading`, `TripShown`, `PegDefended`,
`BreakerReleases` and `RequestsEnd`, which rest on fairness and so on `ENABLED`, which the prover does not treat.

## 5. What is not modelled

* Generated bindings: 6972 of the repository's 10016 lines of Go are `pkg/contracts`, five files that abigen writes, one wrapper
  for each method of a contract. They hold no decision of this program. What the program gets from them is the external part
  of `Wallet`, `Rebalancer`, `Tiers` and `Vault`. Of the rest, about 3000 lines, the modules cover the ones that change state or compute.
* Read-only handlers, `CheckAlerts`, which only computes messages, logging, the web page, configuration (read once, its values are constants) and deployment (run by hand).
* Operations that no running code calls and that keep nothing: `CheckTradeSize`, `CalculateRanges`, `CalculateTickRange`, `QuoteSwap`, `TickToPrice`, and
  `handleCreatePool` and `handleAddLiquidity` of `main.go`, of which each sends one transaction. `RecordTrade`,
  `RecordLoss`, `ResetDailyStats` and half of the monitor are never called either, but change what other code
  reads and are modelled.
* Positions: nothing fills the map of `pkg/position/service.go` and nothing creates the manager of `pkg/position/manager.go`.
* Rounding of `float64`, also where `main.go` 343 turns the pool's `big.Float` into one for the metrics: comparisons and logarithms are exact.
* Wrap-around of `int32` for ticks: pool ticks stay within 887272 of 0 and the ranges within 10000 of that.

## 6. Plan

Done: all modules of section 2 and the proofs above.

Next proofs: every invariant and action property of the runs is stated by a theorem. What is left is to weaken hypotheses: `LatchHolds` for
many workers of which only one may be past a breach, and the steps of the
liveness arguments that need no fairness (what a busy worker's measure of remaining steps does).

Next modules, if the code grows to need them: an abstract account (a queue of transactions, each with one outcome)
that `Wallet` implements, and `Rebalancer` over `Wallet`, so that a retry contests nonces and allowances with the API.
