--------------------------------- MODULE Vault ---------------------------------
(***************************************************************************)
(* foundry-deploy/src/StabilizationVault.sol.  Every call is a transaction *)
(* of the owner, so an action is a whole call, and a call that reverts is  *)
(* no step.  The pool, the router and the tokens are external: the pool's  *)
(* price and liquidity are whatever other traders make them, and anybody   *)
(* may send the vault tokens.                                              *)
(***************************************************************************)
EXTENDS Integers

CONSTANTS
  Q96,              \* 2^96: the pool's square-root price at price 1
  Word,             \* 2^256: where a uint256 starts again at 0
  Unit,             \* 10 ** decimals of each token
  VaultPrices,      \* square-root prices the pool may be at
  VaultLiquidities, \* liquidity the pool may have in range
  Thresholds,       \* thresholds the owner may set, in bps
  Targets,          \* target prices the owner may set
  VaultAmounts,     \* amounts of a call or a payout
  MaxReserve        \* bound: what the vault may hold, or book, of a token

Tokens == {0, 1}

ASSUME VaultAssumption ==
  /\ Q96 \in Nat \ {0}
  /\ Word \in Nat \ {0}
  /\ Unit \in [Tokens -> Nat \ {0}]
  /\ VaultPrices \subseteq Nat \ {0}
  /\ VaultLiquidities \subseteq Nat
  /\ Thresholds \subseteq 0..1000
  /\ Targets \subseteq Nat
  /\ VaultAmounts \subseteq Nat
  /\ MaxReserve \in Nat

VARIABLES
  reserve,                 \* reserve0 and reserve1
  rebalanceThresholdBps,
  targetPrice,
  circuitBreakerActive,
  balance,                 \* external: the vault's balance of each token
  sqrtPriceX96, poolLiquidity, \* external: the pool
  drift                    \* history: tokens that came and went unbooked

ownerVars == <<rebalanceThresholdBps, targetPrice, circuitBreakerActive>>
bookVars == <<reserve, balance, drift>>
vaultPoolVars == <<sqrtPriceX96, poolLiquidity>>
vaultVars == <<ownerVars, bookVars, vaultPoolVars>>

VaultTypeOK ==
  /\ reserve \in [Tokens -> 0..MaxReserve]
  /\ balance \in [Tokens -> 0..MaxReserve]
  /\ drift \in [Tokens -> Int]
  /\ rebalanceThresholdBps \in 0..1000
  /\ targetPrice \in Nat
  /\ circuitBreakerActive \in BOOLEAN
  /\ sqrtPriceX96 \in Nat \ {0}
  /\ poolLiquidity \in Nat

-----------------------------------------------------------------------------
\* Mutant of Sqrt: one Newton step at most.
SqrtOnce(x) ==
  LET z == (x + 1) \div 2 IN IF x = 0 THEN 0 ELSE IF z < x THEN z ELSE x

\* _sqrt: Newton's iteration from x, whose first estimate is (x + 1) \div 2.
Sqrt(x) ==
  LET newton[y \in Nat \ {0}] ==
        LET z == ((x \div y) + y) \div 2 IN IF z < y THEN newton[z] ELSE y
  IN  IF x = 0 THEN 0 ELSE newton[x]

\* The pool's price as the vault sees it: a whole number.
CurrentPrice == (sqrtPriceX96 * sqrtPriceX96) \div (Q96 * Q96)

Apart(p, q) == IF p > q THEN p - q ELSE q - p

\* Mutant of DeviationBps: the price is not cut here, as it is for the direction.
DeviationBpsExact ==
  (Apart(sqrtPriceX96 * sqrtPriceX96, targetPrice * Q96 * Q96) * 10000)
    \div (targetPrice * Q96 * Q96)

DeviationBps == (Apart(CurrentPrice, targetPrice) * 10000) \div targetPrice

\* _priceToSqrtPriceX96: the shift drops the bits that do not fit a word.
TargetSqrtPrice == Sqrt((targetPrice * Q96 * Q96) % Word)

\* The target is below 2^64, so that none are dropped.
TargetFits == targetPrice * Q96 * Q96 < Word

CeilDiv(a, b) == (a + b - 1) \div b

\* amountInToReachTarget.  The next tick always lies on the far side of the
\* price from the target, so the first step of its loop goes all the way, with
\* the liquidity that is in range now.
AmountInToReach(s, t) ==
  IF t > s THEN CeilDiv(poolLiquidity * (t - s), Q96)
  ELSE CeilDiv(CeilDiv(poolLiquidity * Q96 * (s - t), s), t)

\* calculateSwapAmount: a target over the price takes the unit of token0.
CalculateSwapAmount ==
  LET amount == AmountInToReach(sqrtPriceX96, TargetSqrtPrice)
      least == IF targetPrice > CurrentPrice THEN Unit[0] ELSE Unit[1]
  IN  IF amount < least THEN least ELSE amount

-----------------------------------------------------------------------------
\* The constructor; rebalanceThresholdBps and targetPrice have initial values.
VaultInit ==
  /\ reserve = [t \in Tokens |-> 0]
  /\ balance = [t \in Tokens |-> 0]
  /\ drift = [t \in Tokens |-> 0]
  /\ rebalanceThresholdBps = 20
  /\ targetPrice = 1
  /\ circuitBreakerActive = FALSE
  /\ sqrtPriceX96 \in VaultPrices
  /\ poolLiquidity \in VaultLiquidities

Deposit(amount) ==
  /\ \E t \in Tokens : amount[t] > 0
  /\ \A t \in Tokens :
       balance[t] + amount[t] <= MaxReserve /\ reserve[t] + amount[t] <= MaxReserve
  /\ balance' = [t \in Tokens |-> balance[t] + amount[t]]
  /\ reserve' = [t \in Tokens |-> reserve[t] + amount[t]]
  /\ UNCHANGED <<drift, ownerVars, vaultPoolVars>>

\* Mutant of Withdraw: the reserves are not asked.
WithdrawUnchecked(amount) ==
  /\ \E t \in Tokens : amount[t] > 0
  /\ \A t \in Tokens : amount[t] <= balance[t]
  /\ balance' = [t \in Tokens |-> balance[t] - amount[t]]
  /\ reserve' = [t \in Tokens |-> reserve[t] - amount[t]]
  /\ UNCHANGED <<drift, ownerVars, vaultPoolVars>>

\* A transfer of more than the balance reverts the whole call.
Withdraw(amount) ==
  /\ \E t \in Tokens : amount[t] > 0
  /\ \A t \in Tokens : amount[t] <= reserve[t] /\ amount[t] <= balance[t]
  /\ balance' = [t \in Tokens |-> balance[t] - amount[t]]
  /\ reserve' = [t \in Tokens |-> reserve[t] - amount[t]]
  /\ UNCHANGED <<drift, ownerVars, vaultPoolVars>>

\* The token executeArbitrage sells.
TokenIn == IF CurrentPrice > targetPrice THEN 0 ELSE 1

\* Mutant of Book: the two balances are booked the wrong way round.
BookSwapped(holdings) ==
  /\ balance' = holdings
  /\ reserve' = [t \in Tokens |-> holdings[1 - t]]
  /\ drift' = [t \in Tokens |-> 0]

\* The balances after the swap become the reserves.
Book(holdings) ==
  /\ balance' = holdings
  /\ reserve' = holdings
  /\ drift' = [t \in Tokens |-> 0]

\* executeArbitrage; a target of 0 is a division by zero.  The router sells
\* all of amountIn for any positive amount and the pool's price follows.
\* Limit of the model: towards a target that does not fit, the amount may be
\* that of a walk over many ticks, which is left out.
ExecuteArbitrage ==
  /\ ~circuitBreakerActive
  /\ targetPrice > 0
  /\ TargetFits
  /\ DeviationBps >= rebalanceThresholdBps
  /\ poolLiquidity > 0
  /\ TargetSqrtPrice # sqrtPriceX96
  /\ CalculateSwapAmount \in Nat \ {0}
  /\ balance[TokenIn] >= CalculateSwapAmount
  /\ \E amountOut \in VaultAmounts \ {0} :
       /\ balance[1 - TokenIn] + amountOut <= MaxReserve
       /\ Book([t \in Tokens |-> IF t = TokenIn THEN balance[t] - CalculateSwapAmount
                                               ELSE balance[t] + amountOut])
  /\ sqrtPriceX96' \in {s \in VaultPrices :
                         IF TokenIn = 0 THEN s <= sqrtPriceX96 ELSE s >= sqrtPriceX96}
  /\ poolLiquidity' \in VaultLiquidities
  /\ UNCHANGED ownerVars

SetCircuitBreaker(active) ==
  /\ circuitBreakerActive' = active
  /\ UNCHANGED <<rebalanceThresholdBps, targetPrice, bookVars, vaultPoolVars>>

SetRebalanceThresholdBps(bps) ==
  /\ bps <= 1000
  /\ rebalanceThresholdBps' = bps
  /\ UNCHANGED <<targetPrice, circuitBreakerActive, bookVars, vaultPoolVars>>

SetTargetPrice(price) ==
  /\ targetPrice' = price
  /\ UNCHANGED <<rebalanceThresholdBps, circuitBreakerActive, bookVars, vaultPoolVars>>

\* emergencyWithdraw does not touch the reserves.
EmergencyWithdraw(t, amount) ==
  /\ amount <= balance[t]
  /\ balance' = [balance EXCEPT ![t] = @ - amount]
  /\ drift' = [drift EXCEPT ![t] = @ - amount]
  /\ UNCHANGED <<reserve, ownerVars, vaultPoolVars>>

\* External: somebody sends the vault tokens.
Receive(t, amount) ==
  /\ balance[t] + amount <= MaxReserve
  /\ balance' = [balance EXCEPT ![t] = @ + amount]
  /\ drift' = [drift EXCEPT ![t] = @ + amount]
  /\ UNCHANGED <<reserve, ownerVars, vaultPoolVars>>

\* External: others trade in the pool.
Trade ==
  /\ sqrtPriceX96' \in VaultPrices
  /\ poolLiquidity' \in VaultLiquidities
  /\ UNCHANGED <<ownerVars, bookVars>>

VaultNext ==
  \/ \E amount \in [Tokens -> VaultAmounts] : Deposit(amount) \/ Withdraw(amount)
  \/ ExecuteArbitrage
  \/ \E active \in BOOLEAN : SetCircuitBreaker(active)
  \/ \E bps \in Thresholds : SetRebalanceThresholdBps(bps)
  \/ \E price \in Targets : SetTargetPrice(price)
  \/ \E t \in Tokens, amount \in VaultAmounts : EmergencyWithdraw(t, amount) \/ Receive(t, amount)
  \/ Trade

VaultSpec == VaultInit /\ [][VaultNext]_vaultVars

-----------------------------------------------------------------------------
\* The books differ from the balances only by what was sent to the vault or
\* taken out in an emergency since the last arbitrage (lines 270-279).
BooksExplained == \A t \in Tokens : reserve[t] + drift[t] = balance[t]

\* The whole-number price never turns an arbitrage against the peg: token0 is
\* sold only over the target and, unless the threshold is 0, token1 only under
\* it (lines 240-248).  It is the opposite of what lines 118-119 say, by which
\* calculateSwapAmount takes its minimum.
SellsTowardTarget ==
  [][ExecuteArbitrage =>
       IF TokenIn = 0 THEN sqrtPriceX96 * sqrtPriceX96 > targetPrice * Q96 * Q96
       ELSE rebalanceThresholdBps > 0
              => sqrtPriceX96 * sqrtPriceX96 < targetPrice * Q96 * Q96]_vaultVars

\* No arbitrage is made while the pool's price is nearer to the target than the
\* threshold, which line 244 refuses as "Price deviation below threshold".
ThresholdKept ==
  [][ExecuteArbitrage =>
       Apart(sqrtPriceX96 * sqrtPriceX96, targetPrice * Q96 * Q96) * 10000
         >= rebalanceThresholdBps * targetPrice * Q96 * Q96]_vaultVars

\* The square-root price an arbitrage aims at is that of the target rounded
\* down, for every target that fits (lines 220-233).
RootExact ==
  LET r == TargetSqrtPrice
      x == targetPrice * Q96 * Q96
  IN  TargetFits => r * r <= x /\ x < (r + 1) * (r + 1)
=============================================================================
