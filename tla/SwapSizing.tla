------------------------------ MODULE SwapSizing ------------------------------
(***************************************************************************)
(* How much one stabilization swap sells, and the least it accepts for it  *)
(* (doStabilization in pkg/rebalancer/service.go): a share of the wallet's *)
(* balance, raised to a minimum, capped by a maximum and by the balance.   *)
(* Amounts are in the tokens' base units; floats are exact rationals.      *)
(***************************************************************************)
EXTENDS Integers

CONSTANTS
  SwapAmountBps,    \* stabilization.swap_amount_bps
  MinSwapAmount,    \* stabilization.min_swap_amount
  MaxSwapAmount,    \* stabilization.max_swap_amount
  MaxSlippageBps,   \* execution.max_slippage_bps
  IntLimit,         \* 2^63: where big.Int's Int64 turns negative
  MaxBalance,       \* bound: what the wallet may hold of a token
  MaxGain           \* bound: how much more than par a swap may pay

ASSUME SizingAssumption ==
  /\ SwapAmountBps \in 0..10000
  /\ MinSwapAmount \in Nat
  /\ MaxSwapAmount \in Nat
  /\ MaxSlippageBps \in 0..10000
  /\ IntLimit \in Nat \ {0}
  /\ MaxBalance \in Nat
  /\ MaxGain \in Nat

VARIABLES balance0, balance1   \* the wallet's tokens

sizingVars == <<balance0, balance1>>

Balances == 0..MaxBalance

Lesser(a, b) == IF a <= b THEN a ELSE b
Greater(a, b) == IF a >= b THEN a ELSE b

\* The low word of a balance, as a signed number.
Int64(n) ==
  LET word == n % (2 * IntLimit) IN IF word < IntLimit THEN word ELSE word - 2 * IntLimit

Share(available) == (available * SwapAmountBps) \div 10000

\* Mutant of SwapVal: the balance does not cap the amount.
SwapValUncapped(available) ==
  Lesser(Greater(Share(available), MinSwapAmount), MaxSwapAmount)

\* Mutant of SwapVal: the minimum is not applied.
SwapValUnraised(available) == Lesser(Lesser(Share(available), MaxSwapAmount), available)

SwapVal(available) ==
  Lesser(Lesser(Greater(Share(available), MinSwapAmount), MaxSwapAmount), available)

\* What is sold of a balance; nothing is when it is not positive.
AmountIn(balance) == SwapVal(Int64(balance))

\* Mutant of AmountOutMin: the slippage itself is accepted, not what it leaves.
AmountOutMinOfSlippage(amountIn) == (amountIn * MaxSlippageBps) \div 10000

AmountOutMin(amountIn) == (amountIn * (10000 - MaxSlippageBps)) \div 10000

SizingInit == balance0 \in Balances /\ balance1 \in Balances

\* External: the router takes what is sold and pays any amount from the least
\* accepted up, more than par too when the dear token is sold; a swap that
\* would pay less reverts and moves nothing.
Payouts(sold) == AmountOutMin(sold)..(sold + MaxGain)

\* The price is over the peg: token0, the stablecoin, is sold.
SellToken0 ==
  LET sold == AmountIn(balance0) IN
    /\ sold > 0
    /\ balance0' = balance0 - sold
    /\ \E out \in Payouts(sold) :
         balance1 + out <= MaxBalance /\ balance1' = balance1 + out

\* The price is at the peg or under it: token1 is sold.
SellToken1 ==
  LET sold == AmountIn(balance1) IN
    /\ sold > 0
    /\ balance1' = balance1 - sold
    /\ \E out \in Payouts(sold) :
         balance0 + out <= MaxBalance /\ balance0' = balance0 + out

SizingNext == SellToken0 \/ SellToken1

SizingSpec == SizingInit /\ [][SizingNext]_sizingVars

-----------------------------------------------------------------------------
\* Whatever the balance, the low word of it included, the wallet is never
\* asked for more than it holds (lines 213-224 and 231-241).
WalletCovers == balance0 \in Balances /\ balance1 \in Balances

\* Of the amounts that the two limits and the balance allow, a swap sells the
\* one nearest to its share; a balance under the minimum is sold whole (the
\* order of lines 215-223).
Allowed(b) == Lesser(MinSwapAmount, b)..Lesser(MaxSwapAmount, b)

NearestShare ==
  \A b \in {balance0, balance1} :
    b < IntLimit /\ MinSwapAmount <= MaxSwapAmount
      => /\ AmountIn(b) \in Allowed(b)
         /\ \A n \in Allowed(b) :
              LET far(x) == IF x < Share(b) THEN Share(b) - x ELSE x - Share(b)
              IN far(AmountIn(b)) <= far(n)

\* What a step sells, and what it costs the wallet, both tokens being at par.
Sold == IF balance0' < balance0 THEN balance0 - balance0' ELSE balance1 - balance1'
Cost == balance0 + balance1 - (balance0' + balance1')

\* A swap costs the wallet at most the configured slippage of what it sells,
\* rounded up to a unit (lines 250-253).
SlippageKept == [][Cost * 10000 < Sold * MaxSlippageBps + 10000]_sizingVars
=============================================================================
