--------------------------- MODULE SwapSizing_proofs ---------------------------
(***************************************************************************)
(* The bounds of a swap's size, for every configuration and every balance. *)
(***************************************************************************)
EXTENDS SwapSizing, TLAPS

\* A remainder is at most what is divided, and is it when that is small.
LEMMA Remainder ==
  ASSUME NEW n \in Nat, NEW d \in Nat \ {0}
  PROVE  /\ n % d \in 0..n
         /\ n % d < d
         /\ n < d => n % d = n
<1>1. n = d * (n \div d) + (n % d) /\ n % d \in 0..(d - 1) /\ n \div d \in Nat
  OBVIOUS
<1>2. d * (n \div d) \in Nat
  BY <1>1
<1>3. n < d => n \div d = 0
  BY <1>1
<1> QED
  BY <1>1, <1>2, <1>3

\* The signed low word of a balance is at most the balance, and is the balance
\* up to the limit.
LEMMA Int64Bounds ==
  ASSUME NEW n \in Nat
  PROVE  /\ Int64(n) \in Int
         /\ Int64(n) <= n
         /\ n < IntLimit => Int64(n) = n
<1> USE SizingAssumption DEF SizingAssumption
<1>1. 2 * IntLimit \in Nat \ {0}
  OBVIOUS
<1>2. n % (2 * IntLimit) \in 0..n /\ (n < 2 * IntLimit => n % (2 * IntLimit) = n)
  BY <1>1, Remainder
<1> QED
  BY <1>2 DEF Int64

\* The share of an available balance is a number.
LEMMA ShareIsInt ==
  ASSUME NEW a \in Int
  PROVE  Share(a) \in Int
<1>1. a * SwapAmountBps \in Int
  BY SizingAssumption DEF SizingAssumption
<1> QED
  BY <1>1 DEF Share

\* What is sold never exceeds the balance or the configured maximum.
THEOREM AmountInBounds ==
  ASSUME NEW n \in Nat
  PROVE  AmountIn(n) \in Int /\ AmountIn(n) <= n /\ AmountIn(n) <= MaxSwapAmount
<1> USE SizingAssumption DEF SizingAssumption
<1>1. Int64(n) \in Int /\ Int64(n) <= n /\ Share(Int64(n)) \in Int
  BY Int64Bounds, ShareIsInt
<1> QED
  BY <1>1 DEF AmountIn, SwapVal, Lesser, Greater

\* The least accepted is no more than what is sold, and is short of it by the
\* slippage and less than a unit.
THEOREM AmountOutMinBounds ==
  ASSUME NEW a \in Nat
  PROVE  /\ AmountOutMin(a) \in 0..a
         /\ (a - AmountOutMin(a)) * 10000 < a * MaxSlippageBps + 10000
<1> USE SizingAssumption DEF SizingAssumption
<1> DEFINE p == a * (10000 - MaxSlippageBps)
           q == a * MaxSlippageBps
<1>1. p \in Nat /\ q \in Nat /\ p = a * 10000 - q
  OBVIOUS
<1>2. AmountOutMin(a) = p \div 10000
  BY DEF AmountOutMin
<1> HIDE DEF p, q
<1>3. p \div 10000 \in Nat /\ (p \div 10000) * 10000 <= p /\ p < (p \div 10000) * 10000 + 10000
  BY <1>1
<1>4. AmountOutMin(a) \in 0..a
  BY <1>1, <1>2, <1>3
<1>5. (a - AmountOutMin(a)) * 10000 < q + 10000
  BY <1>1, <1>2, <1>3
<1> QED
  BY <1>4, <1>5 DEF q

\* The wallet always covers what it is asked to sell, whatever the low word
\* of a balance is read as.
THEOREM WalletAlwaysCovers == SizingSpec => []WalletCovers
<1>1. SizingInit => WalletCovers
  BY DEF SizingInit, WalletCovers
<1>2. WalletCovers /\ [SizingNext]_sizingVars => WalletCovers'
  <2> SUFFICES ASSUME WalletCovers, [SizingNext]_sizingVars
               PROVE  WalletCovers'
    OBVIOUS
  <2> USE SizingAssumption DEF SizingAssumption, WalletCovers, Balances
  <2>1. ASSUME NEW b \in Balances, AmountIn(b) > 0
        PROVE  /\ AmountIn(b) \in Nat
               /\ AmountIn(b) <= b
               /\ Payouts(AmountIn(b)) \subseteq Nat
    <3>1. AmountIn(b) \in Nat /\ AmountIn(b) <= b
      BY <2>1, AmountInBounds
    <3>2. AmountOutMin(AmountIn(b)) \in Nat
      BY <3>1, AmountOutMinBounds
    <3> QED
      BY <3>1, <3>2 DEF Payouts
  <2>2. CASE SellToken0
    BY <2>1, <2>2 DEF SellToken0
  <2>3. CASE SellToken1
    BY <2>1, <2>3 DEF SellToken1
  <2>4. CASE UNCHANGED sizingVars
    BY <2>4 DEF sizingVars
  <2> QED
    BY <2>2, <2>3, <2>4 DEF SizingNext
<1> QED
  BY <1>1, <1>2, PTL DEF SizingSpec

\* No swap costs the wallet more than the slippage of what it sells and a unit.
THEOREM SlippageAlwaysKept == SizingSpec => SlippageKept
<1> DEFINE Kept == Cost * 10000 < Sold * MaxSlippageBps + 10000
<1>1. WalletCovers /\ WalletCovers' /\ SizingNext => Kept
  <2> SUFFICES ASSUME WalletCovers, WalletCovers', SizingNext
               PROVE  Kept
    OBVIOUS
  <2>0. balance0 \in Nat /\ balance1 \in Nat /\ balance0' \in Nat /\ balance1' \in Nat
    BY SizingAssumption DEF SizingAssumption, WalletCovers, Balances
  <2> USE <2>0, SizingAssumption DEF SizingAssumption
  <2>1. CASE SellToken0
    <3> DEFINE a == AmountIn(balance0)
    <3>1. a \in Nat /\ a > 0
      BY <2>1, AmountInBounds DEF SellToken0
    <3>2. PICK out \in Payouts(a) : balance1' = balance1 + out
      BY <2>1 DEF SellToken0
    <3>3. balance0' = balance0 - a
      BY <2>1 DEF SellToken0
    <3> HIDE DEF a
    <3>4. AmountOutMin(a) \in 0..a /\ (a - AmountOutMin(a)) * 10000 < a * MaxSlippageBps + 10000
      BY <3>1, AmountOutMinBounds
    <3>5. out \in Nat /\ AmountOutMin(a) <= out
      BY <3>1, <3>2, <3>4 DEF Payouts
    <3>6. Sold = a
      BY <3>1, <3>2, <3>3, <3>5 DEF Sold
    <3>7. Cost = a - out
      BY <3>1, <3>2, <3>3, <3>5 DEF Cost
    <3> DEFINE q == a * MaxSlippageBps
    <3>8. q \in Nat
      BY <3>1
    <3>9. (a - AmountOutMin(a)) * 10000 < q + 10000
      BY <3>4
    <3> HIDE DEF q
    <3>10. (a - out) * 10000 < q + 10000
      BY <3>1, <3>4, <3>5, <3>8, <3>9
    <3> QED
      BY <3>6, <3>7, <3>10 DEF q
  <2>2. CASE SellToken1
    <3> DEFINE a == AmountIn(balance1)
    <3>1. a \in Nat /\ a > 0
      BY <2>2, AmountInBounds DEF SellToken1
    <3>2. PICK out \in Payouts(a) : balance0' = balance0 + out
      BY <2>2 DEF SellToken1
    <3>3. balance1' = balance1 - a
      BY <2>2 DEF SellToken1
    <3> HIDE DEF a
    <3>4. AmountOutMin(a) \in 0..a /\ (a - AmountOutMin(a)) * 10000 < a * MaxSlippageBps + 10000
      BY <3>1, AmountOutMinBounds
    <3>5. out \in Nat /\ AmountOutMin(a) <= out
      BY <3>1, <3>2, <3>4 DEF Payouts
    <3>6. Sold = a
      BY <3>1, <3>2, <3>3, <3>5 DEF Sold
    <3>7. Cost = a - out
      BY <3>1, <3>2, <3>3, <3>5 DEF Cost
    <3> DEFINE q == a * MaxSlippageBps
    <3>8. q \in Nat
      BY <3>1
    <3>9. (a - AmountOutMin(a)) * 10000 < q + 10000
      BY <3>4
    <3> HIDE DEF q
    <3>10. (a - out) * 10000 < q + 10000
      BY <3>1, <3>4, <3>5, <3>8, <3>9
    <3> QED
      BY <3>6, <3>7, <3>10 DEF q
  <2> QED
    BY <2>1, <2>2 DEF SizingNext
<1>2. WalletCovers /\ WalletCovers' /\ [SizingNext]_sizingVars => [Kept]_sizingVars
  BY <1>1
<1> QED
  BY <1>2, WalletAlwaysCovers, PTL DEF SizingSpec, SlippageKept
\* An amount that is confined to an interval is the nearest one in it.
LEMMA ConfinedIsNearest ==
  ASSUME NEW share \in Int, NEW low \in Int, NEW high \in Int, low <= high,
         NEW n \in low..high
  PROVE  LET x == Lesser(Greater(share, low), high)
             far(m) == IF m < share THEN share - m ELSE m - share
         IN  x \in low..high /\ far(x) <= far(n)
  BY DEF Lesser, Greater

\* A share is no more than what it is a share of.
LEMMA ShareWithin ==
  ASSUME NEW a \in Nat
  PROVE  Share(a) \in Nat /\ Share(a) <= a
<1> DEFINE s == SwapAmountBps
<1>1. s \in 0..10000
  BY SizingAssumption DEF SizingAssumption
<1>2. a * s \in Nat /\ a * s <= a * 10000
  BY <1>1
<1>3. Share(a) = (a * s) \div 10000
  BY DEF Share
<1> HIDE DEF s
<1> QED
  BY <1>2, <1>3

\* What is sold of a balance within the word is its share, confined to the
\* limits and the balance.
LEMMA ConfinedAmount ==
  ASSUME NEW b \in Nat, b < IntLimit, MinSwapAmount <= MaxSwapAmount
  PROVE  AmountIn(b) =
           Lesser(Greater(Share(b), Lesser(MinSwapAmount, b)), Lesser(MaxSwapAmount, b))
<1> USE SizingAssumption DEF SizingAssumption
<1>1. Int64(b) = b /\ Share(b) \in Nat /\ Share(b) <= b
  BY Int64Bounds, ShareWithin
<1> QED
  BY <1>1 DEF AmountIn, SwapVal, Lesser, Greater

\* Of the amounts the limits and the balance allow, a swap always sells the one
\* nearest to its share.
THEOREM ShareAlwaysNearest == SizingSpec => []NearestShare
<1>1. WalletCovers => NearestShare
  <2> SUFFICES ASSUME WalletCovers, NEW b \in {balance0, balance1},
                      b < IntLimit, MinSwapAmount <= MaxSwapAmount,
                      NEW n \in Allowed(b)
               PROVE  LET far(x) == IF x < Share(b) THEN Share(b) - x ELSE x - Share(b)
                      IN  AmountIn(b) \in Allowed(b) /\ far(AmountIn(b)) <= far(n)
    <3>1. ASSUME WalletCovers, NEW b \in {balance0, balance1},
                 MinSwapAmount <= MaxSwapAmount
          PROVE  Lesser(MinSwapAmount, b) \in Allowed(b)
      BY <3>1, SizingAssumption DEF SizingAssumption, WalletCovers, Balances, Allowed, Lesser
    <3> QED
      BY <3>1 DEF NearestShare
  <2> DEFINE low == Lesser(MinSwapAmount, b)
             high == Lesser(MaxSwapAmount, b)
  <2>1. b \in Nat
    BY SizingAssumption DEF SizingAssumption, WalletCovers, Balances
  <2>2. Share(b) \in Int /\ AmountIn(b) = Lesser(Greater(Share(b), low), high)
    BY <2>1, ConfinedAmount, ShareWithin
  <2>3. low \in Int /\ high \in Int /\ low <= high /\ n \in low..high
    BY <2>1, SizingAssumption DEF SizingAssumption, Allowed, Lesser
  <2> HIDE DEF low, high
  <2>4. LET far(m) == IF m < Share(b) THEN Share(b) - m ELSE m - Share(b)
        IN  AmountIn(b) \in low..high /\ far(AmountIn(b)) <= far(n)
    BY <2>2, <2>3, ConfinedIsNearest
  <2> QED
    BY <2>4 DEF Allowed, low, high
<1> QED
  BY <1>1, WalletAlwaysCovers, PTL
=============================================================================
