----------------------------- MODULE Vault_proofs -----------------------------
(***************************************************************************)
(* The vault's books, the direction of its arbitrage and its square root,  *)
(* for every token unit, price, liquidity and sequence of calls.           *)
(***************************************************************************)
EXTENDS Vault, WellFoundedInduction, TLAPS

\* The types in three parts: what a call of the vault does not touch it leaves.
BookTypeOK ==
  /\ reserve \in [Tokens -> 0..MaxReserve]
  /\ balance \in [Tokens -> 0..MaxReserve]
  /\ drift \in [Tokens -> Int]

OwnerTypeOK ==
  /\ rebalanceThresholdBps \in 0..1000
  /\ targetPrice \in Nat
  /\ circuitBreakerActive \in BOOLEAN

PoolTypeOK == sqrtPriceX96 \in Nat \ {0} /\ poolLiquidity \in Nat

\* The type invariant has three parts.
LEMMA TypeParts == VaultTypeOK <=> BookTypeOK /\ OwnerTypeOK /\ PoolTypeOK
BY DEF VaultTypeOK, BookTypeOK, OwnerTypeOK, PoolTypeOK

\* A rounded-down quotient that differs from a number compares with it as the
\* exact one does.
LEMMA QuotientOrder ==
  ASSUME NEW x \in Nat, NEW d \in Nat \ {0}, NEW t \in Nat
  PROVE  /\ x \div d > t => x > t * d
         /\ x \div d < t => x < t * d
<1> DEFINE k == x \div d
<1>1. k \in Nat /\ k * d <= x /\ x < k * d + d
  OBVIOUS
<1> HIDE DEF k
<1>2. ASSUME k > t PROVE x > t * d
  <2>1. PICK m \in Nat : k = t + 1 + m
    <3>1. k - t - 1 \in Nat /\ k = t + 1 + (k - t - 1)
      BY <1>1, <1>2
    <3> QED
      BY <3>1
  <2>2. k * d = t * d + d + m * d /\ m * d \in Nat /\ t * d \in Nat
    BY <2>1
  <2> QED
    BY <1>1, <2>2
<1>3. ASSUME k < t PROVE x < t * d
  <2>1. PICK m \in Nat : t = k + 1 + m
    <3>1. t - k - 1 \in Nat /\ t = k + 1 + (t - k - 1)
      BY <1>1, <1>3
    <3> QED
      BY <3>1
  <2>2. t * d = k * d + d + m * d /\ m * d \in Nat /\ k * d \in Nat
    BY <1>1, <2>1
  <2> QED
    BY <1>1, <2>2
<1> QED
  BY <1>2, <1>3 DEF k

-----------------------------------------------------------------------------
\* The books stay explained: reserves and balances part only by direct
\* transfers and emergency withdrawals, and every arbitrage rejoins them.
VaultInv == VaultTypeOK /\ BooksExplained

\* A new vault keeps its books.
LEMMA VaultInvInit == VaultInit => VaultInv
<1> SUFFICES ASSUME VaultInit
             PROVE  VaultInv
  OBVIOUS
<1> USE VaultAssumption DEF VaultAssumption, VaultInit
<1>1. BookTypeOK
  BY DEF BookTypeOK
<1>2. OwnerTypeOK
  <2>1. rebalanceThresholdBps \in 0..1000 /\ targetPrice \in Nat
    OBVIOUS
  <2>2. circuitBreakerActive \in BOOLEAN
    OBVIOUS
  <2> QED
    BY <2>1, <2>2 DEF OwnerTypeOK
<1>3. PoolTypeOK
  BY DEF PoolTypeOK
<1>4. BooksExplained
  BY DEF BooksExplained
<1> QED
  BY <1>1, <1>2, <1>3, <1>4, TypeParts DEF VaultInv

\* Balances, reserves and drifts that are given token by token.
LEMMA BooksPointwise ==
  ASSUME NEW b, NEW r, NEW d,
         balance' = [t \in Tokens |-> b[t]],
         reserve' = [t \in Tokens |-> r[t]],
         drift' = [t \in Tokens |-> d[t]],
         \A t \in Tokens : /\ b[t] \in 0..MaxReserve
                           /\ r[t] \in 0..MaxReserve
                           /\ d[t] \in Int
                           /\ r[t] + d[t] = b[t]
  PROVE  BookTypeOK' /\ BooksExplained'
<1>1. BookTypeOK'
  BY DEF BookTypeOK
<1>2. BooksExplained'
  BY DEF BooksExplained
<1> QED
  BY <1>1, <1>2

\* A call that moves tokens keeps the books.
LEMMA BooksKept ==
  ASSUME VaultInv, VaultNext
  PROVE  BookTypeOK' /\ BooksExplained'
<1>a. VaultAmounts \subseteq Nat /\ MaxReserve \in Nat
  BY VaultAssumption DEF VaultAssumption
<1>b. /\ balance = [t \in Tokens |-> balance[t]]
      /\ reserve = [t \in Tokens |-> reserve[t]]
      /\ drift = [t \in Tokens |-> drift[t]]
  BY TypeParts DEF VaultInv, BookTypeOK
<1>c. \A t \in Tokens : /\ balance[t] \in 0..MaxReserve
                        /\ reserve[t] \in 0..MaxReserve
                        /\ drift[t] \in Int
                        /\ reserve[t] + drift[t] = balance[t]
  BY TypeParts DEF VaultInv, BookTypeOK, BooksExplained
<1>1. ASSUME NEW amount \in [Tokens -> VaultAmounts], Deposit(amount)
      PROVE  BookTypeOK' /\ BooksExplained'
  <2> DEFINE b == [t \in Tokens |-> balance[t] + amount[t]]
             r == [t \in Tokens |-> reserve[t] + amount[t]]
  <2>1. \A t \in Tokens : amount[t] \in Nat
    BY <1>a
  <2>2. balance' = [t \in Tokens |-> b[t]] /\ reserve' = [t \in Tokens |-> r[t]]
    BY <1>1 DEF Deposit
  <2>3. drift' = [t \in Tokens |-> drift[t]]
    BY <1>b, <1>1 DEF Deposit
  <2>4. \A t \in Tokens : b[t] \in 0..MaxReserve /\ r[t] \in 0..MaxReserve
                            /\ r[t] + drift[t] = b[t]
    BY <1>a, <1>c, <1>1, <2>1 DEF Deposit
  <2> HIDE DEF b, r
  <2> QED
    BY <1>c, <2>2, <2>3, <2>4, BooksPointwise
<1>2. ASSUME NEW amount \in [Tokens -> VaultAmounts], Withdraw(amount)
      PROVE  BookTypeOK' /\ BooksExplained'
  <2> DEFINE b == [t \in Tokens |-> balance[t] - amount[t]]
             r == [t \in Tokens |-> reserve[t] - amount[t]]
  <2>1. \A t \in Tokens : amount[t] \in Nat
    BY <1>a
  <2>2. balance' = [t \in Tokens |-> b[t]] /\ reserve' = [t \in Tokens |-> r[t]]
    BY <1>2 DEF Withdraw
  <2>3. drift' = [t \in Tokens |-> drift[t]]
    BY <1>b, <1>2 DEF Withdraw
  <2>4. \A t \in Tokens : b[t] \in 0..MaxReserve /\ r[t] \in 0..MaxReserve
                            /\ r[t] + drift[t] = b[t]
    BY <1>a, <1>c, <1>2, <2>1 DEF Withdraw
  <2> HIDE DEF b, r
  <2> QED
    BY <1>c, <2>2, <2>3, <2>4, BooksPointwise
<1>3. ASSUME ExecuteArbitrage
      PROVE  BookTypeOK' /\ BooksExplained'
  <2>1. TokenIn \in Tokens /\ 1 - TokenIn \in Tokens
    BY DEF TokenIn, Tokens
  <2> DEFINE amountIn == CalculateSwapAmount
  <2>2. amountIn \in Nat /\ amountIn <= balance[TokenIn]
    BY <1>3, <1>c, <2>1 DEF ExecuteArbitrage
  <2>3. PICK amountOut \in VaultAmounts :
          /\ balance[1 - TokenIn] + amountOut <= MaxReserve
          /\ Book([t \in Tokens |-> IF t = TokenIn THEN balance[t] - amountIn
                                                   ELSE balance[t] + amountOut])
    BY <1>3 DEF ExecuteArbitrage
  <2> HIDE DEF amountIn
  <2> DEFINE b == [t \in Tokens |-> IF t = TokenIn THEN balance[t] - amountIn
                                                   ELSE balance[t] + amountOut]
             d == [t \in Tokens |-> 0]
  <2>4. /\ balance' = [t \in Tokens |-> b[t]]
        /\ reserve' = [t \in Tokens |-> b[t]]
        /\ drift' = [t \in Tokens |-> d[t]]
    BY <2>3 DEF Book
  <2>5. ASSUME NEW t \in Tokens PROVE b[t] \in 0..MaxReserve /\ b[t] + d[t] = b[t]
    <3>1. CASE t = TokenIn
      BY <1>a, <1>c, <2>2, <3>1
    <3>2. CASE t # TokenIn
      <4>1. t = 1 - TokenIn
        BY <2>1, <3>2 DEF Tokens
      <4> QED
        BY <1>a, <1>c, <2>3, <3>2, <4>1
    <3> QED
      BY <3>1, <3>2
  <2>6. \A t \in Tokens : d[t] \in Int
    OBVIOUS
  <2> HIDE DEF b, d
  <2> QED
    BY <2>4, <2>5, <2>6, BooksPointwise
<1>4. ASSUME NEW t \in Tokens, NEW signed \in Int,
             balance[t] + signed \in 0..MaxReserve,
             balance' = [balance EXCEPT ![t] = @ + signed],
             drift' = [drift EXCEPT ![t] = @ + signed],
             UNCHANGED reserve
      PROVE  BookTypeOK' /\ BooksExplained'
  <2> DEFINE b == [s \in Tokens |-> IF s = t THEN balance[s] + signed ELSE balance[s]]
             d == [s \in Tokens |-> IF s = t THEN drift[s] + signed ELSE drift[s]]
  <2>1. balance' = [s \in Tokens |-> b[s]] /\ drift' = [s \in Tokens |-> d[s]]
    BY <1>b, <1>4
  <2>2. reserve' = [s \in Tokens |-> reserve[s]]
    BY <1>b, <1>4
  <2>3. \A s \in Tokens : b[s] \in 0..MaxReserve /\ d[s] \in Int /\ reserve[s] + d[s] = b[s]
    BY <1>c, <1>4
  <2> HIDE DEF b, d
  <2> QED
    BY <1>c, <2>1, <2>2, <2>3, BooksPointwise
<1>5. ASSUME NEW t \in Tokens, NEW amount \in VaultAmounts, EmergencyWithdraw(t, amount)
      PROVE  BookTypeOK' /\ BooksExplained'
  <2>1. 0 - amount \in Int /\ balance[t] + (0 - amount) \in 0..MaxReserve
    BY <1>a, <1>c, <1>5 DEF EmergencyWithdraw
  <2>2. balance[t] - amount = balance[t] + (0 - amount)
          /\ drift[t] - amount = drift[t] + (0 - amount)
    BY <1>a, <1>c
  <2>3. /\ balance' = [balance EXCEPT ![t] = @ + (0 - amount)]
        /\ drift' = [drift EXCEPT ![t] = @ + (0 - amount)]
    BY <1>5, <2>2 DEF EmergencyWithdraw
  <2> QED
    BY <1>4, <1>5, <2>1, <2>3 DEF EmergencyWithdraw
<1>6. ASSUME NEW t \in Tokens, NEW amount \in VaultAmounts, Receive(t, amount)
      PROVE  BookTypeOK' /\ BooksExplained'
  <2>1. amount \in Int /\ balance[t] + amount \in 0..MaxReserve
    BY <1>a, <1>c, <1>6 DEF Receive
  <2> QED
    BY <1>4, <1>6, <2>1 DEF Receive
<1>7. ASSUME UNCHANGED bookVars
      PROVE  BookTypeOK' /\ BooksExplained'
  BY <1>7, TypeParts DEF VaultInv, bookVars, BookTypeOK, BooksExplained
<1> QED
  BY <1>1, <1>2, <1>3, <1>5, <1>6, <1>7
     DEF VaultNext, SetCircuitBreaker, SetRebalanceThresholdBps, SetTargetPrice, Trade

\* No call puts the owner's parameters or the pool outside their types.
LEMMA ParametersKept ==
  ASSUME VaultInv, VaultNext
  PROVE  OwnerTypeOK' /\ PoolTypeOK'
<1> USE VaultAssumption DEF VaultAssumption
<1>0. OwnerTypeOK /\ PoolTypeOK
  BY TypeParts DEF VaultInv
<1>1. ASSUME UNCHANGED <<ownerVars, vaultPoolVars>>
      PROVE  OwnerTypeOK' /\ PoolTypeOK'
  BY <1>0, <1>1 DEF ownerVars, vaultPoolVars, OwnerTypeOK, PoolTypeOK
<1>2. ASSUME UNCHANGED ownerVars, sqrtPriceX96' \in VaultPrices, poolLiquidity' \in VaultLiquidities
      PROVE  OwnerTypeOK' /\ PoolTypeOK'
  BY <1>0, <1>2 DEF ownerVars, OwnerTypeOK, PoolTypeOK
<1>3. ASSUME NEW active \in BOOLEAN, SetCircuitBreaker(active)
      PROVE  OwnerTypeOK' /\ PoolTypeOK'
  BY <1>0, <1>3 DEF SetCircuitBreaker, vaultPoolVars, OwnerTypeOK, PoolTypeOK
<1>4. ASSUME NEW bps \in Thresholds, SetRebalanceThresholdBps(bps)
      PROVE  OwnerTypeOK' /\ PoolTypeOK'
  BY <1>0, <1>4 DEF SetRebalanceThresholdBps, vaultPoolVars, OwnerTypeOK, PoolTypeOK
<1>5. ASSUME NEW price \in Targets, SetTargetPrice(price)
      PROVE  OwnerTypeOK' /\ PoolTypeOK'
  BY <1>0, <1>5 DEF SetTargetPrice, vaultPoolVars, OwnerTypeOK, PoolTypeOK
<1> QED
  BY <1>1, <1>2, <1>3, <1>4, <1>5
     DEF VaultNext, Deposit, Withdraw, ExecuteArbitrage, EmergencyWithdraw, Receive, Trade

\* Every behaviour of the vault keeps its types and its books.
THEOREM VaultBooksKept == VaultSpec => []VaultTypeOK /\ []BooksExplained
<1>1. VaultInv /\ [VaultNext]_vaultVars => VaultInv'
  <2>1. ASSUME VaultInv, VaultNext PROVE VaultInv'
    BY <2>1, BooksKept, ParametersKept, TypeParts
       DEF VaultInv, VaultTypeOK, BookTypeOK, OwnerTypeOK, PoolTypeOK
  <2>2. ASSUME VaultInv, UNCHANGED vaultVars PROVE VaultInv'
    BY <2>2 DEF VaultInv, VaultTypeOK, BooksExplained,
                vaultVars, ownerVars, bookVars, vaultPoolVars
  <2> QED
    BY <2>1, <2>2
<1>2. VaultInv => VaultTypeOK /\ BooksExplained
  BY DEF VaultInv
<1> QED
  BY VaultInvInit, <1>1, <1>2, PTL DEF VaultSpec

\* In particular the vault keeps its types.
THEOREM VaultTypeCorrect == VaultSpec => []VaultTypeOK
  BY VaultBooksKept, PTL

\* The whole-number price is enough to get the direction of an arbitrage right.
THEOREM ArbitrageSellsTowardTarget == VaultSpec => SellsTowardTarget
<1> DEFINE Toward ==
      ExecuteArbitrage =>
        IF TokenIn = 0 THEN sqrtPriceX96 * sqrtPriceX96 > targetPrice * Q96 * Q96
        ELSE rebalanceThresholdBps > 0 => sqrtPriceX96 * sqrtPriceX96 < targetPrice * Q96 * Q96
<1>1. VaultTypeOK => Toward
  <2> SUFFICES ASSUME VaultTypeOK, ExecuteArbitrage
               PROVE  IF TokenIn = 0 THEN sqrtPriceX96 * sqrtPriceX96 > targetPrice * Q96 * Q96
                      ELSE rebalanceThresholdBps > 0
                             => sqrtPriceX96 * sqrtPriceX96 < targetPrice * Q96 * Q96
    OBVIOUS
  <2> DEFINE x == sqrtPriceX96 * sqrtPriceX96
             d == Q96 * Q96
  <2>1. x \in Nat /\ d \in Nat \ {0} /\ targetPrice * Q96 * Q96 = targetPrice * d
    BY VaultAssumption DEF VaultAssumption, VaultTypeOK
  <2>2. targetPrice \in Nat \ {0} /\ rebalanceThresholdBps \in Nat
    BY DEF VaultTypeOK, ExecuteArbitrage
  <2>3. CurrentPrice = x \div d
    BY DEF CurrentPrice
  <2> HIDE DEF x, d
  <2>4. CurrentPrice \in Nat
    BY <2>1, <2>3
  <2>5. CASE CurrentPrice > targetPrice
    BY <2>1, <2>2, <2>3, <2>5, QuotientOrder DEF TokenIn, x
  <2>6. CASE CurrentPrice < targetPrice
    BY <2>1, <2>2, <2>3, <2>4, <2>6, QuotientOrder DEF TokenIn, x
  <2>7. CASE CurrentPrice = targetPrice
    <3>1. DeviationBps = 0
      BY <2>2, <2>7 DEF DeviationBps, Apart
    <3>2. rebalanceThresholdBps = 0
      BY <2>2, <3>1 DEF ExecuteArbitrage
    <3> QED
      BY <2>2, <2>7, <3>2 DEF TokenIn
  <2> QED
    BY <2>2, <2>4, <2>5, <2>6, <2>7
<1>2. VaultTypeOK /\ [VaultNext]_vaultVars => [Toward]_vaultVars
  BY <1>1
<1> QED
  BY <1>2, VaultBooksKept, PTL DEF VaultSpec, SellsTowardTarget

-----------------------------------------------------------------------------
\* A set of natural numbers with a member has a least one.
LEMMA LeastNatural ==
  ASSUME NEW S, S \subseteq Nat, S # {}
  PROVE  \E n \in S : \A m \in S : n <= m
<1> DEFINE R == OpToRel(<, Nat)
<1>1. IsWellFoundedOn(R, Nat)
  BY NatLessThanWellFounded
<1>2. \A m, n \in Nat : m < n => <<m, n>> \in R
  BY DEF OpToRel
<1> HIDE DEF R
<1>3. PICK n \in S : \A m \in S : ~ (<<m, n>> \in R)
  BY <1>1, WFMin
<1>4. ASSUME NEW m \in S PROVE n <= m
  <2>1. m \in Nat /\ n \in Nat /\ ~ (m < n)
    BY <1>2, <1>3
  <2> QED
    BY <2>1
<1> QED
  BY <1>4

\* Every number has an integer square root.
LEMMA RootExists ==
  ASSUME NEW x \in Nat \ {0}
  PROVE  \E r \in Nat \ {0} : r * r <= x /\ x < (r + 1) * (r + 1)
<1> DEFINE S == {n \in Nat : x < (n + 1) * (n + 1)}
<1>1. x \in S
  <2>1. x * x \in Nat /\ (x + 1) * (x + 1) = x * x + 2 * x + 1
    OBVIOUS
  <2> QED
    BY <2>1
<1>2. PICK r \in S : \A m \in S : r <= m
  BY <1>1, LeastNatural
<1>3. r \in Nat \ {0} /\ x < (r + 1) * (r + 1)
  <2>1. 0 \notin S
    OBVIOUS
  <2> QED
    BY <2>1
<1>4. r * r <= x
  <2>1. r - 1 \in Nat /\ r - 1 \notin S
    BY <1>2, <1>3
  <2>2. ~ (x < ((r - 1) + 1) * ((r - 1) + 1))
    BY <2>1
  <2>3. (r - 1) + 1 = r /\ r * r \in Nat
    BY <1>3
  <2> QED
    BY <2>2, <2>3
<1> QED
  BY <1>3, <1>4

\* One step of Newton's iteration for the square root of x, whose integer root
\* is r: down from above r and never below it; up from r and below.
LEMMA NewtonStep ==
  ASSUME NEW x \in Nat \ {0}, NEW r \in Nat \ {0}, r * r <= x, x < (r + 1) * (r + 1),
         NEW y \in Nat \ {0}
  PROVE  LET z == ((x \div y) + y) \div 2
         IN  /\ z \in Nat
             /\ y > r => z >= r /\ z < y
             /\ y <= r => z >= y
<1> DEFINE k == x \div y
<1>1. k \in Nat /\ k * y <= x /\ x < k * y + y
  OBVIOUS
<1>2. ASSUME NEW m \in Nat, m * y <= x PROVE m <= k
  <2> SUFFICES ASSUME m > k PROVE FALSE
    BY <1>1
  <2>1. PICK j \in Nat : m = k + 1 + j
    <3>1. m - k - 1 \in Nat /\ m = k + 1 + (m - k - 1)
      BY <1>1
    <3> QED
      BY <3>1
  <2>2. m * y = k * y + y + j * y /\ j * y \in Nat /\ k * y \in Nat
    BY <1>1, <2>1
  <2> QED
    BY <1>1, <1>2, <2>2
<1>3. ASSUME y <= r PROVE k >= y
  <2>1. PICK j \in Nat : r = y + j
    <3>1. r - y \in Nat /\ r = y + (r - y)
      BY <1>3
    <3> QED
      BY <3>1
  <2>2. r * r = y * y + j * y + j * r /\ j * y \in Nat /\ j * r \in Nat /\ y * y \in Nat
    BY <2>1
  <2>3. y * y <= x
    BY <2>2
  <2> QED
    BY <1>2, <2>3
<1>4. ASSUME y > r PROVE k < y /\ k + y >= r + r
  <2>1. PICK j \in Nat : y = r + 1 + j
    <3>1. y - r - 1 \in Nat /\ y = r + 1 + (y - r - 1)
      BY <1>4
    <3> QED
      BY <3>1
  <2>2. k < y
    <3> SUFFICES ASSUME k >= y PROVE FALSE
      BY <1>1
    <3>1. PICK i \in Nat : k = y + i
      <4>1. k - y \in Nat /\ k = y + (k - y)
        BY <1>1
      <4> QED
        BY <4>1
    <3>2. k * y = y * y + i * y /\ i * y \in Nat /\ y * y \in Nat
      BY <3>1
    <3>3. y * y = (r + 1) * (r + 1) + j * (r + 1) + j * y /\ j * (r + 1) \in Nat /\ j * y \in Nat
      BY <2>1
    <3> QED
      BY <1>1, <3>2, <3>3
  <2>3. CASE r + r < y
    BY <1>1, <2>3
  <2>4. CASE r + r >= y
    <3>1. r + r - y \in Nat /\ (r + r - y) * y + (j + 1) * (j + 1) = r * r
      <4>1. r + r - y = r - (j + 1) /\ y = r + (j + 1)
        BY <2>1
      <4>2. \A a, b \in Int : (a - b) * (a + b) + b * b = a * a
        OBVIOUS
      <4>3. (r - (j + 1)) * (r + (j + 1)) + (j + 1) * (j + 1) = r * r
        BY <4>2
      <4> QED
        BY <2>4, <4>1, <4>3
    <3>2. (j + 1) * (j + 1) \in Nat /\ (r + r - y) * y \in Int
      BY <2>1
    <3>3. (r + r - y) * y <= x
      BY <3>1, <3>2
    <3>4. r + r - y <= k
      BY <1>2, <3>1, <3>3
    <3> QED
      BY <1>1, <2>2, <3>4
  <2> QED
    BY <2>2, <2>3, <2>4
<1> HIDE DEF k
<1>5. (k + y) \div 2 \in Nat /\ (y <= r => (k + y) \div 2 >= y)
      /\ (y > r => (k + y) \div 2 >= r /\ (k + y) \div 2 < y)
  BY <1>1, <1>3, <1>4
<1> QED
  BY <1>5 DEF k

\* What _sqrt returns: Newton's iteration started anywhere over the integer
\* root ends at it.
LEMMA SqrtRoot ==
  ASSUME NEW x \in Nat \ {0}
  PROVE  /\ Sqrt(x) \in Nat
         /\ Sqrt(x) * Sqrt(x) <= x
         /\ x < (Sqrt(x) + 1) * (Sqrt(x) + 1)
<1> DEFINE D == Nat \ {0}
           z(y) == ((x \div y) + y) \div 2
           Newton(g) == g = [y \in D |-> IF z(y) < y THEN g[z(y)] ELSE y]
<1>1. PICK r \in D : r * r <= x /\ x < (r + 1) * (r + 1)
  BY RootExists
<1>2. \A y \in D : /\ z(y) \in Nat
                   /\ y > r => z(y) >= r /\ z(y) < y
                   /\ y <= r => z(y) >= y
  BY <1>1, NewtonStep
<1>0. Sqrt(x) = (CHOOSE g : Newton(g))[x]
  BY Zenon DEF Sqrt
<1> HIDE DEF z
<1>3. \E g : Newton(g)
  <2> DEFINE W == [y \in D |-> IF y >= r THEN r ELSE y]
  <2>1. ASSUME NEW y \in D PROVE W[y] = IF z(y) < y THEN W[z(y)] ELSE y
    BY <1>2
  <2>2. Newton(W)
    BY <2>1
  <2> QED
    BY <2>2
<1>4. ASSUME NEW g, Newton(g) PROVE \A y \in D : y >= r => g[y] = r
  <2> DEFINE Bad == {y \in D : y >= r /\ g[y] # r}
  <2> SUFFICES ASSUME Bad # {} PROVE FALSE
    OBVIOUS
  <2>1. PICK y \in Bad : \A m \in Bad : y <= m
    BY LeastNatural
  <2>2. g[y] = IF z(y) < y THEN g[z(y)] ELSE y
    BY <1>4, <2>1
  <2>3. CASE y = r
    BY <1>2, <2>1, <2>2, <2>3
  <2>4. CASE y > r
    <3>1. z(y) \in D /\ z(y) >= r /\ z(y) < y
      BY <1>2, <2>1, <2>4
    <3>2. z(y) \notin Bad
      BY <2>1, <3>1
    <3> QED
      BY <2>1, <2>2, <3>1, <3>2
  <2> QED
    BY <2>1, <2>3, <2>4
<1>5. x >= r
  <2>1. PICK m \in Nat : r = m + 1
    <3>1. r - 1 \in Nat /\ r = (r - 1) + 1
      OBVIOUS
    <3> QED
      BY <3>1
  <2>2. r * r = m * m + m + r /\ m * m \in Nat
    BY <2>1
  <2> QED
    BY <1>1, <2>1, <2>2
<1>6. Sqrt(x) = r
  <2> DEFINE f == CHOOSE g : Newton(g)
  <2>1. Newton(f)
    BY <1>3, Zenon
  <2> HIDE DEF f
  <2>2. f[x] = r
    BY <1>4, <1>5, <2>1
  <2> QED
    BY <1>0, <2>2 DEF f
<1> QED
  BY <1>1, <1>6

\* For every target below 2^64 the square root that calculateSwapAmount aims at
\* is exact, never a unit off: the shift keeps all bits and _sqrt ends at the
\* integer root.
THEOREM TargetRootExact == VaultSpec => []RootExact
<1>1. ASSUME VaultTypeOK PROVE RootExact
  <2> DEFINE x == targetPrice * Q96 * Q96
  <2> SUFFICES ASSUME x < Word PROVE RootExact
    BY DEF RootExact, TargetFits
  <2>1. x \in Nat
    BY <1>1, VaultAssumption DEF VaultAssumption, VaultTypeOK
  <2> HIDE DEF x
  <2>4. x % Word = x
    BY <2>1, VaultAssumption DEF VaultAssumption
  <2>5. TargetSqrtPrice = Sqrt(x)
    BY <2>4 DEF TargetSqrtPrice, x
  <2>2. CASE x = 0
    <3>1. Sqrt(x) = 0
      BY <2>2 DEF Sqrt
    <3> QED
      BY <2>2, <2>5, <3>1 DEF RootExact, x
  <2>3. CASE x # 0
    BY <2>1, <2>3, <2>5, SqrtRoot DEF RootExact, x
  <2> QED
    BY <2>2, <2>3
<1> QED
  BY <1>1, VaultTypeCorrect, PTL
=============================================================================
