SPECIFICATION WalletSpec
CONSTANTS
  s1 = s1
  s2 = s2
  d1 = d1
  p1 = p1
  Swaps <- MCSwaps
  Deposits <- MCDeposits
  Creations <- MCCreations
  TokenIn <- MCTokenIn
  AmountIn <- FarAmounts
  Total <- MCTotal
  CoreRatio = 60
  MidRatio = 30
  TailRatio = 10
  StartAllowances = {0}
  MaxOpen = 2
INVARIANT
  Funded
CHECK_DEADLOCK FALSE
