SPECIFICATION WalletFairSpec
CONSTANTS
  s1 = s1
  s2 = s2
  d1 = d1
  p1 = p1
  Swaps <- MCSwaps
  Deposits <- MCDeposits
  Creations <- MCCreations
  TokenIn <- MCTokenIn
  AmountIn <- MCAmountIn
  Total <- MCTotal
  CoreRatio = 60
  MidRatio = 30
  TailRatio = 10
  StartAllowances <- MCAllowances
  MaxOpen = 2
INVARIANTS
  WalletTypeOK
  FundedAlone
  AnswersTrue
  LayersInOrder
PROPERTIES
  RequestsEnd
CHECK_DEADLOCK FALSE
