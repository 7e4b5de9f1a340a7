SPECIFICATION NumbersSpec
CONSTANTS
  SwapAmountBps = 1000
  MinSwapAmount = 3
  MaxSwapAmount = 8
  MaxSlippageBps = 1500
  IntLimit = 100
  MaxBalance = 240
  MaxGain = 3
  CoreRangeBps = 2
  MidRangeBps = 5
  TailRangeBps = 3
  Q = 100
  Num = 5
  Den = 4
  SqrtPrices <- MCSqrtPrices
  Liquidities = {0, 50}
  MaxTick = 4
  MetricPrices = {9970, 10000, 10101}
  Costs = {1, 2}
  Rates = {10, 11}
  MaxTotal = 3
  Q96 = 100
  Word = 80000
  Unit <- MCUnit
  VaultPrices <- MCVaultPrices
  VaultLiquidities <- MCLiquidities
  Thresholds <- MCThresholds
  Targets <- MCTargets
  VaultAmounts <- MCAmounts
  MaxReserve = 3
  c1 = c1
  c2 = c2
  Callers <- OneCaller
  Par = 10000
  RefPrice = 10000
  CircuitBreakerDeviationBps = 30
  CircuitBreakerDuration = 3
  MaxDailyLossBps = 5
  Prices <- MCPrices
  TwapPrices <- MCTwaps
  Losses <- MCLosses
  MaxTrades = 2
  MaxLoss = 6
INVARIANTS
  AmountsAreAmounts
CHECK_DEADLOCK FALSE
