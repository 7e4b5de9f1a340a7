SPECIFICATION Spec
CONSTANTS
  w1 = w1
  Callers <- OneWorker
  Par = 10000
  RefPrice = 10000
  CircuitBreakerDeviationBps = 30
  CircuitBreakerDuration = 2
  MaxDailyLossBps = 50
  Prices <- MCPrices
  TwapPrices <- MCTwaps
  Losses = {}
  MaxTrades = 0
  MaxLoss = 0
  RebalanceThresholdBps = 20
  RebalanceInterval = 1
  StabilizationEnabled = TRUE
  ExecutorAvailable = TRUE
  DeviationBps = 30
  Cooldown = 2
  MaxRetries = 3
  ReceiptsArrive = FALSE
  Crashes = FALSE
  MaxAge = 2
  MaxOrphans = 1
PROPERTIES
  CooldownKept
