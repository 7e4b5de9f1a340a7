SPECIFICATION BotServedSpec
CONSTANTS
  loop = loop
  api = api
  r1 = r1
  Callers <- LoopOnly
  Loop = loop
  Requests = {}
  Signals = FALSE
  Par = 10000
  RefPrice = 10000
  CircuitBreakerDeviationBps = 30
  CircuitBreakerDuration = 1
  MaxDailyLossBps = 50
  Prices <- BreachPrices
  TwapPrices <- MCTwaps
  Losses = {}
  MaxTrades = 0
  MaxLoss = 0
  RebalanceThresholdBps = 20
  RebalanceInterval = 1
  StabilizationEnabled = TRUE
  ExecutorAvailable = TRUE
  DeviationBps = 30
  Cooldown = 1
  MaxRetries = 1
  ReceiptsArrive = TRUE
  Crashes = FALSE
  MaxAge = 1
  MaxOrphans = 1
PROPERTIES
  BreakerReopens
