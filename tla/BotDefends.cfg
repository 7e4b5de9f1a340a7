SPECIFICATION BotServedSpec
CONSTANTS
  loop = loop
  api = api
  r1 = r1
  Callers <- LoopOnly
  Loop = loop
  Requests = {r1}
  Signals = FALSE
  Par = 10000
  RefPrice = 10000
  CircuitBreakerDeviationBps = 30
  CircuitBreakerDuration = 1
  MaxDailyLossBps = 50
  Prices <- BreachAndSwapPrices
  TwapPrices <- MCTwaps
  Losses = {}
  MaxTrades = 0
  MaxLoss = 0
  RebalanceThresholdBps = 20
  RebalanceInterval = 1
  StabilizationEnabled = TRUE
  ExecutorAvailable = TRUE
  DeviationBps = 30
  Cooldown = 2
  MaxRetries = 1
  ReceiptsArrive = TRUE
  Crashes = TRUE
  MaxAge = 2
  MaxOrphans = 1
PROPERTIES
  CooldownKept
  TripShown
  TripStopsTrading
  PegDefended
