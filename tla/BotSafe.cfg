SPECIFICATION BotSpec
CONSTANTS
  loop = loop
  api = api
  r1 = r1
  Callers <- LoopAndApi
  Loop = loop
  Requests = {r1}
  Signals = TRUE
  Par = 10000
  RefPrice = 10000
  CircuitBreakerDeviationBps = 30
  CircuitBreakerDuration = 1
  MaxDailyLossBps = 50
  Prices <- SwapPrices
  TwapPrices <- MCTwaps
  Losses = {}
  MaxTrades = 0
  MaxLoss = 0
  RebalanceThresholdBps = 20
  RebalanceInterval = 1
  StabilizationEnabled = TRUE
  ExecutorAvailable = TRUE
  DeviationBps = 30
  Cooldown = 1
  MaxRetries = 1
  ReceiptsArrive = TRUE
  Crashes = FALSE
  MaxAge = 1
  MaxOrphans = 1
INVARIANTS
  BotTypeOK
  StampsOrdered
  ReportNotAhead
PROPERTIES
  NoNewSwapAfterCancel
