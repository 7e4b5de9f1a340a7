SPECIFICATION RiskSpec
CONSTANTS
  c1 = c1
  c2 = c2
  Callers <- TwoCallers
  Par = 10000
  RefPrice = 10000
  CircuitBreakerDeviationBps = 30
  CircuitBreakerDuration = 3
  MaxDailyLossBps = 5
  Prices <- MCPrices
  TwapPrices <- MCTwaps
  Losses = {}
  MaxTrades = 0
  MaxLoss = 6
INVARIANTS
  LatchHolds
