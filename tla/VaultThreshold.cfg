SPECIFICATION VaultSpec
CONSTANTS
  Q96 = 100
  Word = 80000
  Unit <- MCUnit
  VaultPrices <- MCVaultPrices
  VaultLiquidities <- MCLiquidities
  Thresholds <- MCThresholds
  Targets <- MCTargets
  VaultAmounts <- MCAmounts
  MaxReserve = 3
PROPERTIES
  ThresholdKept
