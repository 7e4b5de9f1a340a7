-------------------------------- MODULE MCVault --------------------------------
\* Vault on small sets: prices are the squares of hundredths.
EXTENDS Vault

\* 0.98, 1, 1.5 and 4.
MCVaultPrices == {99, 100, 123, 200}
\* The second token has fewer decimals than the first.
MCUnit == [t \in Tokens |-> IF t = 0 THEN 2 ELSE 1]
MCLiquidities == {0, 3}
MCThresholds == {0, 300}
\* With a word of 8 whole prices, 9 is cut to 1.
MCTargets == {0, 1, 2, 7, 9}
MCAmounts == {0, 1, 2}
=============================================================================
