-------------------------------- MODULE MCRisk --------------------------------
\* RiskEngine on small sets: prices are in bps of the peg.
EXTENDS RiskEngine

CONSTANTS c1, c2

OneCaller == {c1}
TwoCallers == {c1, c2}

\* 31 bps below breaches, 30 bps above is the last price that does not.
MCPrices == {9969, 10000, 10030}
\* 15 bps is half the threshold, 16 bps is over it.
MCTwaps == {9984, 10015}
MCLosses == {3}
=============================================================================
