----------------------------- MODULE MCRebalancer -----------------------------
\* Rebalancer on small sets: prices are in bps of the peg.
EXTENDS Rebalancer

CONSTANT w1

OneWorker == {w1}

\* A breach below the peg, the peg, and a price above it that is worth a swap
\* but does not breach.
MCPrices == {9960, 10000, 10030}
MCTwaps == {Par}
=============================================================================
