-------------------------------- MODULE MCBot --------------------------------
\* Bot on small sets: prices are in bps of the peg.
EXTENDS Bot

CONSTANTS loop, api, r1

LoopOnly == {loop}
LoopAndApi == {loop, api}

\* A breach; before the first update the price is the peg.
OneBreach == {9960}
\* A breach and the peg.
BreachPrices == {9960, 10000}
\* A swap is worth it, but the breaker does not mind.
SwapPrices == {10000, 10030}
\* A breach, and a deviation that is worth a swap but no breach.
BreachAndSwapPrices == {9960, 10030}
MCTwaps == {Par}
=============================================================================
