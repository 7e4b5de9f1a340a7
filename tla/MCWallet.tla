------------------------------- MODULE MCWallet -------------------------------
\* Wallet on small sets.
EXTENDS Wallet

CONSTANTS s1, s2, d1, p1

MCSwaps == {s1, s2}
MCDeposits == {d1}
MCCreations == {p1}
MCTokenIn == [s \in MCSwaps |-> 0]
MCAmountIn == [s \in MCSwaps |-> IF s = s1 THEN 1 ELSE 2]
\* The layers are 6 and 3, 3 and 1, 1 and 0.
MCTotal == [d \in MCDeposits |-> [t \in Tokens |-> IF t = 0 THEN 10 ELSE 5]]
\* Amounts twentyfold apart.
FarAmounts == [s \in MCSwaps |-> IF s = s1 THEN 1 ELSE 21]
\* Nothing, and enough for the small swap and the core layer.
MCAllowances == {0, 10}
=============================================================================
