--------------------------------- MODULE Tiers ---------------------------------
(***************************************************************************)
(* GET /api/v1/positions: GetTierPositions of pkg/executor/service.go      *)
(* reads the pool three times, without a lock on a pool that others trade  *)
(* on, and computes what a core, a mid and a tail range around the tick    *)
(* would hold; and the tick arithmetic of the same file.                   *)
(*                                                                         *)
(* A square root price is an integer in units of 1/Q.  A tick multiplies   *)
(* the price by Num/Den, so a logarithm is a count of powers.              *)
(***************************************************************************)
EXTENDS Integers, FiniteSets

CONSTANTS
  CoreRangeBps, MidRangeBps, TailRangeBps,   \* bot.*_range_bps
  Q,             \* 2^96
  Num, Den,      \* 10001 and 10000
  SqrtPrices,    \* square root prices the pool may have
  Liquidities,   \* liquidities it may have
  MaxTick        \* bound: the furthest tick from 0

ASSUME TiersAssumption ==
  /\ CoreRangeBps \in Nat /\ MidRangeBps \in Nat /\ TailRangeBps \in Nat
  /\ Q \in Nat \ {0}
  /\ Den \in Nat \ {0} /\ Num \in Nat /\ Num > Den
  /\ SqrtPrices \subseteq Nat \ {0}
  /\ Liquidities \subseteq Nat
  /\ MaxTick \in Nat \ {0}

VARIABLES
  sqrtPrice, liquidity,   \* external: the pool
  reading,                \* what the handler reads next
  readLiquidity, readTick, readSqrt,
  calm                    \* history: no read failed and the pool stood still

poolVars == <<sqrtPrice, liquidity>>
readVars == <<readLiquidity, readTick, readSqrt>>
tiersVars == <<poolVars, reading, readVars, calm>>

Tier == {"core", "mid", "tail"}

\* The configured half width of a tier's range, used as a number of ticks.
Bps(tier) ==
  CASE tier = "core" -> CoreRangeBps
    [] tier = "mid" -> MidRangeBps
    [] tier = "tail" -> TailRangeBps

-----------------------------------------------------------------------------
\* The n-th power of b.
Exp(b, n) == LET e[m \in Nat] == IF m = 0 THEN 1 ELSE b * e[m - 1] IN e[n]

\* The price p^2/Q^2 reaches tick k, and is that tick's price exactly.
Scaled(p, k) == p * p * (IF k >= 0 THEN Exp(Den, k) ELSE Exp(Num, -k))
TickPrice(k) == Q * Q * (IF k >= 0 THEN Exp(Num, k) ELSE Exp(Den, -k))
Reaches(p, k) == Scaled(p, k) >= TickPrice(k)
OnTick(p, k) == Scaled(p, k) = TickPrice(k)

\* The pool's prices end at its last tick (MAX_SQRT_RATIO of its TickMath).
ASSUME PricesEnd == \A p \in SqrtPrices : ~Reaches(p, MaxTick + 1)

\* A price is fine enough for one tick to be two units or more.
ASSUME FineScale == Q * (Num - Den) >= 2 * Den

\* External: slot0's tick, the logarithm of the price rounded down.
PoolTick(p) == Cardinality({k \in (1 - MaxTick)..MaxTick : Reaches(p, k)}) - MaxTick

\* The handler's own logarithm, int32(Log(price)/Log(1.0001)): towards zero.
TickOf(p) == IF p < Q /\ ~OnTick(p, PoolTick(p)) THEN PoolTick(p) + 1 ELSE PoolTick(p)

\* The loops that raise 1.0001 to a tick.
Power[n \in Nat] == IF n = 0 THEN Q ELSE (Power[n - 1] * Num) \div Den

\* Mutant of SqrtAt: the loops run over the distance of the tick from 0.
SqrtAtDistance(tick) == Power[IF tick >= 0 THEN tick ELSE -tick]

\* What calculateTokenAmounts takes for the square root price of a tick.  The
\* loops do not run for a negative tick, which is priced
\* as tick 0; a positive one
\* is not halved, although the comment on line 448 says so.
SqrtAt(tick) == IF tick >= 0 THEN Power[tick] ELSE Q

\* Mutant of Amounts: a price above the range is taken for one within it.
AmountsUncapped(liq, lower, upper, p) ==
  LET a == SqrtAt(lower)
      b == SqrtAt(upper)
  IN  IF liq = 0 \/ p = 0 THEN <<0, 0>>
      ELSE IF TickOf(p) <= lower THEN <<(liq * (b - a) * Q) \div (a * b), 0>>
      ELSE <<(liq * (b - p) * Q) \div (p * b), (liq * (p - a)) \div Q>>

\* calculateTokenAmounts: below the range it is all token0, above it all
\* token1, within it some of both.
Amounts(liq, lower, upper, p) ==
  LET a == SqrtAt(lower)
      b == SqrtAt(upper)
  IN  IF liq = 0 \/ p = 0 THEN <<0, 0>>
      ELSE IF TickOf(p) <= lower THEN <<(liq * (b - a) * Q) \div (a * b), 0>>
      ELSE IF TickOf(p) >= upper THEN <<0, (liq * (b - a)) \div Q>>
      ELSE <<(liq * (b - p) * Q) \div (p * b), (liq * (p - a)) \div Q>>

\* A tier's range, and what the answer says it holds.
Lower(tier) == readTick - Bps(tier)

\* Mutant of Upper: the tier is as wide as its bps say, not each half of it.
UpperHalf(tier) == readTick + Bps(tier) \div 2

Upper(tier) == readTick + Bps(tier)
Held(tier) == Amounts(readLiquidity, Lower(tier), Upper(tier), readSqrt)

-----------------------------------------------------------------------------
\* The ticks a position of a fee tier may start and end at.
GetTickSpacing(fee) ==
  CASE fee = 100 -> 1
    [] fee = 3000 -> 60
    [] fee = 10000 -> 200
    [] OTHER -> 10

\* Go divides towards zero.
AlignTickToSpacing(tick, spacing) ==
  IF tick >= 0 THEN (tick \div spacing) * spacing ELSE -(((-tick) \div spacing) * spacing)

\* The ends of the three positions POST /api/v1/add-liquidity mints.
LayerTicks == {-200, -50, -10, 10, 50, 200}

-----------------------------------------------------------------------------
TiersInit ==
  /\ sqrtPrice \in SqrtPrices /\ liquidity \in Liquidities
  /\ reading = "liquidity"
  /\ readLiquidity = 0 /\ readTick = 0 /\ readSqrt = 0
  /\ calm = TRUE

\* A read of the pool succeeds or fails; the handler goes on in both cases.
Read(from, to, ok) ==
  /\ reading = from /\ reading' = to
  /\ calm' = (calm /\ ok)
  /\ UNCHANGED poolVars

\* A liquidity that could not be read is 0.
ReadLiquidity(ok) ==
  /\ Read("liquidity", "tick", ok)
  /\ readLiquidity' = IF ok THEN liquidity ELSE 0
  /\ UNCHANGED <<readTick, readSqrt>>

\* So is a tick,
ReadTick(ok) ==
  /\ Read("tick", "price", ok)
  /\ readTick' = IF ok THEN PoolTick(sqrtPrice) ELSE 0
  /\ UNCHANGED <<readLiquidity, readSqrt>>

\* and a price, which comes from a second call of slot0.
ReadPrice(ok) ==
  /\ Read("price", "answered", ok)
  /\ readSqrt' = IF ok THEN sqrtPrice ELSE 0
  /\ UNCHANGED <<readLiquidity, readTick>>

\* The next request.
NextRequest ==
  /\ reading = "answered"
  /\ reading' = "liquidity"
  /\ readLiquidity' = 0 /\ readTick' = 0 /\ readSqrt' = 0
  /\ calm' = TRUE
  /\ UNCHANGED poolVars

\* External: somebody trades with the pool or changes its liquidity.
MovePool ==
  /\ sqrtPrice' \in SqrtPrices /\ liquidity' \in Liquidities
  /\ calm' = FALSE
  /\ UNCHANGED <<reading, readVars>>

TiersNext ==
  \/ \E ok \in BOOLEAN : ReadLiquidity(ok) \/ ReadTick(ok) \/ ReadPrice(ok)
  \/ NextRequest
  \/ MovePool

TiersSpec == TiersInit /\ [][TiersNext]_tiersVars

-----------------------------------------------------------------------------
\* A pool that stood still is answered as in range of every tier of at least
\* two ticks: the tick of the pool is rounded down and the handler's own one
\* towards zero, so below the peg a tier of one tick is not (lines 463-475).
InRangeAtRest ==
  reading = "answered" /\ calm =>
    \A tier \in Tier :
      Bps(tier) >= 2 =>
        Lower(tier) < TickOf(readSqrt) /\ TickOf(readSqrt) < Upper(tier)

\* What a tier of a pool that stood still holds is an amount, as it is by the
\* formula that lines 437 and 448 name.
AmountsAreAmounts ==
  reading = "answered" /\ calm =>
    \A tier \in Tier : Held(tier)[1] >= 0 /\ Held(tier)[2] >= 0

\* It is not always; how far that goes: whatever the pool did between the
\* reads, no tier holds less than nothing of token0; of token1 only below the
\* peg, or if the tier starts above it, where the loops have the wrong price
\* for the range's lower end (lines 445-457).
NegativeExplained ==
  reading = "answered" =>
    \A tier \in Tier :
      /\ Held(tier)[1] >= 0
      /\ Held(tier)[2] < 0 => readSqrt < Q \/ Lower(tier) > 0

\* Of a pool that stood still, a wider tier holds at least as much of both.
WiderHoldsMore ==
  reading = "answered" /\ calm =>
    \A s, t \in Tier :
      2 <= Bps(s) /\ Bps(s) <= Bps(t) =>
        Held(s)[1] <= Held(t)[1] /\ Held(s)[2] <= Held(t)[2]
=============================================================================
