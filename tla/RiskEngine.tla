------------------------------ MODULE RiskEngine ------------------------------
(***************************************************************************)
(* pkg/risk/engine.go.  The engine has no mutex: CheckRisk is run by the   *)
(* rebalance loop and by every goroutine POST /api/v1/rebalance starts, so *)
(* a check is split at each read and write of a shared field.              *)
(*                                                                         *)
(* Prices are integers in units of 1/Par, so Par is the price 1.0, and a   *)
(* comparison of floats is the exact comparison of the rationals.  Times   *)
(* are ages that stop at the longest duration they are compared with; the  *)
(* zero time.Time is the oldest age.                                       *)
(***************************************************************************)
EXTENDS Integers

CONSTANTS
  Callers,                      \* goroutines that call CheckRisk
  Par,                          \* the integer that stands for price 1.0
  RefPrice,                     \* oracle.ref_price
  CircuitBreakerDeviationBps,   \* risk.circuit_breaker_deviation_bps
  CircuitBreakerDuration,       \* risk.circuit_breaker_duration_minutes, ticks
  MaxDailyLossBps,              \* risk.max_daily_loss_bps
  Prices,                       \* spot prices a check may be given
  TwapPrices,                   \* TWAP prices a check may be given
  Losses,                       \* losses RecordLoss may be given, in bps
  MaxTrades,                    \* bound: trades recorded in one day
  MaxLoss                       \* bound: loss recorded in one day, in bps

ASSUME RiskAssumption ==
  /\ Par \in Nat \ {0}
  /\ RefPrice \in Nat
  /\ CircuitBreakerDeviationBps \in Nat
  /\ CircuitBreakerDuration \in Nat \ {0}
  /\ MaxDailyLossBps \in Nat
  /\ Prices \subseteq Nat
  /\ TwapPrices \subseteq Nat
  /\ Losses \subseteq Nat
  /\ MaxTrades \in Nat
  /\ MaxLoss \in Nat

VARIABLES
  isCircuitBreaker,   \* the flag
  breakerAge,         \* time.Since(circuitBreakerStart), saturated
  dailyLoss,
  failedTrades,
  totalTrades,
  checkPc,            \* where each caller is in CheckRisk
  checkTwap,          \* the twapPrice argument of its call
  verdict,            \* the answer CheckRisk returned to it
  breachAge           \* history: time since a check last finished a trip

breakerVars == <<isCircuitBreaker, breakerAge, breachAge>>
statVars == <<dailyLoss, failedTrades, totalTrades>>
checkVars == <<checkPc, checkTwap, verdict>>
riskVars == <<breakerVars, statVars, checkVars>>

Ages == 0..CircuitBreakerDuration

CheckSteps == {"idle", "setFlag", "stamp", "readFlag", "readStart",
               "clearFlag", "clearStart", "limits", "done"}

Verdicts == {"none", "allowed", "breach", "active", "loss", "twap"}

RiskTypeOK ==
  /\ isCircuitBreaker \in BOOLEAN
  /\ breakerAge \in Ages
  /\ breachAge \in Ages
  /\ dailyLoss \in Nat
  /\ failedTrades \in Nat
  /\ totalTrades \in Nat
  /\ checkPc \in [Callers -> CheckSteps]
  /\ checkTwap \in [Callers -> Nat]
  /\ verdict \in [Callers -> Verdicts]

-----------------------------------------------------------------------------
\* |p - q| as an integer.
Distance(p, q) == IF p > q THEN p - q ELSE q - p

\* One tick later, on a clock that stops at limit.
Older(age, limit) == IF age < limit THEN age + 1 ELSE limit

\* The spot price is further from the reference than the breaker allows.
Breaches(current) ==
  Distance(current, RefPrice) * 10000 > CircuitBreakerDeviationBps * Par

\* The TWAP is further from the reference than half of that.
TwapBreaches(twap) ==
  Distance(twap, RefPrice) * 20000 > CircuitBreakerDeviationBps * Par

\* The ages a caller can compute from circuitBreakerStart.  A time.Time is
\* three words, so a read that overlaps a write mixes a zero time and a real
\* one, which makes an elapsed time of any length.
StartReads(c) ==
  IF \E d \in Callers \ {c} : checkPc[d] \in {"stamp", "clearStart"}
    THEN Ages
    ELSE {breakerAge}

-----------------------------------------------------------------------------
RiskInit ==
  /\ isCircuitBreaker = FALSE
  /\ breakerAge = CircuitBreakerDuration
  /\ breachAge = CircuitBreakerDuration
  /\ dailyLoss = 0
  /\ failedTrades = 0
  /\ totalTrades = 0
  /\ checkPc = [c \in Callers |-> "idle"]
  /\ checkTwap = [c \in Callers |-> Par]
  /\ verdict = [c \in Callers |-> "none"]

\* Moves caller c from one step of CheckRisk to the next.
Step(c, from, to) ==
  /\ checkPc[c] = from
  /\ checkPc' = [checkPc EXCEPT ![c] = to]

\* Ends CheckRisk for caller c with an answer.
Answer(c, from, answer) ==
  /\ Step(c, from, "done")
  /\ verdict' = [verdict EXCEPT ![c] = answer]
  /\ UNCHANGED checkTwap

\* CheckRisk is called; the deviation of its argument picks the branch.
BeginCheck(c, current, twap) ==
  /\ Step(c, "idle", IF Breaches(current) THEN "setFlag" ELSE "readFlag")
  /\ checkTwap' = [checkTwap EXCEPT ![c] = twap]
  /\ UNCHANGED <<breakerVars, statVars, verdict>>

\* triggerCircuitBreaker: the flag first,
SetFlag(c) ==
  /\ Step(c, "setFlag", "stamp")
  /\ isCircuitBreaker' = TRUE
  /\ UNCHANGED <<breakerAge, breachAge, statVars, checkTwap, verdict>>

\* Mutant of Stamp: a breach during a trip does not restart it.
StampOnce(c) ==
  /\ Answer(c, "stamp", "breach")
  /\ breakerAge' = IF breakerAge < CircuitBreakerDuration THEN breakerAge ELSE 0
  /\ breachAge' = 0
  /\ UNCHANGED <<isCircuitBreaker, statVars>>

\* then the start time.
Stamp(c) ==
  /\ Answer(c, "stamp", "breach")
  /\ breakerAge' = 0
  /\ breachAge' = 0
  /\ UNCHANGED <<isCircuitBreaker, statVars>>

ReadFlag(c) ==
  /\ Step(c, "readFlag", IF isCircuitBreaker THEN "readStart" ELSE "limits")
  /\ UNCHANGED <<breakerVars, statVars, checkTwap, verdict>>

\* Mutant of StillActive: the elapsed time is not compared.
StillActiveAlways(c) ==
  /\ Answer(c, "readStart", "active")
  /\ UNCHANGED <<breakerVars, statVars>>

StillActive(c) ==
  /\ \E age \in StartReads(c) : age < CircuitBreakerDuration
  /\ Answer(c, "readStart", "active")
  /\ UNCHANGED <<breakerVars, statVars>>

\* Mutant of Elapsed: the elapsed time is compared with one tick too few.
ElapsedEarly(c) ==
  /\ \E age \in StartReads(c) : age + 1 >= CircuitBreakerDuration
  /\ Step(c, "readStart", "clearFlag")
  /\ UNCHANGED <<breakerVars, statVars, checkTwap, verdict>>

Elapsed(c) ==
  /\ CircuitBreakerDuration \in StartReads(c)
  /\ Step(c, "readStart", "clearFlag")
  /\ UNCHANGED <<breakerVars, statVars, checkTwap, verdict>>

\* resetCircuitBreaker: the flag first,
ClearFlag(c) ==
  /\ Step(c, "clearFlag", "clearStart")
  /\ isCircuitBreaker' = FALSE
  /\ UNCHANGED <<breakerAge, breachAge, statVars, checkTwap, verdict>>

\* then the zero time.
ClearStart(c) ==
  /\ Step(c, "clearStart", "limits")
  /\ breakerAge' = CircuitBreakerDuration
  /\ UNCHANGED <<isCircuitBreaker, breachAge, statVars, checkTwap, verdict>>

\* The daily loss, then the TWAP, then the check is passed.
LimitsVerdict(c) ==
  CASE dailyLoss > MaxDailyLossBps -> "loss"
    [] dailyLoss <= MaxDailyLossBps /\ TwapBreaches(checkTwap[c]) -> "twap"
    [] OTHER -> "allowed"

CheckLimits(c) ==
  /\ Answer(c, "limits", LimitsVerdict(c))
  /\ UNCHANGED <<breakerVars, statVars>>

\* The caller has read the answer.
EndCheck(c) ==
  /\ Step(c, "done", "idle")
  /\ verdict' = [verdict EXCEPT ![c] = "none"]
  /\ checkTwap' = [checkTwap EXCEPT ![c] = Par]
  /\ UNCHANGED <<breakerVars, statVars>>

\* The steps inside CheckRisk.
CheckStep(c) ==
  \/ SetFlag(c) \/ Stamp(c)
  \/ ReadFlag(c) \/ StillActive(c) \/ Elapsed(c)
  \/ ClearFlag(c) \/ ClearStart(c)
  \/ CheckLimits(c)

RecordTrade(success) ==
  /\ totalTrades < MaxTrades
  /\ totalTrades' = totalTrades + 1
  /\ failedTrades' = IF success THEN failedTrades ELSE failedTrades + 1
  /\ UNCHANGED <<breakerVars, checkVars, dailyLoss>>

\* Mutant of RecordLoss: the loss is taken off the day's total.
RecordLossNegated(amount) ==
  /\ dailyLoss + amount <= MaxLoss
  /\ dailyLoss' = dailyLoss - amount
  /\ UNCHANGED <<breakerVars, checkVars, failedTrades, totalTrades>>

RecordLoss(amount) ==
  /\ dailyLoss + amount <= MaxLoss
  /\ dailyLoss' = dailyLoss + amount
  /\ UNCHANGED <<breakerVars, checkVars, failedTrades, totalTrades>>

ResetDailyStats ==
  /\ dailyLoss' = 0
  /\ failedTrades' = 0
  /\ totalTrades' = 0
  /\ UNCHANGED <<breakerVars, checkVars>>

\* The process starts again with a new engine.
RiskRestart ==
  /\ isCircuitBreaker' = FALSE
  /\ breakerAge' = CircuitBreakerDuration
  /\ breachAge' = CircuitBreakerDuration
  /\ dailyLoss' = 0
  /\ failedTrades' = 0
  /\ totalTrades' = 0
  /\ checkPc' = [c \in Callers |-> "idle"]
  /\ checkTwap' = [c \in Callers |-> Par]
  /\ verdict' = [c \in Callers |-> "none"]

\* Time passes.
RiskTick ==
  /\ breakerAge' = Older(breakerAge, CircuitBreakerDuration)
  /\ breachAge' = Older(breachAge, CircuitBreakerDuration)
  /\ UNCHANGED <<isCircuitBreaker, statVars, checkVars>>

CallerNext(c) ==
  \/ \E current \in Prices, twap \in TwapPrices : BeginCheck(c, current, twap)
  \/ CheckStep(c)
  \/ EndCheck(c)

RiskNext ==
  \/ \E c \in Callers : CallerNext(c)
  \/ \E success \in BOOLEAN : RecordTrade(success)
  \/ \E amount \in Losses : RecordLoss(amount)
  \/ ResetDailyStats
  \/ RiskTick

RiskSpec == RiskInit /\ [][RiskNext]_riskVars

\* A goroutine in CheckRisk runs on and time passes; nobody has to call.
RiskFairSpec ==
  /\ RiskSpec
  /\ WF_riskVars(RiskTick)
  /\ \A c \in Callers : WF_riskVars(CheckStep(c) \/ EndCheck(c))

-----------------------------------------------------------------------------
\* Whoever sees the flag after a trip still sees it: between calls, as long
\* as a trip is younger than the breaker's duration, the flag is up and the
\* start time is that trip's (lines 59-82, the "15 minutes" of README.md).
LatchHolds ==
  (\A c \in Callers : checkPc[c] \in {"idle", "done"})
    /\ breachAge < CircuitBreakerDuration
      => isCircuitBreaker /\ breakerAge = breachAge

\* The engine does what a breaker promises: a check answered "allowed" is
\* answered with no trip younger than the duration, and only time opens it.
Latch == INSTANCE BreakerLatch WITH
  Duration <- CircuitBreakerDuration,
  hold <- CircuitBreakerDuration - breachAge,
  allowed <- {c \in Callers : checkPc[c] = "done" /\ verdict[c] = "allowed"}

LatchImplemented == Latch!Spec

\* No check finds a breach.
Calm == \A c \in Callers : checkPc[c] \notin {"setFlag", "stamp"}

\* If calls keep coming and breaches stop, the flag goes down for good.  The
\* engine has no timer of its own: without a call the flag stays up, and the
\* bot's own caller stops calling (BreakerReopens of Bot).
BreakerReleases ==
  []<>(\E c \in Callers : checkPc[c] = "done") /\ <>[]Calm
    => <>[](~isCircuitBreaker)
=============================================================================
