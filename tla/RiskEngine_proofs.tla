--------------------------- MODULE RiskEngine_proofs ---------------------------
(***************************************************************************)
(* RiskEngine keeps its types with any number of callers, and does what    *)
(* BreakerLatch promises when one goroutine makes all the checks.          *)
(***************************************************************************)
EXTENDS RiskEngine, TLAPS

\* Older stays within 0..limit, and gets there one tick at a time.
LEMMA OlderStays ==
  ASSUME NEW limit \in Nat, NEW age \in 0..limit
  PROVE  /\ Older(age, limit) \in 0..limit
         /\ age < limit => Older(age, limit) = age + 1
         /\ age = limit => Older(age, limit) = limit
  BY DEF Older

\* The verdict of the limits is one of three.
LEMMA LimitsAnswer ==
  ASSUME RiskTypeOK, NEW c \in Callers
  PROVE  LimitsVerdict(c) \in {"loss", "twap", "allowed"}
  BY DEF LimitsVerdict, RiskTypeOK

\* A call of CheckRisk keeps the types, whatever prices it is given.
LEMMA BeginKeepsType ==
  ASSUME RiskTypeOK, NEW c \in Callers, NEW current, NEW twap \in Nat,
         BeginCheck(c, current, twap)
  PROVE  RiskTypeOK'
  BY DEF RiskTypeOK, BeginCheck, Step, CheckSteps, breakerVars, statVars

\* So does every step inside CheckRisk,
LEMMA CheckStepKeepsType ==
  ASSUME RiskTypeOK, NEW c \in Callers, CheckStep(c)
  PROVE  RiskTypeOK'
<1> USE RiskAssumption DEF RiskAssumption, RiskTypeOK, Step, CheckSteps
<1>1. CASE SetFlag(c)
  BY <1>1 DEF SetFlag, statVars
<1>2. CASE Stamp(c)
  BY <1>2 DEF Stamp, Answer, Verdicts, Ages, statVars
<1>3. CASE ReadFlag(c)
  BY <1>3 DEF ReadFlag, breakerVars, statVars
<1>4. CASE StillActive(c)
  BY <1>4 DEF StillActive, Answer, Verdicts, breakerVars, statVars
<1>5. CASE Elapsed(c)
  BY <1>5 DEF Elapsed, breakerVars, statVars
<1>6. CASE ClearFlag(c)
  BY <1>6 DEF ClearFlag, statVars
<1>7. CASE ClearStart(c)
  BY <1>7 DEF ClearStart, Ages, statVars
<1>8. CASE CheckLimits(c)
  <2>1. LimitsVerdict(c) \in Verdicts
    BY LimitsAnswer DEF Verdicts
  <2> QED
    BY <1>8, <2>1 DEF CheckLimits, Answer, breakerVars, statVars
<1> QED
  BY <1>1, <1>2, <1>3, <1>4, <1>5, <1>6, <1>7, <1>8 DEF CheckStep

\* the caller's return from it,
LEMMA EndKeepsType ==
  ASSUME RiskTypeOK, NEW c \in Callers, EndCheck(c)
  PROVE  RiskTypeOK'
  BY RiskAssumption
     DEF RiskAssumption, RiskTypeOK, EndCheck, Step, CheckSteps, Verdicts, breakerVars, statVars

\* and the clock.
LEMMA RiskTickKeepsType ==
  ASSUME RiskTypeOK, RiskTick
  PROVE  RiskTypeOK'
  BY OlderStays, RiskAssumption
     DEF RiskAssumption, RiskTypeOK, RiskTick, Ages, statVars, checkVars

\* The initial state has its type.
LEMMA RiskInitType == RiskInit => RiskTypeOK
<1> SUFFICES ASSUME RiskInit PROVE RiskTypeOK
  OBVIOUS
<1>1. isCircuitBreaker \in BOOLEAN
  BY DEF RiskInit
<1>2. CircuitBreakerDuration \in Ages
  BY RiskAssumption DEF RiskAssumption, Ages
<1>3. checkTwap \in [Callers -> Nat]
  BY RiskAssumption DEF RiskAssumption, RiskInit
<1>4. checkPc \in [Callers -> CheckSteps] /\ verdict \in [Callers -> Verdicts]
  BY DEF RiskInit, CheckSteps, Verdicts
<1> QED
  BY <1>1, <1>2, <1>3, <1>4 DEF RiskInit, RiskTypeOK

\* The state of the engine has its type in every reachable state.
THEOREM RiskTypeCorrect == RiskSpec => []RiskTypeOK
<1>1. RiskTypeOK /\ [RiskNext]_riskVars => RiskTypeOK'
  <2> SUFFICES ASSUME RiskTypeOK, [RiskNext]_riskVars
               PROVE  RiskTypeOK'
    OBVIOUS
  <2> USE RiskAssumption DEF RiskAssumption
  <2>1. ASSUME NEW c \in Callers, CallerNext(c) PROVE RiskTypeOK'
    BY <2>1, BeginKeepsType, CheckStepKeepsType, EndKeepsType DEF CallerNext
  <2>2. ASSUME NEW success \in BOOLEAN, RecordTrade(success) PROVE RiskTypeOK'
    BY <2>2 DEF RiskTypeOK, RecordTrade, breakerVars, checkVars
  <2>3. ASSUME NEW amount \in Losses, RecordLoss(amount) PROVE RiskTypeOK'
    BY <2>3 DEF RiskTypeOK, RecordLoss, breakerVars, checkVars
  <2>4. CASE ResetDailyStats
    BY <2>4 DEF RiskTypeOK, ResetDailyStats, breakerVars, checkVars
  <2>5. CASE RiskTick
    BY <2>5, RiskTickKeepsType
  <2>6. CASE UNCHANGED riskVars
    BY <2>6 DEF RiskTypeOK, riskVars, breakerVars, statVars, checkVars
  <2> QED
    BY <2>1, <2>2, <2>3, <2>4, <2>5, <2>6 DEF RiskNext
<1> QED
  BY <1>1, RiskInitType, PTL DEF RiskSpec

-----------------------------------------------------------------------------
\* All checks are made by the same goroutine.
OneCaller == \A c, d \in Callers : c = d

\* The inductive invariant of a single caller: the flag is down only when the
\* last trip is over, an up flag carries that trip's start time except between
\* the two writes of a trip, and a reset is under way only after the duration.
FlagUp == {"stamp", "readStart", "clearFlag"}
FlagDown == {"clearStart", "limits"}

LatchInv ==
  /\ ~isCircuitBreaker => breachAge = CircuitBreakerDuration
  /\ isCircuitBreaker /\ (\A c \in Callers : checkPc[c] # "stamp")
       => breakerAge = breachAge
  /\ \A c \in Callers :
       /\ checkPc[c] \in FlagUp => isCircuitBreaker
       /\ checkPc[c] \in FlagDown => ~isCircuitBreaker
       /\ checkPc[c] = "clearFlag" => breachAge = CircuitBreakerDuration

\* One step of the caller keeps the invariant.
LEMMA CallerKeepsLatchInv ==
  ASSUME OneCaller, RiskTypeOK, LatchInv, NEW c \in Callers, CallerNext(c)
  PROVE  LatchInv'
<1> USE RiskAssumption DEF RiskAssumption, OneCaller, RiskTypeOK, LatchInv, FlagUp, FlagDown, Step
<1>1. ASSUME NEW current \in Prices, NEW twap \in TwapPrices, BeginCheck(c, current, twap)
      PROVE  LatchInv'
  BY <1>1 DEF BeginCheck, breakerVars
<1>2. CASE SetFlag(c)
  BY <1>2 DEF SetFlag
<1>3. CASE Stamp(c)
  BY <1>3 DEF Stamp, Answer
<1>4. CASE ReadFlag(c)
  BY <1>4 DEF ReadFlag, breakerVars
<1>5. CASE StillActive(c)
  BY <1>5 DEF StillActive, Answer, breakerVars
<1>6. CASE Elapsed(c)
  <2>1. StartReads(c) = {breakerAge}
    BY DEF StartReads
  <2> QED
    BY <1>6, <2>1 DEF Elapsed, breakerVars
<1>7. CASE ClearFlag(c)
  BY <1>7 DEF ClearFlag
<1>8. CASE ClearStart(c)
  BY <1>8 DEF ClearStart
<1>9. CASE CheckLimits(c)
  BY <1>9 DEF CheckLimits, Answer, breakerVars
<1>10. CASE EndCheck(c)
  BY <1>10 DEF EndCheck, breakerVars
<1> QED
  BY <1>1, <1>2, <1>3, <1>4, <1>5, <1>6, <1>7, <1>8, <1>9, <1>10
     DEF CallerNext, CheckStep

\* A step that touches neither the checks nor the breaker keeps it too.
LEMMA OthersKeepLatchInv ==
  ASSUME LatchInv, UNCHANGED breakerVars, UNCHANGED checkVars
  PROVE  LatchInv'
  BY DEF LatchInv, breakerVars, checkVars, FlagUp, FlagDown

\* Time keeps it: both ages grow together and stop at the duration.
LEMMA TickKeepsLatchInv ==
  ASSUME RiskTypeOK, LatchInv, RiskTick
  PROVE  LatchInv'
<1> USE RiskAssumption DEF RiskAssumption, RiskTypeOK, Ages, RiskTick
<1>1. breachAge = CircuitBreakerDuration => breachAge' = CircuitBreakerDuration
  BY OlderStays
<1>2. breakerAge = breachAge => breakerAge' = breachAge'
  OBVIOUS
<1> QED
  BY <1>1, <1>2 DEF LatchInv, checkVars, FlagUp, FlagDown

\* LatchInv holds in every state a single caller can reach.
THEOREM LatchInvariant ==
  ASSUME OneCaller
  PROVE  RiskSpec => [](RiskTypeOK /\ LatchInv)
<1>1. RiskInit => LatchInv
  BY DEF RiskInit, LatchInv, FlagUp, FlagDown
<1>2. RiskTypeOK /\ LatchInv /\ [RiskNext]_riskVars => LatchInv'
  <2> SUFFICES ASSUME RiskTypeOK, LatchInv, [RiskNext]_riskVars
               PROVE  LatchInv'
    OBVIOUS
  <2>1. ASSUME NEW c \in Callers, CallerNext(c) PROVE LatchInv'
    BY <2>1, OneCaller, CallerKeepsLatchInv
  <2>2. ASSUME NEW success \in BOOLEAN, RecordTrade(success) PROVE LatchInv'
    BY <2>2, OthersKeepLatchInv DEF RecordTrade
  <2>3. ASSUME NEW amount \in Losses, RecordLoss(amount) PROVE LatchInv'
    BY <2>3, OthersKeepLatchInv DEF RecordLoss
  <2>4. CASE ResetDailyStats
    BY <2>4, OthersKeepLatchInv DEF ResetDailyStats
  <2>5. CASE RiskTick
    BY <2>5, TickKeepsLatchInv
  <2>6. CASE UNCHANGED riskVars
    BY <2>6, OthersKeepLatchInv DEF riskVars
  <2> QED
    BY <2>1, <2>2, <2>3, <2>4, <2>5, <2>6 DEF RiskNext
<1> QED
  BY <1>1, <1>2, RiskTypeCorrect, PTL DEF RiskSpec

\* With one caller a trip stays latched for its whole duration; two callers
\* can lose it.
THEOREM LatchHoldsAlone ==
  ASSUME OneCaller
  PROVE  RiskSpec => []LatchHolds
<1>1. RiskTypeOK /\ LatchInv => LatchHolds
  BY RiskAssumption DEF RiskAssumption, RiskTypeOK, Ages, LatchInv, LatchHolds
<1> QED
  BY <1>1, LatchInvariant, PTL

-----------------------------------------------------------------------------
\* The callers that hold a positive answer.
Passed == {c \in Callers : checkPc[c] = "done" /\ verdict[c] = "allowed"}

\* A step after which the same callers hold a positive answer and the last
\* trip is as old as before is no step of the latch.
LEMMA LatchStutters ==
  ASSUME breachAge' = breachAge, Passed' = Passed
  PROVE  UNCHANGED Latch!vars
  BY DEF Latch!vars, Passed

\* A call of CheckRisk, whatever prices it is given, moves neither the breaker
\* nor the answers.
LEMMA BeginKeepsLatch ==
  ASSUME OneCaller, RiskTypeOK, LatchInv, NEW c \in Callers, NEW current, NEW twap,
         BeginCheck(c, current, twap)
  PROVE  LatchInv' /\ UNCHANGED Latch!vars
<1>1. LatchInv'
  BY DEF OneCaller, RiskTypeOK, LatchInv, FlagUp, FlagDown, Step, BeginCheck, breakerVars
<1>2. breachAge' = breachAge /\ Passed' = Passed
  BY DEF RiskTypeOK, BeginCheck, Step, breakerVars, Passed
<1> QED
  BY <1>1, <1>2, LatchStutters

\* Within CheckRisk only the end of a trip and a positive answer move the latch.
LEMMA CallerMovesLatch ==
  ASSUME RiskTypeOK, LatchInv, NEW c \in Callers, CallerNext(c)
  PROVE  Latch!Next \/ UNCHANGED Latch!vars
<1> USE RiskAssumption DEF RiskAssumption, RiskTypeOK, Step
<1>1. ASSUME NEW current \in Prices, NEW twap \in TwapPrices, BeginCheck(c, current, twap)
      PROVE  UNCHANGED Latch!vars
  BY <1>1, LatchStutters DEF BeginCheck, breakerVars, Passed
<1>2. CASE SetFlag(c) \/ ReadFlag(c) \/ Elapsed(c) \/ ClearFlag(c) \/ ClearStart(c)
  BY <1>2, LatchStutters
     DEF SetFlag, ReadFlag, Elapsed, ClearFlag, ClearStart, breakerVars, Passed
<1>3. CASE StillActive(c)
  BY <1>3, LatchStutters DEF StillActive, Answer, breakerVars, Passed
<1>4. CASE Stamp(c)
  <2>1. Passed' = Passed
    BY <1>4 DEF Stamp, Answer, Passed
  <2>2. breachAge' = 0
    BY <1>4 DEF Stamp
  <2> QED
    BY <2>1, <2>2 DEF Latch!Next, Latch!Trip, Passed
<1>5. CASE CheckLimits(c)
  <2>1. breachAge' = breachAge /\ breachAge = CircuitBreakerDuration
    BY <1>5 DEF CheckLimits, Answer, LatchInv, FlagDown, breakerVars
  <2>2. CASE LimitsVerdict(c) = "allowed"
    <3>1. Passed' = Passed \cup {c}
      BY <1>5, <2>2 DEF CheckLimits, Answer, Passed
    <3>2. Latch!Allow(c)
      BY <2>1, <3>1 DEF Latch!Allow, Passed
    <3> QED
      BY <3>2 DEF Latch!Next
  <2>3. CASE LimitsVerdict(c) # "allowed"
    BY <1>5, <2>1, <2>3, LatchStutters DEF CheckLimits, Answer, Passed
  <2> QED
    BY <2>2, <2>3
<1>6. CASE EndCheck(c)
  <2>1. Passed' = Passed \ {c}
    BY <1>6 DEF EndCheck, Passed
  <2>2. Latch!Forget(c)
    BY <1>6, <2>1 DEF EndCheck, breakerVars, Latch!Forget, Passed
  <2> QED
    BY <2>2 DEF Latch!Next
<1> QED
  BY <1>1, <1>2, <1>3, <1>4, <1>5, <1>6 DEF CallerNext, CheckStep

\* Time runs the latch down by one tick, until it is open.
LEMMA TickMovesLatch ==
  ASSUME RiskTypeOK, RiskTick
  PROVE  Latch!Next \/ UNCHANGED Latch!vars
<1>1. Passed' = Passed
  BY DEF RiskTick, checkVars, Passed
<1>2. CASE breachAge < CircuitBreakerDuration
  <2>1. breachAge' = breachAge + 1
    BY <1>2 DEF RiskTick, Older
  <2>2. Latch!Tick
    BY <1>1, <1>2, <2>1, RiskAssumption
       DEF RiskAssumption, RiskTypeOK, Ages, Latch!Tick, Passed
  <2> QED
    BY <2>2 DEF Latch!Next
<1>3. CASE breachAge = CircuitBreakerDuration
  <2>1. breachAge' = breachAge
    BY <1>3, RiskAssumption DEF RiskAssumption, RiskTick, Older
  <2> QED
    BY <1>1, <2>1, LatchStutters
<1> QED
  BY <1>2, <1>3, RiskAssumption DEF RiskAssumption, RiskTypeOK, Ages

\* With one caller the engine implements the latch: a finished trip is its
\* Trip, a positive answer its Allow, time its Tick.
THEOREM LatchImplementedAlone ==
  ASSUME OneCaller
  PROVE  RiskSpec => LatchImplemented
<1>1. RiskInit => Latch!Init
  BY RiskAssumption DEF RiskAssumption, RiskInit, Latch!Init
<1>2. RiskTypeOK /\ LatchInv /\ [RiskNext]_riskVars => [Latch!Next]_Latch!vars
  <2> SUFFICES ASSUME RiskTypeOK, LatchInv, [RiskNext]_riskVars
               PROVE  Latch!Next \/ UNCHANGED Latch!vars
    OBVIOUS
  <2>1. ASSUME NEW c \in Callers, CallerNext(c)
        PROVE  Latch!Next \/ UNCHANGED Latch!vars
    BY <2>1, CallerMovesLatch
  <2>2. CASE RiskTick
    BY <2>2, TickMovesLatch
  <2>3. CASE UNCHANGED breakerVars /\ UNCHANGED checkVars
    BY <2>3, LatchStutters DEF breakerVars, checkVars, Passed
  <2> QED
    BY <2>1, <2>2, <2>3
       DEF RiskNext, RecordTrade, RecordLoss, ResetDailyStats, riskVars
<1> QED
  BY <1>1, <1>2, LatchInvariant, PTL DEF RiskSpec, LatchImplemented, Latch!Spec
=============================================================================
