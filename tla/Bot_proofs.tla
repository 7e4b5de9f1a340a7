------------------------------- MODULE Bot_proofs -------------------------------
(***************************************************************************)
(* What the bot as a whole keeps, for any number of requests and workers,  *)
(* with signals and with crashes; and the cooldown and the latch, which it *)
(* keeps when the loop is the only worker.                                 *)
(***************************************************************************)
EXTENDS Bot, Rebalancer_proofs

-----------------------------------------------------------------------------
\* Most steps of the bot are steps of the rebalancer, or leave it alone.
LEMMA BotStepKinds ==
  ASSUME BotNext
  PROVE  [Next]_vars \/ PushPrice \/ RebalanceTick \/ Signal
<1> USE BotAssumption DEF BotAssumption
<1>1. CASE Launch
  BY <1>1 DEF Launch, Next
<1>2. CASE PriceLoop
  BY <1>2 DEF PriceLoop, PriceTick, FetchEnds, FetchPrice, FetchFails, PriceExit
<1>3. CASE RebalanceLoop
  BY <1>3 DEF RebalanceLoop, RebalanceDone, ReadRebalanceTime, StoreRebalanceTime, LoopExit, Next
<1>4. CASE MonitorLoop
  BY <1>4 DEF MonitorLoop, MonitorTick, MonitorStop, MonitorStatus, MonitorExit, Next
<1>5. CASE SignalStop \/ BotRestart
  BY <1>5 DEF SignalStop, BotRestart, Next
<1>6. ASSUME NEW r \in Requests, Handler(r) PROVE [Next]_vars
  BY <1>6 DEF Handler, StartRequest, StartStatus, StopRequest, StopStatus,
              RebalanceRequest, SpawnRun, Next
<1>7. ASSUME NEW w \in Callers, Work(w) \/ ReturnRun(w) \/ Deadline(w) PROVE [Next]_vars
  BY <1>7 DEF Work, ReturnRun, Deadline, Next
<1>8. CASE BotChain \/ BotTick
  BY <1>8 DEF BotChain, BotTick, Next
<1> QED
  BY <1>1, <1>2, <1>3, <1>4, <1>5, <1>6, <1>7, <1>8 DEF BotNext

\* The others keep the rebalancer's types
LEMMA OwnStepsKeepType ==
  ASSUME BotTypeOK, PushPrice \/ RebalanceTick \/ Signal
  PROVE  TypeOK'
<1> USE BotAssumption, RebalancerAssumption
    DEF BotAssumption, RebalancerAssumption, BotTypeOK, MonTypeOK, TypeOK, priceVars,
        gateVars, chainVars, workVars
<1>1. UNCHANGED riskVars
  BY DEF PushPrice, UpdatePrices, RebalanceTick, Begin, Signal
<1>2. RiskTypeOK'
  BY <1>1 DEF RiskTypeOK, riskVars, breakerVars, statVars, checkVars
<1>3. CASE PushPrice
  BY <1>2, <1>3, RiskAssumption
     DEF PushPrice, UpdatePrices, GetTwapPrice, RebTypeOK, RiskAssumption
<1>4. CASE RebalanceTick
  BY <1>2, <1>4 DEF RebalanceTick, Begin, Go, RebTypeOK, WorkSteps
<1>5. CASE Signal
  <2>1. expired' \in [Callers -> BOOLEAN]
    BY <1>5 DEF Signal, RebTypeOK
  <2> QED
    BY <1>2, <1>5, <2>1 DEF Signal, RebTypeOK
<1> QED
  BY <1>3, <1>4, <1>5

\* and do not touch the stamps.
LEMMA OwnStepsKeepOrder ==
  ASSUME BotTypeOK, StampsOrdered, PushPrice \/ RebalanceTick \/ Signal
  PROVE  StampsOrdered'
<1>1. CASE PushPrice \/ Signal
  BY <1>1, UnstampedKeepsOrder DEF PushPrice, UpdatePrices, Signal, gateVars, workVars
<1>2. CASE RebalanceTick
  BY <1>2, UnstampedKeepsOrder, BotAssumption
     DEF BotAssumption, RebalanceTick, Begin, Go, gateVars, BotTypeOK, TypeOK, RebTypeOK
<1> QED
  BY <1>1, <1>2

\* The part of the type invariant that is about the bot's own state.
OwnTypeOK ==
  /\ MonTypeOK
  /\ ctxDone \in BOOLEAN
  /\ pricePc \in {"off", "wait", "fetch", "push", "exited"}
  /\ loopPc \in {"off", "wait", "busy", "report", "store", "exited"}
  /\ monitorPc \in {"off", "wait", "stop", "status", "exited"}
  /\ signalPc \in {"off", "armed", "stop", "closed"}
  /\ reqPc \in [Requests -> {"idle", "started", "stopped", "spawn"}]
  /\ fetched \in Nat
  /\ reported \in 0..MaxAge

\* A step of something else keeps it,
LEMMA UnmovedKeepsType == OwnTypeOK /\ UNCHANGED <<monVars, botVars>> => OwnTypeOK'
  BY DEF OwnTypeOK, MonTypeOK, monVars, botVars, heldVars

\* and so does every step of the bot.
LEMMA OwnTypeKept ==
  ASSUME TypeOK, OwnTypeOK, BotNext
  PROVE  OwnTypeOK'
<1> USE RebalancerAssumption, RiskAssumption
    DEF OwnTypeOK, MonTypeOK, monVars, botVars, heldVars, RebalancerAssumption
<1>1. CASE Launch
  BY <1>1 DEF Launch
<1>2. ASSUME NEW current \in Prices, FetchPrice(current) PROVE OwnTypeOK'
  BY <1>2 DEF FetchPrice, RiskAssumption
<1>3. CASE PriceLoop
  BY <1>2, <1>3 DEF PriceLoop, PriceTick, FetchEnds, FetchFails, PushPrice, PriceExit,
                    RiskAssumption
<1>4. CASE RebalanceLoop
  <2>1. UNCHANGED <<ctxDone, pricePc, monitorPc, signalPc, reqPc, fetched, status>>
    BY <1>4, Zenon DEF RebalanceLoop, RebalanceTick, RebalanceDone, ReadRebalanceTime, StoreRebalanceTime, LoopExit,
                       UpdateLastRebalance
  <2>2. loopPc' \in {"wait", "busy", "report", "store", "exited"}
    BY <1>4 DEF RebalanceLoop, RebalanceTick, RebalanceDone, ReadRebalanceTime, StoreRebalanceTime, LoopExit
  <2>3. /\ metricRebalance' \in {metricRebalance, reported}
        /\ reported' \in {reported, rebalanceAge, MaxAge}
    BY <1>4, Zenon DEF RebalanceLoop, RebalanceTick, RebalanceDone, ReadRebalanceTime, StoreRebalanceTime, LoopExit,
                       UpdateLastRebalance
  <2>4. metricRebalance' \in 0..MaxAge /\ reported' \in 0..MaxAge
    BY <2>3 DEF TypeOK, RebTypeOK
  <2> QED
    BY <2>1, <2>2, <2>4
<1>5. CASE MonitorLoop
  <2>1. UNCHANGED <<ctxDone, pricePc, loopPc, signalPc, reqPc, heldVars, metricRebalance>>
    BY <1>5, Zenon DEF MonitorLoop, MonitorTick, MonitorStop, MonitorStatus, MonitorExit,
                       UpdateStatus
  <2>2. monitorPc' \in {"wait", "stop", "status", "exited"}
    BY <1>5 DEF MonitorLoop, MonitorTick, MonitorStop, MonitorStatus, MonitorExit
  <2>3. status' \in Statuses
    BY <1>5 DEF MonitorLoop, MonitorTick, MonitorStop, MonitorStatus, MonitorExit,
                UpdateStatus, Statuses
  <2> QED
    BY <2>1, <2>2, <2>3
<1>6. CASE Signal \/ SignalStop
  <2>1. UNCHANGED <<monVars, heldVars, pricePc, loopPc, monitorPc, reqPc>>
    BY <1>6, Zenon DEF Signal, SignalStop
  <2>2. ctxDone' \in BOOLEAN /\ signalPc' \in {"stop", "closed"}
    BY <1>6 DEF Signal, SignalStop
  <2> QED
    BY <2>1, <2>2
<1>7. CASE BotRestart
  <2>1. ctxDone' \in BOOLEAN
    BY <1>7 DEF BotRestart
  <2>2. MonTypeOK'
    <3>1. status' \in Statuses
      BY <1>7, Zenon DEF BotRestart, Statuses
    <3>2. metricRebalance' = MaxAge
      BY <1>7 DEF BotRestart
    <3> QED
      BY <3>1, <3>2
  <2>3. reqPc' \in [Requests -> {"idle", "started", "stopped", "spawn"}]
    BY <1>7 DEF BotRestart
  <2>4. fetched' \in Nat /\ reported' \in 0..MaxAge
    <3>1. fetched' = Par /\ reported' = MaxAge
      BY <1>7, Zenon DEF BotRestart
    <3>2. Par \in Nat
      BY RiskAssumption DEF RiskAssumption
    <3> QED
      BY <3>1, <3>2
  <2> QED
    BY <1>7, <2>1, <2>2, <2>3, <2>4 DEF BotRestart
<1>8. ASSUME NEW r \in Requests, Handler(r) PROVE OwnTypeOK'
  <2>1. CASE StartRequest(r) \/ StopRequest(r) \/ RebalanceRequest(r)
    <3>1. UNCHANGED <<monVars, heldVars, ctxDone, pricePc, loopPc, monitorPc, signalPc>>
      BY <2>1 DEF StartRequest, StopRequest, RebalanceRequest, Serve
    <3>2. \/ reqPc' = [reqPc EXCEPT ![r] = "started"]
          \/ reqPc' = [reqPc EXCEPT ![r] = "stopped"]
          \/ reqPc' = [reqPc EXCEPT ![r] = "spawn"]
      BY <2>1, Zenon DEF StartRequest, StopRequest, RebalanceRequest, Serve
    <3> QED
      BY <3>1, <3>2
  <2>2. CASE StartStatus(r) \/ StopStatus(r)
    <3>1. status' \in Statuses
      BY <2>2, Zenon DEF StartStatus, StopStatus, UpdateStatus, Statuses
    <3>2. UNCHANGED metricRebalance
      BY <2>2, Zenon DEF StartStatus, StopStatus, UpdateStatus
    <3>3. MonTypeOK'
      BY <3>1, <3>2
    <3>4. UNCHANGED <<heldVars, ctxDone, pricePc, loopPc, monitorPc, signalPc>>
      BY <2>2, Zenon DEF StartStatus, StopStatus, Serve
    <3>5. reqPc' = [reqPc EXCEPT ![r] = "idle"]
      BY <2>2, Zenon DEF StartStatus, StopStatus, Serve
    <3> HIDE DEF MonTypeOK
    <3> QED
      BY <3>3, <3>4, <3>5
  <2>3. ASSUME NEW w \in Callers, SpawnRun(r, w) PROVE OwnTypeOK'
    BY <2>3 DEF SpawnRun, Serve
  <2> QED
    BY <1>8, <2>1, <2>2, <2>3 DEF Handler
<1>9. ASSUME NEW w \in Callers, Work(w) \/ ReturnRun(w) \/ Deadline(w) PROVE OwnTypeOK'
  <2>1. UNCHANGED <<monVars, botVars>>
    BY <1>9, Zenon DEF Work, ReturnRun, Deadline
  <2> QED
    BY <2>1, UnmovedKeepsType
<1>10. CASE BotChain
  <2>1. UNCHANGED <<monVars, botVars>>
    BY <1>10, Zenon DEF BotChain
  <2> QED
    BY <2>1, UnmovedKeepsType
<1>11. CASE BotTick
  <2>1. metricRebalance' \in 0..MaxAge /\ reported' \in 0..MaxAge
    BY <1>11, OlderStays DEF BotTick, MonTick
  <2>2. UNCHANGED <<status, fetched, ctxDone, pricePc, loopPc, monitorPc, signalPc, reqPc>>
    BY <1>11, Zenon DEF BotTick, MonTick
  <2> QED
    BY <2>1, <2>2
<1> QED
  BY <1>1, <1>3, <1>4, <1>5, <1>6, <1>7, <1>8, <1>9, <1>10, <1>11 DEF BotNext

-----------------------------------------------------------------------------
\* A worker's own step moves no other worker, wakes none that is idle, leaves
\* contexts and prices alone, and never makes the last rebalance older.
LEMMA WorkerFrame ==
  ASSUME TypeOK, NEW w \in Callers, WorkerStep(w)
  PROVE  /\ \A v \in Callers : v # w \/ pc[v] = "idle" => pc'[v] = pc[v]
         /\ UNCHANGED <<expired, priceVars>>
         /\ rebalanceAge' <= rebalanceAge
<1> USE DEF TypeOK, RebTypeOK, Go, gateVars, priceVars
<1>1. CASE CheckRunning(w) \/ CheckInterval(w) \/ CheckDeviation(w)
           \/ CheckCooldown(w) \/ CheckBps(w)
  BY <1>1 DEF CheckRunning, CheckInterval, CheckDeviation, CheckCooldown, CheckBps, Read
<1>2. CASE AskRisk(w) \/ TakeAnswer(w) \/ InCheck(w)
  BY <1>2 DEF AskRisk, TakeAnswer, InCheck, rebVars, workVars
<1>3. CASE ReadMarket(w) \/ FailMarket(w) \/ SendSwap(w) \/ FailSend(w)
  BY <1>3 DEF ReadMarket, FailMarket, SendSwap, FailSend
<1>4. CASE GetReceipt(w) \/ TimeOut(w)
  BY <1>4 DEF GetReceipt, TimeOut, Forget, Settle
<1>5. CASE Retry(w) \/ GiveUp(w)
  BY <1>5 DEF Retry, GiveUp
<1>6. CASE StampStabilize(w) \/ StampRebalance(w)
  BY <1>6 DEF StampStabilize, StampRebalance
<1> QED
  BY <1>1, <1>2, <1>3, <1>4, <1>5, <1>6 DEF WorkerStep, BoundedStep

\* So does the chain.
LEMMA ChainFrame ==
  ASSUME TypeOK, Chain
  PROVE  /\ \A v \in Callers : pc[v] = "idle" => pc'[v] = "idle"
         /\ UNCHANGED <<expired, priceVars, rebalanceAge>>
  BY DEF Chain, MineOrphan, MineSwap, RevertSwap, LoseReceipt, Forget, Settle, Go,
         workVars, gateVars, priceVars, TypeOK, RebTypeOK

-----------------------------------------------------------------------------
\* What the properties rest on: the loops run only in a process that is up; a
\* run of the rebalance loop belongs to its tick, and is cancelled with it.
BotInv ==
  /\ BotTypeOK
  /\ signalPc = "off" => pricePc = "off" /\ loopPc = "off"
  /\ pc[Loop] # "idle" => loopPc = "busy"
  /\ ctxDone => pc[Loop] = "idle" \/ expired[Loop]
  /\ ReportNotAhead
  /\ reported >= rebalanceAge

\* The type invariant is the rebalancer's and the bot's own.
LEMMA TypeSplit == BotTypeOK <=> TypeOK /\ OwnTypeOK
  BY DEF BotTypeOK, OwnTypeOK

\* Every step keeps both.
LEMMA BotTypeKept == BotTypeOK /\ [BotNext]_allVars => BotTypeOK'
<1> SUFFICES ASSUME BotTypeOK, [BotNext]_allVars PROVE BotTypeOK'
  OBVIOUS
<1>1. CASE BotNext
  <2>1. TypeOK'
    BY <1>1, BotStepKinds, OwnStepsKeepType, NextKeepsType, TypeSplit
  <2>2. OwnTypeOK'
    BY <1>1, OwnTypeKept, TypeSplit
  <2> QED
    BY <2>1, <2>2 DEF BotTypeOK, OwnTypeOK
<1>2. CASE UNCHANGED allVars
  <2>1. TypeOK'
    BY <1>2, NextKeepsType, TypeSplit DEF allVars
  <2>2. OwnTypeOK'
    BY <1>2, TypeSplit DEF allVars, monVars, botVars, heldVars, OwnTypeOK, MonTypeOK
  <2> QED
    BY <2>1, <2>2 DEF BotTypeOK, OwnTypeOK
<1> QED
  BY <1>1, <1>2

\* A new process has the invariant.
LEMMA BotInvInit == BotInit => BotInv
<1> SUFFICES ASSUME BotInit PROVE BotInv
  OBVIOUS
<1> USE RiskAssumption, RebalancerAssumption, BotAssumption
    DEF RiskAssumption, RebalancerAssumption, BotAssumption
<1>1. TypeOK
  BY InitType DEF BotInit
<1>2. ctxDone \in BOOLEAN
  BY DEF BotInit
<1>3. status \in Statuses
  BY Zenon DEF BotInit, MonInit, Statuses
<1>4. OwnTypeOK
  <2>1. MonTypeOK
    <3>1. metricRebalance = MaxAge
      BY DEF BotInit, MonInit
    <3> QED
      BY <1>3, <3>1 DEF MonTypeOK
  <2>2. fetched \in Nat /\ reported \in 0..MaxAge
    BY DEF BotInit
  <2> QED
    BY <1>2, <2>1, <2>2 DEF BotInit, OwnTypeOK
<1>5. pc[Loop] = "idle" /\ rebalanceAge = 0
  BY DEF BotInit, Init, RebInit
<1>6. metricRebalance = MaxAge /\ reported = MaxAge /\ pricePc = "off" /\ loopPc = "off"
  BY DEF BotInit, MonInit
<1>7. BotTypeOK
  BY <1>1, <1>4, TypeSplit
<1> QED
  BY <1>5, <1>6, <1>7 DEF BotInv, ReportNotAhead
-----------------------------------------------------------------------------
\* The run of the rebalance loop only goes on inside its tick, and a cancelled
\* process has cancelled it.
LEMMA RunKept ==
  ASSUME BotInv, BotNext
  PROVE  /\ signalPc' = "off" => pricePc' = "off" /\ loopPc' = "off"
         /\ pc'[Loop] # "idle" => loopPc' = "busy"
         /\ ctxDone' => pc'[Loop] = "idle" \/ expired'[Loop]
<1> USE BotAssumption DEF BotAssumption, BotInv, BotTypeOK, TypeOK, RebTypeOK, botVars, Go
<1>1. CASE Launch
  BY <1>1 DEF Launch, Start, workVars
<1>2. CASE PriceLoop
  BY <1>2 DEF PriceLoop, PriceTick, FetchEnds, FetchPrice, FetchFails, PushPrice, PriceExit, UpdatePrices, vars, rebVars, workVars
<1>3. CASE RebalanceLoop
  BY <1>3 DEF RebalanceLoop, RebalanceTick, RebalanceDone, ReadRebalanceTime, StoreRebalanceTime, LoopExit,
              Begin, Return, vars, rebVars, workVars
<1>4. CASE MonitorLoop
  BY <1>4 DEF MonitorLoop, MonitorTick, MonitorStop, MonitorStatus, MonitorExit, Stop,
              vars, rebVars, workVars
<1>5. CASE Signal \/ SignalStop
  BY <1>5 DEF Signal, SignalStop, Stop, workVars
<1>6. CASE BotRestart
  BY <1>6 DEF BotRestart, Restart
<1>7. ASSUME NEW r \in Requests, Handler(r)
      PROVE  /\ signalPc' # "off"
             /\ UNCHANGED <<loopPc, ctxDone>>
             /\ pc'[Loop] = pc[Loop] /\ expired'[Loop] = expired[Loop]
  <2>1. CASE StartRequest(r) \/ StopRequest(r)
    BY <2>1 DEF StartRequest, StopRequest, Serve, Start, Stop, workVars
  <2>2. CASE StartStatus(r) \/ StopStatus(r) \/ RebalanceRequest(r)
    BY <2>2 DEF StartStatus, StopStatus, RebalanceRequest, Serve, vars, rebVars, workVars
  <2>3. ASSUME NEW w \in Callers, SpawnRun(r, w)
        PROVE  /\ signalPc' # "off"
               /\ UNCHANGED <<loopPc, ctxDone>>
               /\ pc'[Loop] = pc[Loop] /\ expired'[Loop] = expired[Loop]
    BY <2>3 DEF SpawnRun, Serve, Begin
  <2> QED
    BY <1>7, <2>1, <2>2, <2>3 DEF Handler
<1>8. ASSUME NEW w \in Callers, Work(w)
      PROVE  /\ UNCHANGED <<botVars, expired>>
             /\ pc[Loop] = "idle" => pc'[Loop] = "idle"
  BY <1>8, WorkerFrame DEF Work
<1>9. ASSUME NEW w \in Callers, ReturnRun(w) \/ Deadline(w)
      PROVE  /\ UNCHANGED botVars
             /\ pc'[Loop] = pc[Loop] /\ (expired[Loop] => expired'[Loop])
  BY <1>9 DEF ReturnRun, Deadline, Return, Expire
<1>10. CASE BotChain
  BY <1>10, ChainFrame DEF BotChain
<1>11. CASE BotTick
  BY <1>11 DEF BotTick, Tick, workVars
<1> QED
  BY <1>1, <1>2, <1>3, <1>4, <1>5, <1>6, <1>7, <1>8, <1>9, <1>10, <1>11 DEF BotNext
\* The time that is shown, and the one that is about to be, are those of the
\* last rebalance or of an earlier one.
LEMMA ReportKept ==
  ASSUME BotInv, BotNext
  PROVE  ReportNotAhead' /\ reported' >= rebalanceAge'
<1> USE RebalancerAssumption
    DEF RebalancerAssumption, BotInv, ReportNotAhead, BotTypeOK, TypeOK, RebTypeOK,
        MonTypeOK, botVars, heldVars, monVars, gateVars
<1>1. CASE Launch
  BY <1>1 DEF Launch, Start
<1>2. CASE PriceLoop
  BY <1>2 DEF PriceLoop, PriceTick, FetchEnds, FetchPrice, FetchFails, PushPrice, PriceExit, UpdatePrices,
              vars, rebVars
<1>3. CASE RebalanceLoop
  BY <1>3 DEF RebalanceLoop, RebalanceTick, RebalanceDone, ReadRebalanceTime, StoreRebalanceTime, LoopExit,
              Begin, Return, UpdateLastRebalance, vars, rebVars
<1>4. CASE MonitorLoop
  BY <1>4 DEF MonitorLoop, MonitorTick, MonitorStop, MonitorStatus, MonitorExit, Stop,
              UpdateStatus, vars, rebVars
<1>5. CASE Signal \/ SignalStop
  BY <1>5 DEF Signal, SignalStop, Stop
<1>6. CASE BotRestart
  <2>1. rebalanceAge' = 0 /\ metricRebalance' = MaxAge /\ reported' = MaxAge
    BY <1>6, Zenon DEF BotRestart, Restart
  <2> QED
    BY <2>1
<1>7. ASSUME NEW r \in Requests, Handler(r)
      PROVE  UNCHANGED <<metricRebalance, reported, rebalanceAge>>
  BY <1>7 DEF Handler, StartRequest, StartStatus, StopRequest, StopStatus,
              RebalanceRequest, SpawnRun, Serve, UpdateStatus, Start, Stop, Begin, vars, rebVars
<1>8. ASSUME NEW w \in Callers, Work(w) \/ ReturnRun(w) \/ Deadline(w)
      PROVE  UNCHANGED <<metricRebalance, reported>> /\ rebalanceAge' <= rebalanceAge
  BY <1>8, WorkerFrame DEF Work, ReturnRun, Deadline, Return, Expire
<1>9. CASE BotChain
  BY <1>9, ChainFrame DEF BotChain
<1>10. CASE BotTick
  BY <1>10, OlderMonotone DEF BotTick, Tick, MonTick
<1>11. ASSUME NEW w \in Callers, Work(w) \/ ReturnRun(w) \/ Deadline(w)
       PROVE  ReportNotAhead' /\ reported' >= rebalanceAge'
  <2>1. rebalanceAge' \in Nat
    BY <1>11, BotTypeKept DEF BotNext
  <2> QED
    BY <1>8, <1>11, <2>1
<1> QED
  BY <1>1, <1>2, <1>3, <1>4, <1>5, <1>6, <1>7, <1>9, <1>10, <1>11 DEF BotNext

-----------------------------------------------------------------------------
\* BotInv holds in every state of the bot.
THEOREM BotInvariant == BotSpec => []BotInv
<1>1. BotInv /\ [BotNext]_allVars => BotInv'
  <2> SUFFICES ASSUME BotInv, [BotNext]_allVars PROVE BotInv'
    OBVIOUS
  <2>1. BotTypeOK'
    BY BotTypeKept DEF BotInv
  <2>2. CASE BotNext
    BY <2>1, <2>2, RunKept, ReportKept DEF BotInv
  <2>3. CASE UNCHANGED allVars
    BY <2>1, <2>3
       DEF BotInv, allVars, vars, rebVars, priceVars, gateVars, workVars, monVars, botVars,
           heldVars, ReportNotAhead
  <2> QED
    BY <2>2, <2>3
<1> QED
  BY <1>1, BotInvInit, PTL DEF BotSpec

\* The bot, its rebalancer, its engine and its metrics keep their types.
THEOREM BotTypeCorrect == BotSpec => []BotTypeOK
<1>1. BotInv => BotTypeOK
  BY DEF BotInv
<1> QED
  BY <1>1, BotInvariant, PTL

\* The metrics never show a rebalance later than the last one, although its
\* time is read before it is stored and other runs go on in between.
THEOREM ReportNeverAhead == BotSpec => []ReportNotAhead
<1>1. BotInv => ReportNotAhead
  BY DEF BotInv
<1> QED
  BY <1>1, BotInvariant, PTL

\* After a shutdown has begun, the rebalance loop decides on no new swap.
THEOREM NoSwapAfterCancel == BotSpec => NoNewSwapAfterCancel
<1>1. BotInv => (ctxDone => ~ReadMarket(Loop))
  BY BotAssumption DEF BotAssumption, BotInv, ReadMarket, Go
<1> QED
  BY <1>1, BotInvariant, PTL DEF NoNewSwapAfterCancel
\* In the bot too, a stabilization is always followed by the rebalance's stamp.
THEOREM StampsAlwaysInOrder == BotSpec => []StampsOrdered
<1>1. BotInit => StampsOrdered
  BY DEF BotInit, Init, RebInit, StampsOrdered
<1>2. BotTypeOK /\ StampsOrdered /\ [BotNext]_allVars => StampsOrdered'
  <2> SUFFICES ASSUME BotTypeOK, StampsOrdered, [BotNext]_allVars PROVE StampsOrdered'
    OBVIOUS
  <2>1. TypeOK /\ ([Next]_vars => StampsOrdered')
    BY NextKeepsOrder, TypeSplit
  <2> QED
    BY <2>1, BotStepKinds, OwnStepsKeepOrder DEF allVars
<1> QED
  BY <1>1, <1>2, BotTypeCorrect, PTL DEF BotSpec

-----------------------------------------------------------------------------
\* A swap of the worker is under way.
Sending(w) == pc[w] = "send" \/ (pc[w] = "wait" /\ tx[w] = "sent")

\* What keeps the cooldown in the bot when the loop is the only worker: as for
\* one worker alone, but a signal may take away the wait for one swap; the run
\* whose context it cancelled, and those after it, send no other.
BotCooldownInv ==
  /\ ctxDone => Signals
  /\ expired[Loop] => ctxDone
  /\ tx[Loop] # "none" => pc[Loop] = "wait"
  /\ Sending(Loop) \/ (~expired[Loop] /\ Deciding(Loop)) \/ orphans > 0 => swapAge >= Cooldown
  /\ orphans > 0 => orphans = 1 /\ ctxDone /\ ~Sending(Loop)
  /\ ~ctxDone /\ ~Unstamped(Loop) => stabilizeAge <= swapAge

\* The state it is about.
cooldownVars == <<pc, expired, stabilizeAge, chainVars, ctxDone>>

\* It holds at first,
LEMMA CooldownInit == BotInit => BotCooldownInv
  BY RebalancerAssumption, BotAssumption
     DEF RebalancerAssumption, BotAssumption, BotInit, Init, RebInit, BotCooldownInv, Deciding,
         Unstamped, Sending

\* when the loop works,
LEMMA LoopKeepsCooldown ==
  ASSUME BotInv, BotCooldownInv, ReceiptsArrive, WorkerStep(Loop), UNCHANGED ctxDone
  PROVE  BotCooldownInv'
<1> USE RebalancerAssumption, BotAssumption
    DEF RebalancerAssumption, BotAssumption, BotCooldownInv, Deciding, Unstamped, Sending, Go,
        gateVars, chainVars
<1>0. /\ pc \in [Callers -> WorkSteps] /\ expired \in [Callers -> BOOLEAN]
      /\ tx \in [Callers -> {"none", "sent", "mined", "reverted"}]
      /\ orphans \in 0..MaxOrphans /\ swapAge \in 0..MaxAge /\ stabilizeAge \in 0..MaxAge
      /\ ctxDone => pc[Loop] = "idle" \/ expired[Loop]
  BY DEF BotInv, BotTypeOK, TypeOK, RebTypeOK
<1>1. CASE CheckRunning(Loop) \/ CheckInterval(Loop) \/ CheckDeviation(Loop) \/ CheckBps(Loop)
  BY <1>0, <1>1 DEF CheckRunning, CheckInterval, CheckDeviation, CheckBps, Approved, Read
<1>2. CASE CheckCooldown(Loop)
  BY <1>0, <1>2 DEF CheckCooldown, Read
<1>3. CASE AskRisk(Loop) \/ TakeAnswer(Loop)
  BY <1>0, <1>3 DEF AskRisk, TakeAnswer, Approved
<1>4. CASE InCheck(Loop)
  BY <1>0, <1>4 DEF InCheck, rebVars, workVars
<1>5. CASE ReadMarket(Loop) \/ FailMarket(Loop)
  BY <1>0, <1>5 DEF ReadMarket, FailMarket
<1>6. CASE SendSwap(Loop) \/ FailSend(Loop)
  BY <1>0, <1>6 DEF SendSwap, FailSend
<1>7. CASE GetReceipt(Loop)
  BY <1>0, <1>7 DEF GetReceipt, Settle
<1>8. CASE TimeOut(Loop)
  BY <1>0, <1>8 DEF TimeOut, Forget, Settle, Older
<1>9. CASE Retry(Loop) \/ GiveUp(Loop)
  BY <1>0, <1>9 DEF Retry, GiveUp
<1>10. CASE StampStabilize(Loop) \/ StampRebalance(Loop)
  BY <1>0, <1>10 DEF StampStabilize, StampRebalance
<1> QED
  BY <1>1, <1>2, <1>3, <1>4, <1>5, <1>6, <1>7, <1>8, <1>9, <1>10 DEF WorkerStep, BoundedStep

\* when the chain does,
LEMMA ChainKeepsCooldown ==
  ASSUME OneCaller, BotInv, BotCooldownInv, ReceiptsArrive, Chain, UNCHANGED ctxDone
  PROVE  BotCooldownInv'
<1> USE RebalancerAssumption, BotAssumption
    DEF RebalancerAssumption, BotAssumption, BotCooldownInv, Deciding, Unstamped, Sending, gateVars,
        workVars
<1>0. /\ pc \in [Callers -> WorkSteps] /\ expired \in [Callers -> BOOLEAN]
      /\ tx \in [Callers -> {"none", "sent", "mined", "reverted"}]
      /\ orphans \in 0..MaxOrphans /\ swapAge \in 0..MaxAge /\ stabilizeAge \in 0..MaxAge
      /\ ctxDone => pc[Loop] = "idle" \/ expired[Loop]
      /\ \A w \in Callers : w = Loop
  BY DEF BotInv, BotTypeOK, TypeOK, RebTypeOK, OneCaller
<1>1. CASE MineSwap(Loop)
  BY <1>0, <1>1 DEF MineSwap
<1>2. CASE RevertSwap(Loop)
  BY <1>0, <1>2 DEF RevertSwap
<1>3. CASE MineOrphan
  BY <1>0, <1>3 DEF MineOrphan
<1> QED
  BY <1>0, <1>1, <1>2, <1>3, ReceiptsArrive DEF Chain, LoseReceipt

\* and in every step of the bot.
LEMMA BotKeepsCooldown ==
  ASSUME OneCaller, ReceiptsArrive, ~ Signals \/ ~ Crashes,
         BotInv, BotCooldownInv, [BotNext]_allVars
  PROVE  BotCooldownInv'
<1> USE RebalancerAssumption, BotAssumption DEF RebalancerAssumption, BotAssumption
<1>0. /\ pc \in [Callers -> WorkSteps] /\ expired \in [Callers -> BOOLEAN]
      /\ tx \in [Callers -> {"none", "sent", "mined", "reverted"}]
      /\ orphans \in 0..MaxOrphans /\ swapAge \in 0..MaxAge /\ stabilizeAge \in 0..MaxAge
      /\ pc[Loop] # "idle" => loopPc = "busy"
      /\ ctxDone \in BOOLEAN
      /\ ctxDone => pc[Loop] = "idle" \/ expired[Loop]
      /\ \A w \in Callers : w = Loop
  BY DEF BotInv, BotTypeOK, TypeOK, RebTypeOK, OneCaller
<1>1. ASSUME UNCHANGED cooldownVars PROVE BotCooldownInv'
  BY <1>1 DEF cooldownVars, chainVars, BotCooldownInv, Deciding, Unstamped, Sending
<1>2. CASE Launch
  BY <1>1, <1>2 DEF Launch, Start, cooldownVars, workVars
<1>3. CASE PriceLoop
  <2>1. UNCHANGED cooldownVars
    BY <1>3 DEF PriceLoop, PriceTick, FetchEnds, FetchPrice, FetchFails, PushPrice, PriceExit, UpdatePrices, cooldownVars, vars,
                rebVars, gateVars, workVars
  <2> QED
    BY <1>1, <2>1
<1>4. CASE RebalanceTick
  BY <1>0, <1>4 DEF RebalanceTick, Begin, Go, BotCooldownInv, Deciding, Unstamped, Sending, gateVars,
                    chainVars
<1>5. CASE RebalanceDone
  BY <1>0, <1>5 DEF RebalanceDone, Return, BotCooldownInv, Deciding, Unstamped, Sending, gateVars,
                    chainVars
<1>6. CASE ReadRebalanceTime \/ StoreRebalanceTime \/ LoopExit
  BY <1>1, <1>6 DEF ReadRebalanceTime, StoreRebalanceTime, LoopExit, cooldownVars, vars, rebVars, gateVars, workVars
<1>7. CASE MonitorLoop
  BY <1>1, <1>7 DEF MonitorLoop, MonitorTick, MonitorStop, MonitorStatus, MonitorExit, Stop,
                    cooldownVars, vars, rebVars, gateVars, workVars
<1>8. CASE Signal
  BY <1>0, <1>8 DEF Signal, BotCooldownInv, Deciding, Unstamped, Sending, gateVars, chainVars
<1>9. CASE SignalStop
  BY <1>1, <1>9 DEF SignalStop, Stop, cooldownVars, workVars
<1>10. CASE BotRestart
  <2>1. Crashes /\ ~ ctxDone
    BY <1>10 DEF BotRestart, Restart, BotCooldownInv
  <2>2. {w \in Callers : tx[w] = "sent"} = {}
    BY <1>10, ReceiptsArrive DEF BotRestart, Restart
  <2>3. orphans = 0
    BY <1>0, <2>1 DEF BotCooldownInv
  <2>4. orphans' = 0
    <3>1. orphans' = AtMost(orphans + Cardinality({w \in Callers : tx[w] = "sent"}), MaxOrphans)
      BY <1>10 DEF BotRestart, Restart
    <3>2. orphans' = AtMost(0 + Cardinality({}), MaxOrphans)
      BY <2>2, <2>3, <3>1
    <3> QED
      BY <3>2, FS_EmptySet DEF AtMost
  <2>5. pc'[Loop] = "idle" /\ expired'[Loop] = FALSE /\ tx'[Loop] = "none"
    BY <1>10 DEF BotRestart, Restart
  <2>6. stabilizeAge' = 0 /\ swapAge' = swapAge /\ ctxDone' = FALSE
    BY <1>10 DEF BotRestart, Restart
  <2> QED
    BY <1>0, <2>4, <2>5, <2>6 DEF BotCooldownInv, Deciding, Unstamped, Sending
<1>11. ASSUME NEW r \in Requests, Handler(r) PROVE BotCooldownInv'
  <2>1. ~ \E w \in Callers : SpawnRun(r, w)
    BY <1>0 DEF SpawnRun
  <2> QED
    BY <1>1, <1>11, <2>1 DEF Handler, StartRequest, StartStatus, StopRequest, StopStatus,
              RebalanceRequest, Serve, Start, Stop, cooldownVars, vars, rebVars, gateVars, workVars
<1>12. ASSUME NEW w \in Callers, Work(w) PROVE BotCooldownInv'
  BY <1>0, <1>12, LoopKeepsCooldown DEF Work, botVars
<1>13. ASSUME NEW w \in Callers, ReturnRun(w) \/ Deadline(w) PROVE FALSE
  BY <1>0, <1>13, ReceiptsArrive DEF ReturnRun, Deadline, Expire
<1>14. CASE BotChain
  BY <1>14, ChainKeepsCooldown DEF BotChain, botVars
<1>15. CASE BotTick
  <2>1. swapAge' \in 0..MaxAge /\ swapAge' >= swapAge
    BY <1>0, <1>15, OlderGrows DEF BotTick, Tick
  <2>2. stabilizeAge <= swapAge => stabilizeAge' <= swapAge'
    BY <1>0, <1>15, OlderMonotone DEF BotTick, Tick
  <2>3. UNCHANGED <<pc, expired, tx, orphans, ctxDone>>
    BY <1>15 DEF BotTick, Tick, workVars, botVars
  <2> QED
    BY <1>0, <2>1, <2>2, <2>3 DEF BotCooldownInv, Deciding, Unstamped, Sending
<1>16. CASE UNCHANGED allVars
  BY <1>1, <1>16 DEF allVars, vars, rebVars, gateVars, workVars, botVars, cooldownVars
<1> QED
  BY <1>2, <1>3, <1>4, <1>5, <1>6, <1>7, <1>8, <1>9, <1>10, <1>11, <1>12, <1>13, <1>14, <1>15, <1>16
     DEF BotNext, RebalanceLoop

\* The bot mines no two swaps within one cooldown, with its loops, its API and
\* crashes, or signals, when no request starts a run and the chain answers in
\* time.  A bot that is told to end while it waits for a swap and is started
\* again may: the new process knows neither of the swap nor of its stamp.
THEOREM BotKeepsCooldownAlone ==
  ASSUME OneCaller, ReceiptsArrive, ~ Signals \/ ~ Crashes
  PROVE  BotSpec => CooldownKept
<1>1. BotInv /\ BotCooldownInv /\ [BotNext]_allVars => BotCooldownInv'
  BY BotKeepsCooldown
<1>2. BotInv /\ BotCooldownInv
        => [MineOrphan \/ (\E w \in Callers : MineSwap(w)) => swapAge >= Cooldown]_vars
  <2> SUFFICES ASSUME BotInv, BotCooldownInv, MineOrphan \/ (\E w \in Callers : MineSwap(w))
               PROVE  swapAge >= Cooldown
    OBVIOUS
  <2>1. CASE MineOrphan
    BY <2>1 DEF BotCooldownInv, MineOrphan
  <2>2. ASSUME NEW w \in Callers, MineSwap(w) PROVE swapAge >= Cooldown
    BY <2>2, OneCaller, BotAssumption
       DEF OneCaller, BotAssumption, BotCooldownInv, Sending, MineSwap
  <2> QED
    BY <2>1, <2>2
<1> QED
  BY <1>1, <1>2, CooldownInit, BotInvariant, PTL DEF BotSpec, CooldownKept

-----------------------------------------------------------------------------
\* A step that leaves the engine alone leaves the latch alone.
LEMMA EngineAlone ==
  ASSUME LatchInv, UNCHANGED riskVars
  PROVE  LatchInv' /\ UNCHANGED Latch!vars
  BY OthersKeepLatchInv, LatchStutters DEF riskVars, breakerVars, checkVars, Passed

\* A worker moves the latch only as its call of CheckRisk does.
LEMMA WorkerMovesLatch ==
  ASSUME OneCaller, RiskTypeOK, LatchInv, NEW w \in Callers, WorkerStep(w)
  PROVE  LatchInv' /\ (Latch!Next \/ UNCHANGED Latch!vars)
<1>1. CASE AskRisk(w)
  BY <1>1, OneCaller, BeginKeepsLatch DEF AskRisk
<1>2. CASE InCheck(w) \/ TakeAnswer(w)
  <2>1. CallerNext(w)
    BY <1>2 DEF InCheck, TakeAnswer, CallerNext
  <2> QED
    BY <2>1, OneCaller, CallerKeepsLatchInv, CallerMovesLatch
<1>3. CASE UNCHANGED riskVars
  BY <1>3, EngineAlone
<1> QED
  BY <1>1, <1>2, <1>3
     DEF WorkerStep, BoundedStep, Read, CheckRunning, CheckInterval, CheckDeviation, CheckCooldown,
         CheckBps, ReadMarket, FailMarket, SendSwap, FailSend, GetReceipt, TimeOut, Forget,
         Settle, Retry, GiveUp, StampStabilize, StampRebalance

\* Every step of the bot moves the latch as the engine does, except a restart,
\* which makes a new engine.
LEMMA BotMovesLatch ==
  ASSUME OneCaller, RiskTypeOK, LatchInv, [BotNext]_allVars
  PROVE  LatchInv' /\ (Latch!Next \/ UNCHANGED Latch!vars \/ Restart)
<1>1. ASSUME NEW w \in Callers, WorkerStep(w)
      PROVE  LatchInv' /\ (Latch!Next \/ UNCHANGED Latch!vars)
  BY <1>1, OneCaller, WorkerMovesLatch
<1>2. CASE Tick
  BY <1>2, TickKeepsLatchInv, TickMovesLatch DEF Tick
<1>3. CASE Restart
  BY <1>3 DEF Restart, RiskRestart, LatchInv, FlagUp, FlagDown
<1>4. CASE UNCHANGED riskVars
  BY <1>4, EngineAlone
<1>5. PushPrice \/ RebalanceTick \/ Signal \/ UNCHANGED allVars => UNCHANGED riskVars
  BY DEF PushPrice, UpdatePrices, RebalanceTick, Begin, Signal, allVars, vars
<1>6. Next => \/ \E w \in Callers : WorkerStep(w)
              \/ Tick \/ Restart \/ UNCHANGED riskVars
  BY DEF Next, UpdatePrices, Start, Stop, Begin, Return, Expire, Chain, MineOrphan, MineSwap,
         RevertSwap, LoseReceipt, Forget, Settle
<1>7. UNCHANGED vars => UNCHANGED riskVars
  BY DEF vars
<1> QED
  BY <1>1, <1>2, <1>3, <1>4, <1>5, <1>6, <1>7, BotStepKinds

\* What the latch needs holds in every state of a bot that never rebalances on
\* request.
LEMMA BotLatchInvariant ==
  ASSUME OneCaller
  PROVE  BotSpec => [](BotInv /\ LatchInv)
<1>1. BotInit => LatchInv
  BY DEF BotInit, Init, RiskInit, LatchInv, FlagUp, FlagDown
<1>2. BotInv => RiskTypeOK
  BY DEF BotInv, BotTypeOK, TypeOK
<1>3. BotInv /\ LatchInv /\ [BotNext]_allVars => LatchInv'
  BY <1>2, OneCaller, BotMovesLatch
<1> QED
  BY <1>1, <1>3, BotInvariant, PTL DEF BotSpec

\* In the whole bot, a trip stays latched for its duration when the loop is the
\* only worker: neither the monitor, nor a signal, nor a request to start lowers
\* the flag, and a restart forgets trip and flag together.
THEOREM BotHoldsLatchAlone ==
  ASSUME OneCaller
  PROVE  BotSpec => []LatchHolds
<1>1. BotInv /\ LatchInv => LatchHolds
  BY RiskAssumption
     DEF RiskAssumption, BotInv, BotTypeOK, TypeOK, RiskTypeOK, Ages, LatchInv, LatchHolds
<1> QED
  BY <1>1, BotLatchInvariant, PTL

\* As long as it is not killed, the whole bot implements the latch: no request,
\* signal or loop opens it before its time, or has a check allowed while it is
\* held.
THEOREM BotImplementsLatchAlone ==
  ASSUME OneCaller, ~ Crashes
  PROVE  BotSpec => LatchImplemented
<1>1. BotInit => Latch!Init
  BY RiskAssumption DEF RiskAssumption, BotInit, Init, RiskInit, Latch!Init
<1>2. BotInv /\ LatchInv /\ [BotNext]_allVars => [Latch!Next]_Latch!vars
  <2>1. ~ Restart
    BY DEF Restart
  <2> QED
    BY <2>1, OneCaller, BotMovesLatch DEF BotInv, BotTypeOK, TypeOK
<1> QED
  BY <1>1, <1>2, BotLatchInvariant, PTL DEF BotSpec, LatchImplemented, Latch!Spec
=============================================================================
