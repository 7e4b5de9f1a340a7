--------------------------------- MODULE Bot ---------------------------------
(***************************************************************************)
(* main.go's Bot and the handlers of pkg/api/service.go that steer it: the *)
(* price loop, the rebalance loop, the monitor loop, the goroutine that    *)
(* waits for a signal, and the requests POST /start, /stop and /rebalance. *)
(* A loop's ticker may fire whenever the loop waits for it.                *)
(***************************************************************************)
EXTENDS Monitor

CONSTANTS
  Loop,       \* the worker that is the rebalance loop
  Requests,   \* API requests that may be handled at the same time
  Signals     \* the process may be sent SIGINT or SIGTERM

ASSUME BotAssumption == Loop \in Callers /\ Signals \in BOOLEAN

VARIABLES
  ctxDone,      \* the process's context is cancelled
  pricePc,      \* priceUpdateLoop
  loopPc,       \* rebalanceLoop
  monitorPc,    \* monitorLoop
  signalPc,     \* the goroutine that runs Bot.Stop
  reqPc,        \* the handlers
  fetched,      \* the priceInfo that priceUpdateLoop holds
  reported      \* age of the time that executeRebalance has read

heldVars == <<fetched, reported>>
botVars == <<ctxDone, pricePc, loopPc, monitorPc, signalPc, reqPc, heldVars>>
allVars == <<vars, monVars, botVars>>

BotTypeOK ==
  /\ TypeOK
  /\ MonTypeOK
  /\ ctxDone \in BOOLEAN
  /\ pricePc \in {"off", "wait", "fetch", "push", "exited"}
  /\ loopPc \in {"off", "wait", "busy", "report", "store", "exited"}
  /\ monitorPc \in {"off", "wait", "stop", "status", "exited"}
  /\ signalPc \in {"off", "armed", "stop", "closed"}
  /\ reqPc \in [Requests -> {"idle", "started", "stopped", "spawn"}]
  /\ fetched \in Nat
  /\ reported \in 0..MaxAge

\* NewBot: nothing runs, the rebalancer included.
BotInit ==
  /\ Init
  /\ MonInit
  /\ ctxDone = FALSE
  /\ pricePc = "off" /\ loopPc = "off" /\ monitorPc = "off"
  /\ signalPc = "off"
  /\ reqPc = [r \in Requests |-> "idle"]
  /\ fetched = Par
  /\ reported = MaxAge

\* handleStartBot starts the rebalancer, then the loops, then the API.
Launch ==
  /\ signalPc = "off"
  /\ Start
  /\ pricePc' = "wait" /\ loopPc' = "wait" /\ monitorPc' = "wait"
  /\ signalPc' = "armed"
  /\ UNCHANGED <<monVars, heldVars, ctxDone, reqPc>>

-----------------------------------------------------------------------------
\* priceUpdateLoop.  The pool is read with nil options, so neither the 30
\* seconds of updatePrices nor a cancel ends a read the node does not answer.
PriceTick ==
  /\ pricePc = "wait"
  /\ pricePc' = "fetch"
  /\ UNCHANGED <<vars, monVars, heldVars, ctxDone, loopPc, monitorPc, signalPc, reqPc>>

FetchPrice(current) ==
  /\ pricePc = "fetch"
  /\ pricePc' = "push"
  /\ fetched' = current
  /\ UNCHANGED <<vars, monVars, reported, ctxDone, loopPc, monitorPc, signalPc, reqPc>>

\* A price that could not be fetched changes nothing.
FetchFails ==
  /\ pricePc = "fetch"
  /\ pricePc' = "wait"
  /\ UNCHANGED <<vars, monVars, heldVars, ctxDone, loopPc, monitorPc, signalPc, reqPc>>

\* The rebalancer is given what was fetched, however old it is by now; the
\* metrics, which are given it too, are the module Metrics.
PushPrice ==
  /\ pricePc = "push"
  /\ pricePc' = "wait"
  /\ UpdatePrices(fetched)
  /\ fetched' = Par
  /\ UNCHANGED <<monVars, reported, ctxDone, loopPc, monitorPc, signalPc, reqPc>>

\* The select takes the cancelled context.
PriceExit ==
  /\ pricePc = "wait" /\ ctxDone
  /\ pricePc' = "exited"
  /\ UNCHANGED <<vars, monVars, heldVars, ctxDone, loopPc, monitorPc, signalPc, reqPc>>

-----------------------------------------------------------------------------
\* Mutant of RebalanceTick: the run's context is not derived from the process's.
RebalanceTickDetached ==
  /\ loopPc = "wait"
  /\ loopPc' = "busy"
  /\ Begin(Loop, FALSE)
  /\ UNCHANGED <<monVars, heldVars, ctxDone, pricePc, monitorPc, signalPc, reqPc>>

\* rebalanceLoop: executeRebalance derives its context from the process's.
RebalanceTick ==
  /\ loopPc = "wait"
  /\ loopPc' = "busy"
  /\ Begin(Loop, ctxDone)
  /\ UNCHANGED <<monVars, heldVars, ctxDone, pricePc, monitorPc, signalPc, reqPc>>

RebalanceDone ==
  /\ loopPc = "busy"
  /\ loopPc' = IF pc[Loop] = "ok" THEN "report" ELSE "wait"
  /\ Return(Loop)
  /\ UNCHANGED <<monVars, heldVars, ctxDone, pricePc, monitorPc, signalPc, reqPc>>

\* A success is reported to the monitor: the time is read from the rebalancer,
ReadRebalanceTime ==
  /\ loopPc = "report"
  /\ loopPc' = "store"
  /\ reported' = rebalanceAge
  /\ UNCHANGED <<vars, monVars, fetched, ctxDone, pricePc, monitorPc, signalPc, reqPc>>

\* Mutant of StoreRebalanceTime: the time of the report is stored.
StoreNow ==
  /\ loopPc = "store"
  /\ loopPc' = "wait"
  /\ UpdateLastRebalance(0)
  /\ reported' = MaxAge
  /\ UNCHANGED <<vars, fetched, ctxDone, pricePc, monitorPc, signalPc, reqPc>>

\* and then stored under the monitor's lock; another run may have stamped a
\* rebalance in between.
StoreRebalanceTime ==
  /\ loopPc = "store"
  /\ loopPc' = "wait"
  /\ UpdateLastRebalance(reported)
  /\ reported' = MaxAge
  /\ UNCHANGED <<vars, fetched, ctxDone, pricePc, monitorPc, signalPc, reqPc>>

LoopExit ==
  /\ loopPc = "wait" /\ ctxDone
  /\ loopPc' = "exited"
  /\ UNCHANGED <<vars, monVars, heldVars, ctxDone, pricePc, monitorPc, signalPc, reqPc>>

-----------------------------------------------------------------------------
\* Mutant of MonitorTick: nothing is done about a bot that is stopped already.
MonitorTickRunning ==
  /\ monitorPc = "wait" /\ isCircuitBreaker /\ isRunning
  /\ monitorPc' = "stop"
  /\ UNCHANGED <<vars, monVars, heldVars, ctxDone, pricePc, loopPc, signalPc, reqPc>>

\* monitorLoop: checkAlerts reads the breaker's flag and, if it is up, stops
\* the rebalancer and then says so.
MonitorTick ==
  /\ monitorPc = "wait" /\ isCircuitBreaker
  /\ monitorPc' = "stop"
  /\ UNCHANGED <<vars, monVars, heldVars, ctxDone, pricePc, loopPc, signalPc, reqPc>>

\* Mutant of MonitorStop: the trip is only reported.
MonitorStopSkipped ==
  /\ monitorPc = "stop"
  /\ monitorPc' = "status"
  /\ UNCHANGED <<vars, monVars, heldVars, ctxDone, pricePc, loopPc, signalPc, reqPc>>

MonitorStop ==
  /\ monitorPc = "stop"
  /\ monitorPc' = "status"
  /\ Stop
  /\ UNCHANGED <<monVars, heldVars, ctxDone, pricePc, loopPc, signalPc, reqPc>>

MonitorStatus ==
  /\ monitorPc = "status"
  /\ monitorPc' = "wait"
  /\ UpdateStatus("circuit_breaker")
  /\ UNCHANGED <<vars, heldVars, ctxDone, pricePc, loopPc, signalPc, reqPc>>

MonitorExit ==
  /\ monitorPc = "wait" /\ ctxDone
  /\ monitorPc' = "exited"
  /\ UNCHANGED <<vars, monVars, heldVars, ctxDone, pricePc, loopPc, signalPc, reqPc>>

-----------------------------------------------------------------------------
\* Bot.Stop: cancel() also cancels the context of a run in progress.
Signal ==
  /\ Signals
  /\ signalPc = "armed"
  /\ signalPc' = "stop"
  /\ ctxDone' = TRUE
  /\ expired' = [expired EXCEPT ![Loop] = @ \/ loopPc = "busy"]
  /\ UNCHANGED <<riskVars, priceVars, gateVars, chainVars, pc, attempt, side>>
  /\ UNCHANGED <<monVars, heldVars, pricePc, loopPc, monitorPc, reqPc>>

\* then the rebalancer is stopped.
SignalStop ==
  /\ signalPc = "stop"
  /\ signalPc' = "closed"
  /\ Stop
  /\ UNCHANGED <<monVars, heldVars, ctxDone, pricePc, loopPc, monitorPc, reqPc>>

\* The whole process is killed and started again, the metrics with it.
BotRestart ==
  /\ signalPc # "off"
  /\ Restart
  /\ metricRebalance' = MaxAge /\ status' = ""
  /\ fetched' = Par /\ reported' = MaxAge
  /\ ctxDone' = FALSE
  /\ pricePc' = "off" /\ loopPc' = "off" /\ monitorPc' = "off"
  /\ signalPc' = "off"
  /\ reqPc' = [r \in Requests |-> "idle"]

-----------------------------------------------------------------------------
\* The API serves requests as long as the process lives, even after Bot.Stop.
Serve(r, from, to) ==
  /\ signalPc # "off"
  /\ reqPc[r] = from
  /\ reqPc' = [reqPc EXCEPT ![r] = to]
  /\ UNCHANGED <<heldVars, ctxDone, pricePc, loopPc, monitorPc, signalPc>>

\* handleStart.
StartRequest(r) == Serve(r, "idle", "started") /\ Start /\ UNCHANGED monVars
StartStatus(r) == Serve(r, "started", "idle") /\ UpdateStatus("running") /\ UNCHANGED vars

\* handleStop.
StopRequest(r) == Serve(r, "idle", "stopped") /\ Stop /\ UNCHANGED monVars
StopStatus(r) == Serve(r, "stopped", "idle") /\ UpdateStatus("stopped") /\ UNCHANGED vars

\* handleRebalance answers at once when the rebalancer is not running.
RebalanceRequest(r) ==
  /\ isRunning
  /\ Serve(r, "idle", "spawn")
  /\ UNCHANGED <<vars, monVars>>

\* Its goroutine has a context of its own, which no shutdown cancels.
SpawnRun(r, w) ==
  /\ w # Loop
  /\ Serve(r, "spawn", "idle")
  /\ Begin(w, FALSE)
  /\ UNCHANGED monVars

ReturnRun(w) == w # Loop /\ Return(w) /\ UNCHANGED <<monVars, botVars>>

-----------------------------------------------------------------------------
Work(w) == WorkerStep(w) /\ UNCHANGED <<monVars, botVars>>
Deadline(w) == Expire(w) /\ UNCHANGED <<monVars, botVars>>
BotChain == Chain /\ UNCHANGED <<monVars, botVars>>
BotTick ==
  /\ Tick
  /\ MonTick
  /\ reported' = Older(reported, MaxAge)
  /\ UNCHANGED <<fetched, ctxDone, pricePc, loopPc, monitorPc, signalPc, reqPc>>

FetchEnds == (\E current \in Prices : FetchPrice(current)) \/ FetchFails
PriceLoop == PriceTick \/ FetchEnds \/ PushPrice \/ PriceExit
RebalanceLoop ==
  RebalanceTick \/ RebalanceDone \/ ReadRebalanceTime \/ StoreRebalanceTime \/ LoopExit
MonitorLoop == MonitorTick \/ MonitorStop \/ MonitorStatus \/ MonitorExit
Handler(r) ==
  \/ StartRequest(r) \/ StartStatus(r)
  \/ StopRequest(r) \/ StopStatus(r)
  \/ RebalanceRequest(r) \/ \E w \in Callers : SpawnRun(r, w)

BotNext ==
  \/ Launch
  \/ PriceLoop \/ RebalanceLoop \/ MonitorLoop
  \/ Signal \/ SignalStop \/ BotRestart
  \/ \E r \in Requests : Handler(r)
  \/ \E w \in Callers : Work(w) \/ ReturnRun(w) \/ Deadline(w)
  \/ BotChain \/ BotTick

BotSpec == BotInit /\ [][BotNext]_allVars

\* Tickers tick, goroutines run, contexts expire and time passes.  A select
\* picks among the ready cases at random, so a loop that finds its context
\* done again and again takes that case (SF); no request or signal has to
\* come.  The two calls of the node that have no context, the price loop's
\* read and a run's send, need not return.
BotFairness ==
  /\ WF_allVars(Launch)
  /\ WF_allVars(PriceTick \/ PushPrice) /\ SF_allVars(PriceExit)
  /\ WF_allVars(RebalanceLoop) /\ SF_allVars(LoopExit)
  /\ WF_allVars(MonitorLoop) /\ SF_allVars(MonitorExit)
  /\ WF_allVars(SignalStop)
  /\ WF_allVars(BotTick)
  /\ \A w \in Callers :
       /\ WF_allVars(BoundedStep(w) /\ UNCHANGED <<monVars, botVars>>)
       /\ WF_allVars(ReturnRun(w)) /\ WF_allVars(Deadline(w))
  /\ \A r \in Requests : WF_allVars(StartStatus(r) \/ StopStatus(r))

BotFairSpec == BotSpec /\ BotFairness

\* A node and a chain that serve the bot: a read of the price returns, and a
\* swap that is tried again and again is sent and mined at last.
ChainServes ==
  /\ WF_allVars(FetchEnds)
  /\ \A w \in Callers :
       /\ SF_allVars(ReadMarket(w) /\ UNCHANGED <<monVars, botVars>>)
       /\ SF_allVars(SendSwap(w) /\ UNCHANGED <<monVars, botVars>>)
       /\ SF_allVars(MineSwap(w) /\ UNCHANGED <<monVars, botVars>>)

BotServedSpec == BotFairSpec /\ ChainServes

-----------------------------------------------------------------------------
\* While the process is up, a tripped breaker has the monitor loop stop the
\* rebalancer, unless a check lowers the flag first.
TripStopsTrading ==
  isCircuitBreaker ~> (~isRunning \/ ~isCircuitBreaker \/ ctxDone)

\* A start request that overlaps a trip may write its status over the trip's,
\* but not for good: while the breaker stays tripped, the monitor loop says so
\* again (lines 167-180 of pkg/api/service.go and 405-408 of main.go).
TripShown ==
  <>[](isCircuitBreaker /\ status = "running") => <>ctxDone

\* A signal ends the three loops, if the process is not killed first (and
\* started again, with a new context).  The wait for a receipt does not hold the
\* rebalance loop, because the cancel reaches the run's context; only the two
\* calls of the node that have no context can hold a loop for ever (lines 98
\* and 103 of pkg/uniswap/client.go, 273-288 of pkg/executor/service.go).
LoopsExit ==
  /\ ctxDone ~> (monitorPc = "exited" \/ ~ctxDone)
  /\ (ctxDone ~> (pricePc = "exited" \/ ~ctxDone)) \/ <>[](pricePc = "fetch")
  /\ (ctxDone ~> (loopPc = "exited" \/ ~ctxDone)) \/ <>[](pc[Loop] = "send")

\* Once the context is cancelled, the rebalance loop decides on no new swap,
\* though one it had decided on may still be sent.
NoNewSwapAfterCancel == [][ctxDone => ~ReadMarket(Loop)]_allVars

\* The metrics never show a rebalance later than the last one, though the
\* time they are given was read before their lock was taken and another run
\* may have been stamped since (line 380 of main.go).
ReportNotAhead == metricRebalance >= rebalanceAge

\* The two gates never starve each other: if the rebalancer stays up and the
\* price stays worth a swap, swaps keep being mined.
PegDefended ==
  <>[](isRunning /\ WholeBps >= DeviationBps /\ DeviationOver(RebalanceThresholdBps))
    => []<>(swapAge = 0)

\* The price the rebalancer holds is past the breaker's threshold.
PriceBreaches == currentPrice \in {p \in Prices : Breaches(p)}

\* A deviation past the threshold that lasts trips the breaker.
SustainedDeviationTrips ==
  <>[](isRunning /\ PriceBreaches) => <>isCircuitBreaker

\* Once the price is calm for good, a tripped breaker opens again.
BreakerReopens ==
  <>[](~PriceBreaches)
    => (isCircuitBreaker ~> ~isCircuitBreaker)
=============================================================================
