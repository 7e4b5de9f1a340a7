------------------------------- MODULE MCNumbers -------------------------------
(***************************************************************************)
(* SwapSizing, Tiers, Metrics, Vault and the RiskEngine of one caller      *)
(* share nothing here, so one run checks them all: machine says which of   *)
(* them moves, the others stand still.                                     *)
(***************************************************************************)
EXTENDS SwapSizing, Tiers, Metrics, MCVault, MCRisk

VARIABLE machine

\* Prices at ticks -4, -2, 0, 1 and 2, just off them, and in between.
MCSqrtPrices == {65, 80, 86, 90, 95, 99, 100, 101, 111, 112, 118, 125, 150}

sideVars == <<sizingVars, tiersVars, metricsVars, vaultVars, riskVars>>
numbersVars == <<machine, sideVars>>

\* Only the initial states of the machine that moves are distinguished.
NumbersInit ==
  /\ machine \in {"sizing", "tiers", "metrics", "vault", "risk"}
  /\ SizingInit /\ (machine # "sizing" => balance0 = 0 /\ balance1 = 0)
  /\ TiersInit /\ (machine # "tiers" => sqrtPrice = Q /\ liquidity = 0)
  /\ MetricsInit
  /\ VaultInit /\ (machine # "vault" => sqrtPriceX96 = Q96 /\ poolLiquidity = 0)
  /\ RiskInit

SizingMoves ==
  /\ machine = "sizing" /\ SizingNext
  /\ UNCHANGED <<machine, tiersVars, metricsVars, vaultVars, riskVars>>

TiersMove ==
  /\ machine = "tiers" /\ TiersNext
  /\ UNCHANGED <<machine, sizingVars, metricsVars, vaultVars, riskVars>>

MetricsMove ==
  /\ machine = "metrics" /\ MetricsNext
  /\ UNCHANGED <<machine, sizingVars, tiersVars, vaultVars, riskVars>>

VaultMoves ==
  /\ machine = "vault" /\ VaultNext
  /\ UNCHANGED <<machine, sizingVars, tiersVars, metricsVars, riskVars>>

RiskDoes(A) ==
  /\ machine = "risk" /\ A
  /\ UNCHANGED <<machine, sizingVars, tiersVars, metricsVars, vaultVars>>

NumbersNext == SizingMoves \/ TiersMove \/ MetricsMove \/ VaultMoves \/ RiskDoes(RiskNext)

\* The fairness of RiskFairSpec; of the other machines none is assumed.
NumbersSpec ==
  /\ NumbersInit /\ [][NumbersNext]_numbersVars
  /\ WF_numbersVars(RiskDoes(RiskTick))
  /\ \A c \in Callers : WF_numbersVars(RiskDoes(CheckStep(c) \/ EndCheck(c)))
=============================================================================
