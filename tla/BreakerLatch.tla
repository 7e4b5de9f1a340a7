----------------------------- MODULE BreakerLatch -----------------------------
(***************************************************************************)
(* What a circuit breaker promises, without saying how: a trip holds the   *)
(* latch for Duration ticks, and no check is answered "allowed" while the  *)
(* latch is held.  RiskEngine implements it with a flag and a timestamp.   *)
(***************************************************************************)
EXTENDS Integers

CONSTANTS
  Callers,   \* the goroutines that ask
  Duration   \* ticks one trip holds the latch

VARIABLES
  hold,      \* ticks left before the latch opens again
  allowed    \* callers whose last check was answered "allowed"

vars == <<hold, allowed>>

TypeOK == hold \in 0..Duration /\ allowed \subseteq Callers

Init == hold = 0 /\ allowed = {}

\* The price breached the threshold.
Trip == hold' = Duration /\ UNCHANGED allowed

\* Time passes; a held latch runs down.
Tick == hold > 0 /\ hold' = hold - 1 /\ UNCHANGED allowed

\* A check may be answered "allowed" only while the latch is open.
Allow(c) == hold = 0 /\ allowed' = allowed \cup {c} /\ UNCHANGED hold

\* The caller has taken its answer away.
Forget(c) == allowed' = allowed \ {c} /\ UNCHANGED hold

Next == Trip \/ Tick \/ \E c \in Callers : Allow(c) \/ Forget(c)

Spec == Init /\ [][Next]_vars
=============================================================================
