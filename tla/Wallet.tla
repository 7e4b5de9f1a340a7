-------------------------------- MODULE Wallet --------------------------------
(***************************************************************************)
(* pkg/executor/service.go, pkg/executor/erc20.go and the handlers of      *)
(* pkg/api/service.go that spend: requests to swap, to add liquidity and   *)
(* to create the pool, each in a goroutine of its own, share one account.  *)
(* A request is a sequence of transactions; each reads the account's       *)
(* pending nonce, is sent with it and awaits its receipt.  The chain mines *)
(* in the order of nonces.  A call to the chain may fail at any time.  One *)
(* with a context fails at its deadline, so deadlines need no state; one   *)
(* without, see Unbounded, may also never come back.                       *)
(***************************************************************************)
EXTENDS Integers, Sequences, FiniteSets

CONSTANTS
  Swaps, Deposits, Creations,        \* requests of the three kinds
  TokenIn, AmountIn,                 \* what each swap sells
  Total,                             \* Total[d][t]: amounts of add-liquidity
  CoreRatio, MidRatio, TailRatio,    \* int64(bot.*_ratio * 100), cut off: 28 for 0.29
  StartAllowances,                   \* what may be left of earlier approvals
  MaxOpen                            \* bound: requests that are made

Requests == Swaps \cup Deposits \cup Creations
Tokens == {0, 1}
Spenders == {"swapRouter", "positionMgr"}

ASSUME WalletAssumption ==
  /\ Swaps \cap Deposits = {} /\ Creations \cap (Swaps \cup Deposits) = {}
  /\ TokenIn \in [Swaps -> Tokens]
  /\ AmountIn \in [Swaps -> Nat]
  /\ Total \in [Deposits -> [Tokens -> Nat]]
  /\ CoreRatio \in 0..100 /\ MidRatio \in 0..100 /\ TailRatio \in 0..100
  /\ StartAllowances \subseteq Nat
  /\ MaxOpen \in Nat

VARIABLES
  at,          \* at[r]: which step of its plan r is in
  pc,          \* pc[r]: where it is in that step
  nonce,       \* nonce[r]: the nonce it read; they count from 1
  report,      \* report[r]: results it has gathered for its answer
  sent,        \* the account's transactions by nonce
  receipts,    \* of those that are mined
  allowance,   \* allowance[s][t]: what spender s may take of token t
  poolExists,
  unapproved,  \* history: requests one of whose approvals did not succeed
  disturbed    \* history: requests whose allowances another one changed meanwhile

reqVars == <<at, pc, nonce, report, unapproved>>
chainVars == <<sent, receipts, allowance, poolExists, disturbed>>
walletVars == <<reqVars, chainVars>>

-----------------------------------------------------------------------------
\* What each request does, as the sequence of its steps.
Approve(s, t, n) == [op |-> "approve", spender |-> s, token |-> t, amount |-> n]
Swap(s) ==
  [op |-> "swap", spender |-> "swapRouter",
   amounts |-> [t \in Tokens |-> IF t = TokenIn[s] THEN AmountIn[s] ELSE 0]]
Mint(amounts) == [op |-> "mint", spender |-> "positionMgr", amounts |-> amounts]
Create == [op |-> "create"]

\* ExecuteSwap approves ten times what it sells.
SwapPlan(s) == <<Approve("swapRouter", TokenIn[s], 10 * AmountIn[s]), Swap(s)>>

\* A layer's share of the amounts, rounded down.
Layer(d, ratio) == [t \in Tokens |-> (Total[d][t] * ratio) \div 100]

\* Mutant of LayerPlan: only one token is approved.
LayerPlanHalf(d, ratio) ==
  LET amounts == Layer(d, ratio)
  IN  IF \A t \in Tokens : amounts[t] > 0
      THEN <<Approve("positionMgr", 0, amounts[0]), Mint(amounts)>>
      ELSE <<>>

\* AddLiquidity of one layer; the handler skips a layer that lacks a token.
LayerPlan(d, ratio) ==
  LET amounts == Layer(d, ratio)
  IN  IF \A t \in Tokens : amounts[t] > 0
      THEN <<Approve("positionMgr", 0, amounts[0]),
             Approve("positionMgr", 1, amounts[1]),
             Mint(amounts)>>
      ELSE <<>>

DepositPlan(d) ==
  LayerPlan(d, CoreRatio) \o LayerPlan(d, MidRatio) \o LayerPlan(d, TailRatio)

Plan ==
  [r \in Requests |->
     CASE r \in Swaps -> SwapPlan(r)
       [] r \in Deposits -> DepositPlan(r)
       [] r \in Creations -> <<Create>>]

Step(r) == Plan[r][at[r]]
Tx(r, i) == [request |-> r, step |-> i]

\* The spender may take what a call takes at most.
Covered(call) ==
  \A t \in Tokens : allowance[call.spender][t] >= call.amounts[t]

\* Approvals and pool creation look at the chain first.
Entry(step) == IF step.op \in {"approve", "create"} THEN "look" ELSE "nonce"

-----------------------------------------------------------------------------
Ended == {"idle", "answered", "error"}

WalletInit ==
  /\ at = [r \in Requests |-> 1]
  /\ pc = [r \in Requests |-> "idle"]
  /\ nonce = [r \in Requests |-> 1]
  /\ report = [r \in Requests |-> {}]
  /\ unapproved = {} /\ disturbed = {}
  /\ sent = <<>> /\ receipts = <<>>
  /\ \E n \in StartAllowances : allowance = [s \in Spenders |-> [t \in Tokens |-> n]]
  /\ poolExists \in BOOLEAN

\* Mutant of Proceed: the step moves past the end.
ProceedPast(r) ==
  /\ at' = [at EXCEPT ![r] = @ + 1]
  /\ pc' = [pc EXCEPT ![r] = IF at[r] < Len(Plan[r]) THEN Entry(Plan[r][at[r] + 1])
                             ELSE "answered"]

\* The request goes on with its next step or answers with its report.
Proceed(r) ==
  IF at[r] < Len(Plan[r])
  THEN /\ at' = [at EXCEPT ![r] = @ + 1]
       /\ pc' = [pc EXCEPT ![r] = Entry(Plan[r][at[r] + 1])]
  ELSE pc' = [pc EXCEPT ![r] = "answered"] /\ UNCHANGED at

\* A request comes in; one with no step to take is answered at once.
Receive(r) ==
  /\ pc[r] = "idle"
  /\ Cardinality({q \in Requests : pc[q] # "idle"}) < MaxOpen
  /\ pc' = [pc EXCEPT ![r] = IF Plan[r] = <<>> THEN "answered" ELSE Entry(Plan[r][1])]
  /\ UNCHANGED <<at, nonce, report, unapproved, chainVars>>

\* ApproveToken: an allowance that is large enough is left alone.
Allowance(r) ==
  /\ pc[r] = "look" /\ Step(r).op = "approve"
  /\ IF allowance[Step(r).spender][Step(r).token] >= Step(r).amount
     THEN Proceed(r)
     ELSE pc' = [pc EXCEPT ![r] = "nonce"] /\ UNCHANGED at
  /\ UNCHANGED <<nonce, report, unapproved, chainVars>>

\* CreatePool: a pool that is there already is a success, and a query that
\* fails is taken for one that is not there.
QueryPool(r) ==
  /\ pc[r] = "look" /\ r \in Creations
  /\ \/ /\ poolExists
        /\ report' = [report EXCEPT ![r] = {[step |-> at[r], ok |-> TRUE]}]
        /\ Proceed(r)
     \/ pc' = [pc EXCEPT ![r] = "nonce"] /\ UNCHANGED <<at, report>>
  /\ UNCHANGED <<nonce, unapproved, chainVars>>

\* The nonce after all transactions the node knows of.
PendingNonceAt(r) ==
  /\ pc[r] = "nonce"
  /\ nonce' = [nonce EXCEPT ![r] = Len(sent) + 1]
  /\ pc' = [pc EXCEPT ![r] = "send"]
  /\ UNCHANGED <<at, report, unapproved, chainVars>>

\* The node takes a transaction with a new nonce, and one with the nonce of
\* a transaction that is not mined yet takes its place, if it pays more.
SendTransaction(r) ==
  /\ pc[r] = "send" /\ nonce[r] > Len(receipts)
  /\ sent' = IF nonce[r] > Len(sent) THEN Append(sent, Tx(r, at[r]))
             ELSE [sent EXCEPT ![nonce[r]] = Tx(r, at[r])]
  /\ pc' = [pc EXCEPT ![r] = "wait"]
  /\ UNCHANGED <<at, nonce, report, unapproved, receipts, allowance, poolExists, disturbed>>

\* The receipt is found by hash: of the transaction that was sent.
HasReceipt(r) == nonce[r] <= Len(receipts) /\ sent[nonce[r]] = Tx(r, at[r])

\* ApproveToken only logs the status of its receipt.
ApproveReceipt(r) ==
  /\ pc[r] = "wait" /\ Step(r).op = "approve" /\ HasReceipt(r)
  /\ unapproved' = IF receipts[nonce[r]] = "ok" THEN unapproved ELSE unapproved \cup {r}
  /\ Proceed(r)
  /\ UNCHANGED <<nonce, report, chainVars>>

\* Mutant of CallReceipt: the receipt is looked up by nonce.
CallReceiptByNonce(r) ==
  /\ pc[r] = "wait" /\ Step(r).op # "approve" /\ nonce[r] <= Len(receipts)
  /\ report' = [report EXCEPT ![r] =
       @ \cup {[step |-> at[r], ok |-> receipts[nonce[r]] = "ok"]}]
  /\ Proceed(r)
  /\ UNCHANGED <<nonce, unapproved, chainVars>>

\* A swap that was mined but reverted has no answer, see PanicOnRevert.
CallReceipt(r) ==
  /\ pc[r] = "wait" /\ Step(r).op # "approve" /\ HasReceipt(r)
  /\ receipts[nonce[r]] = "ok" \/ r \notin Swaps
  /\ report' = [report EXCEPT ![r] =
       @ \cup {[step |-> at[r], ok |-> receipts[nonce[r]] = "ok"]}]
  /\ Proceed(r)
  /\ UNCHANGED <<nonce, unapproved, chainVars>>

\* The result of a transaction that reverted has no Error for the handlers of
\* swap and create-pool to show: they panic, and the request is answered with
\* a bare error.  A creation that used little gas is answered before that.
PanicOnRevert(r) ==
  /\ pc[r] = "wait" /\ Step(r).op \in {"swap", "create"} /\ HasReceipt(r)
  /\ receipts[nonce[r]] = "reverted"
  /\ pc' = [pc EXCEPT ![r] = "error"]
  /\ UNCHANGED <<at, nonce, report, unapproved, chainVars>>

\* Mutant of Tolerated: AddLiquidity goes on too.
ToleratedAlways(r) == Step(r).op # "create"

\* ExecuteSwap goes on when its approval fails.
Tolerated(r) == r \in Swaps /\ Step(r).op = "approve"

\* A failed step gives the request an error for an answer.
Break(r) ==
  /\ unapproved' = IF Step(r).op = "approve" THEN unapproved \cup {r} ELSE unapproved
  /\ IF Tolerated(r) THEN Proceed(r)
     ELSE pc' = [pc EXCEPT ![r] = "error"] /\ UNCHANGED at
  /\ UNCHANGED <<nonce, report, chainVars>>

\* A call before the transaction is out fails.
FailCall(r) ==
  /\ pc[r] \in {"look", "nonce", "send"}
  /\ pc[r] = "look" => Step(r).op = "approve"
  /\ Break(r)

\* Mutant of LoseReceipt: polling has no deadline.
LoseReceiptNever(r) == pc[r] = "wait" /\ HasReceipt(r) /\ Break(r)

\* waitForReceipt fails or its deadline passes; the transaction stays out.
LoseReceipt(r) == pc[r] = "wait" /\ Break(r)

-----------------------------------------------------------------------------
\* External: the chain mines the next transaction.
Mine(status) ==
  /\ Len(receipts) < Len(sent)
  /\ receipts' = Append(receipts, status)
  /\ UNCHANGED <<sent, reqVars>>

\* The requests at work that use the same allowances as q.
Rivals(q) ==
  {r \in (IF q \in Swaps THEN Swaps ELSE Deposits) \ {q} : pc[r] \notin Ended}

Disturb == disturbed' = disturbed \cup Rivals(sent[Len(receipts) + 1].request)

Mining == Plan[sent[Len(receipts) + 1].request][sent[Len(receipts) + 1].step]

\* An approval sets the allowance to twice what was asked for (Approve is
\* called with amount * 2).
MineApproval ==
  /\ Mine("ok")
  /\ Mining.op = "approve"
  /\ allowance' = [allowance EXCEPT ![Mining.spender][Mining.token] = 2 * Mining.amount]
  /\ Disturb
  /\ UNCHANGED poolExists

\* A swap or a mint takes what it was given from the allowance; a mint may
\* take less, which leaves more for others.
MineCall ==
  /\ Mine("ok")
  /\ Mining.op \in {"swap", "mint"} /\ Covered(Mining)
  /\ allowance' = [allowance EXCEPT ![Mining.spender] =
       [t \in Tokens |-> @[t] - Mining.amounts[t]]]
  /\ Disturb
  /\ UNCHANGED poolExists

MineCreate ==
  /\ Mine("ok")
  /\ Mining.op = "create" /\ ~poolExists
  /\ poolExists' = TRUE
  /\ UNCHANGED <<allowance, disturbed>>

Revert == Mine("reverted") /\ UNCHANGED <<allowance, poolExists, disturbed>>

-----------------------------------------------------------------------------
RequestStep(r) ==
  \/ Allowance(r) \/ QueryPool(r)
  \/ PendingNonceAt(r) \/ SendTransaction(r)
  \/ ApproveReceipt(r) \/ CallReceipt(r) \/ PanicOnRevert(r)
  \/ FailCall(r) \/ LoseReceipt(r)

WalletNext ==
  \/ \E r \in Requests : Receive(r) \/ RequestStep(r)
  \/ MineApproval \/ MineCall \/ MineCreate \/ Revert

WalletSpec == WalletInit /\ [][WalletNext]_walletVars

\* A request is in a call of the generated bindings, which take no context
\* and may never come back: GetPool before a creation and after its receipt,
\* and the nonce and the sending of a swap, a mint or a creation.
Unbounded(r) ==
  \/ pc[r] = "look" /\ Step(r).op = "create"
  \/ pc[r] \in {"nonce", "send"} /\ Step(r).op # "approve"
  \/ pc[r] = "wait" /\ Step(r).op = "create" /\ HasReceipt(r)

\* Every goroutine is scheduled, and its other calls and its polling end with
\* the context of its handler, after 120 or 300 s.  Nothing is assumed of the
\* chain, nor of a node that never answers the calls of Unbounded.
WalletFairSpec ==
  WalletSpec /\ \A r \in Requests : WF_walletVars(~ Unbounded(r) /\ RequestStep(r))

-----------------------------------------------------------------------------
WalletTypeOK ==
  /\ at \in [Requests -> Nat \ {0}]
  /\ \A r \in Requests : at[r] = 1 \/ at[r] <= Len(Plan[r])
  /\ pc \in [Requests -> {"look", "nonce", "send", "wait"} \cup Ended]
  /\ nonce \in [Requests -> Nat \ {0}]
  /\ \A r \in Requests : report[r] \subseteq [step : Nat \ {0}, ok : BOOLEAN]
  /\ sent \in Seq([request : Requests, step : Nat \ {0}])
  /\ receipts \in Seq({"ok", "reverted"})
  /\ Len(receipts) <= Len(sent)
  /\ allowance \in [Spenders -> [Tokens -> Nat]]
  /\ poolExists \in BOOLEAN
  /\ unapproved \subseteq Requests /\ disturbed \subseteq Requests

\* A swap or a mint is on its way to be mined, and its approvals succeeded.
OnItsWay(r) ==
  /\ pc[r] \in {"nonce", "send", "wait"} /\ Step(r).op \in {"swap", "mint"}
  /\ r \notin unapproved
  /\ pc[r] = "wait" => nonce[r] > Len(receipts)

\* A swap or a mint whose approvals succeeded is covered until it is mined,
\* unless a request of its kind approves or spends between its look at the
\* allowance and its call (lines 169-177, 241-247 and 268 of the executor):
\* what earlier requests left, skipped approvals, the layers before and
\* requests of the other kinds do not matter.
FundedAlone ==
  \A r \in Requests : OnItsWay(r) /\ r \notin disturbed => Covered(Step(r))

\* The same whatever the other requests do: what an approval was asked for is
\* there when the call is made (the comment on line 266, and line 179).
Funded == \A r \in Requests : OnItsWay(r) => Covered(Step(r))

\* A result in an answer is that of the request's own transaction, also when
\* another request took its nonce; only a pool may exist without one.
AnswersTrue ==
  \A r \in Requests : \A result \in report[r] :
    \/ \E n \in 1..Len(receipts) :
         sent[n] = Tx(r, result.step) /\ (result.ok <=> receipts[n] = "ok")
    \/ r \in Creations /\ result.ok /\ poolExists

\* Liquidity is added layer by layer: a layer's mint goes out only after the
\* one before it was mined (lines 324-370 of pkg/api/service.go return on an
\* error).
LayersInOrder ==
  \A n \in 1..Len(sent) :
    LET r == sent[n].request
    IN  Plan[r][sent[n].step].op = "mint" =>
          \A i \in 1..(sent[n].step - 1) :
            Plan[r][i].op = "mint" =>
              \E m \in 1..(n - 1) : m <= Len(receipts) /\ sent[m] = Tx(r, i)

\* Every request is answered, even if its transaction is replaced by another
\* request's and is never mined, unless the node never answers a call of its
\* that has no context.
RequestsEnd ==
  \A r \in Requests : <>[](pc[r] \in Ended) \/ <>[]Unbounded(r)
=============================================================================
