----------------------------- MODULE Wallet_proofs -----------------------------
(***************************************************************************)
(* What holds of the wallet for any number of requests: the amounts of the *)
(* layers, that answers are true, that layers go out in order, types, and  *)
(* that calls are covered by their approvals when nobody interferes.       *)
(***************************************************************************)
EXTENDS Wallet, TLAPS

-----------------------------------------------------------------------------
\* Rounding down to whole hundredths loses less than one.
LEMMA Hundredth ==
  ASSUME NEW n \in Nat
  PROVE  n \div 100 \in Nat /\ 100 * (n \div 100) <= n /\ n < 100 * (n \div 100) + 100
  OBVIOUS

\* A share of an amount is an amount.
LEMMA ShareNat ==
  ASSUME NEW n \in Nat, NEW k \in 0..100
  PROVE  n * k \in Nat
  OBVIOUS

\* The three layers together share out what their per cents together say, less
\* than three units short of it (lines 304-317 of pkg/api/service.go, where
\* nothing makes the per cents add up to 100).
THEOREM SplitWithinTotal ==
  ASSUME NEW d \in Deposits, NEW t \in Tokens
  PROVE  LET spent == Layer(d, CoreRatio)[t] + Layer(d, MidRatio)[t] + Layer(d, TailRatio)[t]
             due == Total[d][t] * (CoreRatio + MidRatio + TailRatio)
         IN  100 * spent <= due /\ due < 100 * spent + 300
<1> DEFINE n == Total[d][t]
           c == n * CoreRatio
           m == n * MidRatio
           l == n * TailRatio
<1>1. n \in Nat /\ CoreRatio \in 0..100 /\ MidRatio \in 0..100 /\ TailRatio \in 0..100
  BY WalletAssumption
<1>2. c \in Nat /\ m \in Nat /\ l \in Nat
  BY <1>1, ShareNat
<1>3. c + m + l = n * (CoreRatio + MidRatio + TailRatio)
  <2> HIDE DEF n
  <2> QED BY <1>1
<1>4. /\ Layer(d, CoreRatio)[t] = c \div 100
      /\ Layer(d, MidRatio)[t] = m \div 100
      /\ Layer(d, TailRatio)[t] = l \div 100
  BY DEF Layer
<1> HIDE DEF n, c, m, l
<1>5. /\ c \div 100 \in Nat /\ 100 * (c \div 100) <= c /\ c < 100 * (c \div 100) + 100
      /\ m \div 100 \in Nat /\ 100 * (m \div 100) <= m /\ m < 100 * (m \div 100) + 100
      /\ l \div 100 \in Nat /\ 100 * (l \div 100) <= l /\ l < 100 * (l \div 100) + 100
  BY <1>2, Hundredth
<1>6. /\ 100 * (c \div 100 + m \div 100 + l \div 100) <= c + m + l
      /\ c + m + l < 100 * (c \div 100 + m \div 100 + l \div 100) + 300
  BY <1>2, <1>5
<1> QED
  BY <1>3, <1>4, <1>6 DEF n

-----------------------------------------------------------------------------
\* The shapes that AnswersTrue rests on: what is mined is a prefix of what
\* was sent.
WalletShape ==
  /\ at \in [Requests -> Int]
  /\ nonce \in [Requests -> Nat \ {0}]
  /\ DOMAIN report = Requests
  /\ sent \in Seq([request : Requests, step : Int])
  /\ receipts \in Seq({"ok", "reverted"})
  /\ Len(receipts) <= Len(sent)

AnswersInv == WalletShape /\ AnswersTrue

\* Going on keeps the shape.
LEMMA ProceedShape ==
  ASSUME NEW r \in Requests, at \in [Requests -> Int], Proceed(r)
  PROVE  at' \in [Requests -> Int]
  BY DEF Proceed

\* No answer is false before there is one.
LEMMA AnswersInit == WalletInit => AnswersInv
  BY DEF WalletInit, AnswersInv, WalletShape, AnswersTrue

\* An answer that was true stays true as long as no mined transaction is
\* replaced, no receipt changes and the pool is not taken away.
LEMMA AnswersStay ==
  ASSUME AnswersInv,
         \A n \in 1..Len(receipts) : sent'[n] = sent[n] /\ receipts'[n] = receipts[n],
         Len(receipts') \in Nat, Len(receipts) <= Len(receipts'),
         poolExists => poolExists',
         report' = report
  PROVE  AnswersTrue'
<1> SUFFICES ASSUME NEW r \in Requests, NEW result \in report[r]
             PROVE  \/ \E n \in 1..Len(receipts') :
                         sent'[n] = Tx(r, result.step) /\ (result.ok <=> receipts'[n] = "ok")
                    \/ r \in Creations /\ result.ok /\ poolExists'
  BY DEF AnswersTrue, Tx
<1>1. CASE r \in Creations /\ result.ok /\ poolExists
  BY <1>1
<1>2. CASE \E n \in 1..Len(receipts) :
             sent[n] = Tx(r, result.step) /\ (result.ok <=> receipts[n] = "ok")
  <2>1. PICK n \in 1..Len(receipts) :
          sent[n] = Tx(r, result.step) /\ (result.ok <=> receipts[n] = "ok")
    BY <1>2
  <2>2. n \in 1..Len(receipts')
    BY DEF AnswersInv, WalletShape
  <2> QED BY <2>1, <2>2
<1> QED BY <1>1, <1>2 DEF AnswersInv, AnswersTrue

\* Mining keeps answers true.
LEMMA MineKeeps ==
  ASSUME AnswersInv, NEW status \in {"ok", "reverted"}, Mine(status),
         poolExists => poolExists'
  PROVE  AnswersInv'
<1>1. WalletShape'
  BY DEF AnswersInv, WalletShape, Mine, reqVars
<1>2. /\ \A n \in 1..Len(receipts) : sent'[n] = sent[n] /\ receipts'[n] = receipts[n]
      /\ Len(receipts') \in Nat /\ Len(receipts) <= Len(receipts')
      /\ report' = report
  BY DEF AnswersInv, WalletShape, Mine, reqVars
<1>3. AnswersTrue'
  BY <1>2, AnswersStay
<1> QED BY <1>1, <1>3 DEF AnswersInv

\* Steps of a request that add no result and send nothing.
LEMMA QuietKeeps ==
  ASSUME AnswersInv, at' \in [Requests -> Int], nonce' \in [Requests -> Nat \ {0}],
         UNCHANGED <<report, sent, receipts, poolExists>>
  PROVE  AnswersInv'
<1>1. WalletShape'
  BY DEF AnswersInv, WalletShape
<1>2. AnswersTrue'
  <2>1. /\ \A n \in 1..Len(receipts) : sent'[n] = sent[n] /\ receipts'[n] = receipts[n]
        /\ Len(receipts') \in Nat /\ Len(receipts) <= Len(receipts')
    BY DEF AnswersInv, WalletShape
  <2> QED BY <2>1, AnswersStay
<1> QED BY <1>1, <1>2 DEF AnswersInv

\* Every step of the wallet keeps answers true.
LEMMA AnswersNext == AnswersInv /\ [WalletNext]_walletVars => AnswersInv'
<1> SUFFICES ASSUME AnswersInv, [WalletNext]_walletVars
             PROVE  AnswersInv'
  OBVIOUS
<1>a. at \in [Requests -> Int] /\ nonce \in [Requests -> Nat \ {0}]
  BY DEF AnswersInv, WalletShape
<1>1. ASSUME NEW r \in Requests, Receive(r)
      PROVE  AnswersInv'
  BY <1>1, <1>a, QuietKeeps DEF Receive, chainVars
<1>2. ASSUME NEW r \in Requests, Allowance(r)
      PROVE  AnswersInv'
  <2>1. at' \in [Requests -> Int]
    BY <1>2, <1>a, ProceedShape DEF Allowance
  <2> QED BY <2>1, <1>2, <1>a, QuietKeeps DEF Allowance, chainVars
<1>3. ASSUME NEW r \in Requests, QueryPool(r)
      PROVE  AnswersInv'
  <2>1. at' \in [Requests -> Int]
    BY <1>3, <1>a, ProceedShape DEF QueryPool
  <2>2. CASE report' = report
    BY <2>1, <2>2, <1>3, <1>a, QuietKeeps DEF QueryPool, chainVars
  <2>3. CASE /\ poolExists
             /\ report' = [report EXCEPT ![r] = {[step |-> at[r], ok |-> TRUE]}]
    <3>1. WalletShape'
      BY <2>1, <2>3, <1>3 DEF AnswersInv, WalletShape, QueryPool, chainVars
    <3>2. ASSUME NEW q \in Requests, NEW result \in report'[q]
          PROVE  \/ \E n \in 1..Len(receipts') :
                      sent'[n] = Tx(q, result.step) /\ (result.ok <=> receipts'[n] = "ok")
                 \/ q \in Creations /\ result.ok /\ poolExists'
      <4>1. CASE q = r
        BY <4>1, <3>2, <2>3, <1>3 DEF QueryPool, chainVars, AnswersInv, WalletShape
      <4>2. CASE q # r
        <5>1. result \in report[q]
          BY <4>2, <3>2, <2>3 DEF AnswersInv, WalletShape
        <5> QED BY <5>1, <1>3 DEF QueryPool, chainVars, AnswersInv, AnswersTrue
      <4> QED BY <4>1, <4>2
    <3>3. AnswersTrue'
      BY <3>2 DEF AnswersTrue, Tx
    <3> QED BY <3>1, <3>3 DEF AnswersInv
  <2> QED BY <2>2, <2>3, <1>3 DEF QueryPool
<1>4. ASSUME NEW r \in Requests, PendingNonceAt(r)
      PROVE  AnswersInv'
  <2>1. nonce' \in [Requests -> Nat \ {0}] /\ at' \in [Requests -> Int]
    BY <1>4, <1>a DEF PendingNonceAt, AnswersInv, WalletShape
  <2> QED BY <2>1, <1>4, QuietKeeps DEF PendingNonceAt, chainVars
<1>5. ASSUME NEW r \in Requests, SendTransaction(r)
      PROVE  AnswersInv'
  <2>1. Tx(r, at[r]) \in [request : Requests, step : Int]
    BY <1>a DEF Tx
  <2>2. /\ sent' \in Seq([request : Requests, step : Int])
        /\ Len(sent) <= Len(sent')
        /\ \A n \in 1..Len(receipts) : sent'[n] = sent[n]
    <3> DEFINE x == Tx(r, at[r])
    <3>0. /\ sent \in Seq([request : Requests, step : Int]) /\ Len(sent) \in Nat
          /\ Len(receipts) \in Nat /\ Len(receipts) <= Len(sent)
          /\ nonce[r] \in Nat /\ nonce[r] > Len(receipts)
      BY <1>5, <1>a DEF SendTransaction, AnswersInv, WalletShape
    <3>1. CASE nonce[r] > Len(sent)
      <4>1. sent' = Append(sent, x)
        BY <3>1, <1>5 DEF SendTransaction
      <4> HIDE DEF x
      <4> QED
        BY <2>1, <3>0, <4>1 DEF x
    <3>2. CASE ~(nonce[r] > Len(sent))
      <4>1. sent' = [sent EXCEPT ![nonce[r]] = x]
        BY <3>2, <1>5 DEF SendTransaction
      <4> HIDE DEF x
      <4> QED
        BY <2>1, <3>0, <3>2, <4>1 DEF x
    <3> QED BY <3>1, <3>2
  <2>3. WalletShape'
    BY <2>2, <1>5 DEF SendTransaction, AnswersInv, WalletShape
  <2>4. AnswersTrue'
    <3>1. UNCHANGED <<receipts, poolExists, report>>
      BY <1>5, Zenon DEF SendTransaction
    <3>2. Len(receipts) \in Nat
      BY DEF AnswersInv, WalletShape
    <3>3. \A n \in 1..Len(receipts) : sent'[n] = sent[n] /\ receipts'[n] = receipts[n]
      BY <2>2, <3>1
    <3>4. Len(receipts') \in Nat /\ Len(receipts) <= Len(receipts')
      BY <3>1, <3>2
    <3> QED BY <3>1, <3>3, <3>4, AnswersStay, Zenon
  <2> QED BY <2>3, <2>4 DEF AnswersInv
<1>6. ASSUME NEW r \in Requests, ApproveReceipt(r)
      PROVE  AnswersInv'
  <2>1. at' \in [Requests -> Int]
    BY <1>6, <1>a, ProceedShape DEF ApproveReceipt
  <2> QED BY <2>1, <1>6, <1>a, QuietKeeps DEF ApproveReceipt, chainVars
<1>7. ASSUME NEW r \in Requests, CallReceipt(r)
      PROVE  AnswersInv'
  <2>1. at' \in [Requests -> Int]
    BY <1>7, <1>a, ProceedShape DEF CallReceipt
  <2> DEFINE new == [step |-> at[r], ok |-> receipts[nonce[r]] = "ok"]
  <2>2. report' = [report EXCEPT ![r] = @ \cup {new}] /\ UNCHANGED <<nonce, chainVars>>
    BY <1>7 DEF CallReceipt
  <2>3. WalletShape'
    BY <2>1, <2>2 DEF AnswersInv, WalletShape, chainVars
  <2>4. \E n \in 1..Len(receipts) :
          sent[n] = Tx(r, new.step) /\ (new.ok <=> receipts[n] = "ok")
    <3>1. nonce[r] \in 1..Len(receipts) /\ sent[nonce[r]] = Tx(r, at[r])
      BY <1>7, <1>a DEF CallReceipt, HasReceipt, AnswersInv, WalletShape
    <3> QED BY <3>1
  <2>5. ASSUME NEW q \in Requests, NEW result \in report'[q]
        PROVE  \/ \E n \in 1..Len(receipts') :
                    sent'[n] = Tx(q, result.step) /\ (result.ok <=> receipts'[n] = "ok")
               \/ q \in Creations /\ result.ok /\ poolExists'
    <3> HIDE DEF new
    <3>1. CASE result \in report[q]
      BY <3>1, <2>2 DEF chainVars, AnswersInv, AnswersTrue
    <3>2. CASE q = r /\ result = new
      BY <3>2, <2>2, <2>4 DEF chainVars
    <3> QED BY <3>1, <3>2, <2>2, <2>5 DEF AnswersInv, WalletShape
  <2>6. AnswersTrue'
    BY <2>5 DEF AnswersTrue, Tx
  <2> QED BY <2>3, <2>6 DEF AnswersInv
<1>8. ASSUME NEW r \in Requests, Break(r)
      PROVE  AnswersInv'
  <2>1. at' \in [Requests -> Int]
    BY <1>8, <1>a, ProceedShape DEF Break
  <2> QED BY <2>1, <1>8, <1>a, QuietKeeps DEF Break, chainVars
<1>9. CASE MineApproval \/ MineCall \/ MineCreate \/ Revert
  BY <1>9, MineKeeps DEF MineApproval, MineCall, MineCreate, Revert
<1>10. CASE UNCHANGED walletVars
  BY <1>10, <1>a, QuietKeeps DEF walletVars, reqVars, chainVars
<1>11. ASSUME NEW r \in Requests, PanicOnRevert(r)
      PROVE  AnswersInv'
  BY <1>11, <1>a, QuietKeeps DEF PanicOnRevert, chainVars
<1> QED
  BY <1>1, <1>2, <1>3, <1>4, <1>5, <1>6, <1>7, <1>8, <1>9, <1>10, <1>11
     DEF WalletNext, RequestStep, FailCall, LoseReceipt

\* Whatever requests share the account, a result in an answer is that of the
\* request's own transaction.
THEOREM AnswersAlwaysTrue == WalletSpec => []AnswersTrue
<1>1. AnswersInv => AnswersTrue
  BY DEF AnswersInv
<1> QED BY <1>1, AnswersInit, AnswersNext, PTL DEF WalletSpec
-----------------------------------------------------------------------------
\* A transaction of step i of a request is mined.
Mined(r, i) == \E m \in 1..Len(receipts) : sent[m] = Tx(r, i)

\* A request is past a mint only when the mint was mined.
PassedMined ==
  \A r \in Requests :
    /\ at[r] >= 1
    /\ \A i \in 1..(at[r] - 1) : Plan[r][i].op = "mint" => Mined(r, i)

LayersInv == AnswersInv /\ PassedMined /\ LayersInOrder

\* A step that may be passed: no mint, or one that was mined.
Passable(r) == Plan[r][at[r]].op # "mint" \/ Mined(r, at[r])

\* What is mined stays mined.
LEMMA MinedStays ==
  ASSUME AnswersInv, NEW r \in Requests, NEW i \in Int, Mined(r, i),
         \A n \in 1..Len(receipts) : sent'[n] = sent[n],
         Len(receipts') \in Nat, Len(receipts) <= Len(receipts')
  PROVE  Mined(r, i)'
<1>1. PICK m \in 1..Len(receipts) : sent[m] = Tx(r, i)
  BY DEF Mined
<1>2. Len(receipts) \in Nat
  BY DEF AnswersInv, WalletShape
<1>3. m \in 1..Len(receipts')
  BY <1>1, <1>2
<1>4. sent'[m] = Tx(r, i)
  BY <1>1
<1> QED
  BY <1>3, <1>4 DEF Mined, Tx

\* The request of a step goes on, past what it may pass.
LEMMA ProceedKeepsPassed ==
  ASSUME LayersInv, NEW r \in Requests, Proceed(r), Passable(r),
         UNCHANGED <<sent, receipts>>
  PROVE  PassedMined'
<1>1. at \in [Requests -> Int]
  BY DEF LayersInv, AnswersInv, WalletShape
<1>2. at' = at \/ at' = [at EXCEPT ![r] = @ + 1]
  BY DEF Proceed
<1>3. SUFFICES ASSUME NEW q \in Requests
               PROVE  /\ at'[q] >= 1
                      /\ \A i \in 1..(at'[q] - 1) : Plan[q][i].op = "mint" => Mined(q, i)
  BY DEF PassedMined, Mined
<1>4. at'[q] = at[q] \/ (q = r /\ at'[q] = at[q] + 1)
  BY <1>1, <1>2
<1> QED
  BY <1>1, <1>4 DEF LayersInv, PassedMined, Passable

\* Steps that send nothing and pass nothing they may not.
LEMMA QuietKeepsLayers ==
  ASSUME LayersInv, UNCHANGED <<sent, receipts>>,
         UNCHANGED at \/ (\E r \in Requests : Proceed(r) /\ Passable(r))
  PROVE  PassedMined' /\ LayersInOrder'
<1>1. PassedMined'
  BY ProceedKeepsPassed DEF LayersInv, PassedMined, Mined
<1>2. LayersInOrder'
  BY DEF LayersInv, LayersInOrder
<1> QED
  BY <1>1, <1>2

\* A mint is sent when those before it are mined.
LEMMA SendKeepsLayers ==
  ASSUME LayersInv, NEW r \in Requests, SendTransaction(r)
  PROVE  PassedMined' /\ LayersInOrder'
<1> DEFINE k == nonce[r]
<1>1. /\ at \in [Requests -> Int] /\ k \in Nat \ {0}
      /\ sent \in Seq([request : Requests, step : Int])
      /\ Len(receipts) \in Nat /\ Len(sent) \in Nat /\ Len(receipts) <= Len(sent)
      /\ k > Len(receipts) /\ UNCHANGED <<at, receipts>>
  BY DEF LayersInv, AnswersInv, WalletShape, SendTransaction
<1>2. Tx(r, at[r]) \in [request : Requests, step : Int]
  BY <1>1 DEF Tx
<1>3. PICK p \in Nat \ {0} :
        /\ p > Len(receipts)
        /\ DOMAIN sent' = DOMAIN sent \cup {p}
        /\ sent'[p] = Tx(r, at[r])
        /\ \A n \in DOMAIN sent : n # p => sent'[n] = sent[n]
  <2>1. CASE k > Len(sent)
    <3>1. sent' = Append(sent, Tx(r, at[r]))
      BY <2>1 DEF SendTransaction
    <3>2. /\ Len(sent) + 1 \in Nat \ {0} /\ Len(sent) + 1 > Len(receipts)
          /\ DOMAIN sent' = DOMAIN sent \cup {Len(sent) + 1}
          /\ sent'[Len(sent) + 1] = Tx(r, at[r])
          /\ \A n \in DOMAIN sent : sent'[n] = sent[n]
      BY <1>1, <1>2, <3>1
    <3> QED
      BY <3>2
  <2>2. CASE ~(k > Len(sent))
    <3>1. sent' = [sent EXCEPT ![k] = Tx(r, at[r])]
      BY <2>2 DEF SendTransaction
    <3>2. k \in DOMAIN sent
      BY <1>1, <2>2
    <3>3. /\ DOMAIN sent' = DOMAIN sent \cup {k}
          /\ sent'[k] = Tx(r, at[r])
          /\ \A n \in DOMAIN sent : n # k => sent'[n] = sent[n]
      BY <3>1, <3>2
    <3> QED
      BY <1>1, <3>3
  <2> QED
    BY <2>1, <2>2
<1> HIDE DEF k
<1>4. \A n \in 1..Len(receipts) : sent'[n] = sent[n]
  BY <1>1, <1>3
<1>5. \A q \in Requests, i \in Int : Mined(q, i) => Mined(q, i)'
  BY <1>1, <1>4, MinedStays DEF LayersInv
<1>6. PassedMined'
  BY <1>1, <1>5 DEF LayersInv, PassedMined
<1>7. LayersInOrder'
  <2>1. DOMAIN sent' = 1..Len(sent')
    BY <1>1, <1>2, <1>3 DEF SendTransaction
  <2> SUFFICES ASSUME NEW n \in 1..Len(sent'), NEW i \in 1..(sent'[n].step - 1),
                      Plan[sent'[n].request][sent'[n].step].op = "mint",
                      Plan[sent'[n].request][i].op = "mint"
               PROVE  \E m \in 1..(n - 1) :
                        m <= Len(receipts') /\ sent'[m] = Tx(sent'[n].request, i)
    BY DEF LayersInOrder, Tx
  <2>2. CASE n = p
    <3>1. sent'[n].request = r /\ sent'[n].step = at[r]
      BY <1>3, <2>2 DEF Tx
    <3>2. PICK m \in 1..Len(receipts) : sent[m] = Tx(r, i)
      BY <3>1 DEF LayersInv, PassedMined, Mined
    <3>3. m \in 1..(n - 1) /\ m <= Len(receipts')
      BY <1>1, <1>3, <2>2
    <3>4. sent'[m] = Tx(r, i)
      BY <1>4, <3>2
    <3> QED
      BY <3>1, <3>3, <3>4
  <2>3. CASE n # p
    <3>1. n \in 1..Len(sent) /\ sent'[n] = sent[n]
      BY <1>1, <1>3, <2>1, <2>3
    <3>2. PICK m \in 1..(n - 1) : m <= Len(receipts) /\ sent[m] = Tx(sent[n].request, i)
      BY <3>1 DEF LayersInv, LayersInOrder
    <3>3. m \in 1..Len(receipts) /\ m <= Len(receipts')
      BY <1>1, <3>1, <3>2
    <3>4. sent'[m] = sent[m]
      BY <1>4, <3>3
    <3> QED
      BY <3>1, <3>2, <3>3, <3>4
  <2> QED
    BY <2>2, <2>3
<1> QED
  BY <1>6, <1>7
\* So does mining.
LEMMA MineKeepsLayers ==
  ASSUME LayersInv, NEW status \in {"ok", "reverted"}, Mine(status)
  PROVE  PassedMined' /\ LayersInOrder'
<1>1. /\ Len(receipts) \in Nat /\ Len(receipts') = Len(receipts) + 1
      /\ UNCHANGED <<sent, at>>
  BY DEF LayersInv, AnswersInv, WalletShape, Mine, reqVars
<1>2. \A q \in Requests, i \in Int : Mined(q, i) => Mined(q, i)'
  BY <1>1, MinedStays DEF LayersInv
<1>3. PassedMined'
  <2>1. at \in [Requests -> Int]
    BY DEF LayersInv, AnswersInv, WalletShape
  <2> QED
    BY <1>1, <1>2, <2>1 DEF LayersInv, PassedMined
<1>4. LayersInOrder'
  <2>1. ASSUME NEW m \in Int, m <= Len(receipts) PROVE m <= Len(receipts')
    BY <1>1, <2>1
  <2> SUFFICES ASSUME NEW n \in 1..Len(sent), NEW i \in 1..(sent[n].step - 1),
                      Plan[sent[n].request][sent[n].step].op = "mint",
                      Plan[sent[n].request][i].op = "mint"
               PROVE  \E m \in 1..(n - 1) :
                        m <= Len(receipts') /\ sent[m] = Tx(sent[n].request, i)
    BY <1>1 DEF LayersInOrder, Tx
  <2>2. PICK m \in 1..(n - 1) : m <= Len(receipts) /\ sent[m] = Tx(sent[n].request, i)
    BY DEF LayersInv, LayersInOrder
  <2> QED
    BY <2>1, <2>2
<1> QED
  BY <1>3, <1>4

\* Every step of the wallet keeps the layers in order.
LEMMA LayersNext == LayersInv /\ [WalletNext]_walletVars => LayersInv'
<1> SUFFICES ASSUME LayersInv, [WalletNext]_walletVars
             PROVE  PassedMined' /\ LayersInOrder'
  BY AnswersNext DEF LayersInv
<1>1. ASSUME NEW r \in Requests, Receive(r) \/ PendingNonceAt(r) \/ PanicOnRevert(r)
      PROVE  PassedMined' /\ LayersInOrder'
  BY <1>1, QuietKeepsLayers DEF Receive, PendingNonceAt, PanicOnRevert, chainVars
<1>2. ASSUME NEW r \in Requests, Allowance(r) \/ ApproveReceipt(r)
      PROVE  PassedMined' /\ LayersInOrder'
  <2>1. Passable(r) /\ UNCHANGED <<sent, receipts>> /\ (Proceed(r) \/ UNCHANGED at)
    BY <1>2 DEF Allowance, ApproveReceipt, Step, Passable, chainVars
  <2> QED
    BY <2>1, QuietKeepsLayers
<1>3. ASSUME NEW r \in Requests, QueryPool(r)
      PROVE  PassedMined' /\ LayersInOrder'
  <2>1. Plan[r] = <<Create>> /\ at[r] >= 1 /\ at[r] \in Int
    BY <1>3, WalletAssumption
       DEF WalletAssumption, QueryPool, Plan, Requests, LayersInv, PassedMined,
           AnswersInv, WalletShape
  <2>2. ~(at[r] < Len(Plan[r]))
    BY <2>1
  <2>3. UNCHANGED <<at, sent, receipts>>
    BY <1>3, <2>2 DEF QueryPool, Proceed, chainVars
  <2> QED
    BY <2>3, QuietKeepsLayers
<1>4. ASSUME NEW r \in Requests, SendTransaction(r)
      PROVE  PassedMined' /\ LayersInOrder'
  BY <1>4, SendKeepsLayers
<1>5. ASSUME NEW r \in Requests, CallReceipt(r)
      PROVE  PassedMined' /\ LayersInOrder'
  <2>1. Mined(r, at[r])
    BY <1>5 DEF CallReceipt, HasReceipt, Mined, LayersInv, AnswersInv, WalletShape
  <2> QED
    BY <1>5, <2>1, QuietKeepsLayers DEF CallReceipt, Passable, chainVars
<1>6. ASSUME NEW r \in Requests, Break(r)
      PROVE  PassedMined' /\ LayersInOrder'
  <2>1. (Proceed(r) /\ Passable(r)) \/ UNCHANGED at
    BY <1>6 DEF Break, Tolerated, Step, Passable
  <2> QED
    BY <1>6, <2>1, QuietKeepsLayers DEF Break, chainVars
<1>7. CASE MineApproval \/ MineCall \/ MineCreate \/ Revert
  BY <1>7, MineKeepsLayers DEF MineApproval, MineCall, MineCreate, Revert
<1>8. CASE UNCHANGED walletVars
  BY <1>8, QuietKeepsLayers DEF walletVars, reqVars, chainVars
<1> QED
  BY <1>1, <1>2, <1>3, <1>4, <1>5, <1>6, <1>7, <1>8
     DEF WalletNext, RequestStep, FailCall, LoseReceipt

\* Whatever shares the account and however transactions replace each other, the
\* layers of a deposit are minted in order.
THEOREM LayersAlwaysInOrder == WalletSpec => []LayersInOrder
<1>1. WalletInit => LayersInv
  <2> SUFFICES ASSUME WalletInit PROVE PassedMined /\ LayersInOrder
    BY AnswersInit DEF LayersInv
  <2> QED
    BY DEF WalletInit, PassedMined, LayersInOrder
<1>2. LayersInv => LayersInOrder
  BY DEF LayersInv
<1> QED
  BY <1>1, <1>2, LayersNext, PTL DEF WalletSpec

-----------------------------------------------------------------------------
\* The steps a plan is made of.
Approvals == [op : {"approve"}, spender : Spenders, token : Tokens, amount : Nat]
Calls == [op : {"swap", "mint"}, spender : Spenders, amounts : [Tokens -> Nat]]
Steps == Approvals \cup Calls \cup {Create}

\* A plan of no step or of three is a sequence.
LEMMA ShortSeqs ==
  ASSUME NEW S, NEW a \in S, NEW b \in S, NEW c \in S
  PROVE  <<>> \in Seq(S) /\ <<a, b, c>> \in Seq(S)
  OBVIOUS

\* A layer takes whole amounts of both tokens.
LEMMA LayerAmounts ==
  ASSUME NEW d \in Deposits, NEW ratio \in 0..100
  PROVE  Layer(d, ratio) \in [Tokens -> Nat]
<1>1. ASSUME NEW t \in Tokens PROVE (Total[d][t] * ratio) \div 100 \in Nat
  BY ShareNat, WalletAssumption DEF WalletAssumption
<1> QED
  BY <1>1 DEF Layer

\* The plan of a layer is made of such steps,
LEMMA LayerPlanShape ==
  ASSUME NEW d \in Deposits, NEW ratio \in 0..100
  PROVE  LayerPlan(d, ratio) \in Seq(Steps)
<1> DEFINE amounts == Layer(d, ratio)
<1>1. amounts \in [Tokens -> Nat] /\ amounts[0] \in Nat /\ amounts[1] \in Nat
  BY LayerAmounts DEF Tokens
<1> HIDE DEF amounts
<1>2. Approve("positionMgr", 0, amounts[0]) \in Steps
  BY <1>1 DEF Approve, Steps, Approvals, Spenders, Tokens
<1>3. Approve("positionMgr", 1, amounts[1]) \in Steps
  BY <1>1 DEF Approve, Steps, Approvals, Spenders, Tokens
<1>4. Mint(amounts) \in Steps
  BY <1>1 DEF Mint, Steps, Calls, Spenders
<1>5. \/ LayerPlan(d, ratio) = <<>>
      \/ LayerPlan(d, ratio) =
           <<Approve("positionMgr", 0, amounts[0]), Approve("positionMgr", 1, amounts[1]),
             Mint(amounts)>>
  BY Zenon DEF LayerPlan, amounts
<1> QED
  BY <1>2, <1>3, <1>4, <1>5, ShortSeqs

\* and so is every plan.
LEMMA PlanShape ==
  ASSUME NEW r \in Requests
  PROVE  Plan[r] \in Seq(Steps) /\ Len(Plan[r]) \in Nat
<1>1. CASE r \in Swaps
  <2>1. AmountIn[r] \in Nat /\ 10 * AmountIn[r] \in Nat /\ TokenIn[r] \in Tokens
    BY <1>1, WalletAssumption DEF WalletAssumption
  <2>2. Approve("swapRouter", TokenIn[r], 10 * AmountIn[r]) \in Steps
    BY <2>1 DEF Approve, Steps, Approvals, Spenders
  <2>3. Swap(r) \in Steps
    BY <2>1 DEF Swap, Steps, Calls, Spenders
  <2>4. Plan[r] = SwapPlan(r)
    BY <1>1, WalletAssumption DEF Plan, WalletAssumption
  <2> QED
    BY <2>2, <2>3, <2>4 DEF SwapPlan
<1>2. CASE r \in Deposits
  <2>1. CoreRatio \in 0..100 /\ MidRatio \in 0..100 /\ TailRatio \in 0..100
    BY WalletAssumption DEF WalletAssumption
  <2>2. /\ LayerPlan(r, CoreRatio) \in Seq(Steps)
        /\ LayerPlan(r, MidRatio) \in Seq(Steps)
        /\ LayerPlan(r, TailRatio) \in Seq(Steps)
    BY <1>2, <2>1, LayerPlanShape
  <2>3. Plan[r] = DepositPlan(r)
    BY <1>2, WalletAssumption DEF Plan, WalletAssumption
  <2> QED
    BY <2>2, <2>3 DEF DepositPlan
<1>3. CASE r \in Creations
  <2>1. Plan[r] = <<Create>>
    BY <1>3, WalletAssumption DEF Plan, WalletAssumption
  <2> QED
    BY <2>1 DEF Steps
<1> QED
  BY <1>1, <1>2, <1>3 DEF Requests

\* An approval names a whole amount, a call whole amounts of both tokens.
LEMMA StepKinds ==
  ASSUME NEW step \in Steps
  PROVE  /\ step.op = "approve" => step \in Approvals
         /\ step.op \in {"swap", "mint"} => step \in Calls
  BY DEF Steps, Approvals, Calls, Create


-----------------------------------------------------------------------------
\* The types, and what keeps them: a request that is busy is in a step of its
\* plan, and so is every transaction that was sent.
Running == {"look", "nonce", "send", "wait"}

RequestsOK ==
  /\ at \in [Requests -> Nat \ {0}]
  /\ pc \in [Requests -> Running \cup Ended]
  /\ \A r \in Requests : at[r] = 1 \/ at[r] <= Len(Plan[r])
  /\ \A r \in Requests : pc[r] \in Running => at[r] <= Len(Plan[r])

ReportsOK ==
  /\ DOMAIN report = Requests
  /\ \A r \in Requests : report[r] \subseteq [step : Nat \ {0}, ok : BOOLEAN]

SentOK ==
  /\ sent \in Seq([request : Requests, step : Nat \ {0}])
  /\ \A n \in 1..Len(sent) : sent[n].step <= Len(Plan[sent[n].request])

MinedOK == receipts \in Seq({"ok", "reverted"}) /\ Len(receipts) <= Len(sent)

TokensOK == allowance \in [Spenders -> [Tokens -> Nat]] /\ poolExists \in BOOLEAN

WalletInv ==
  /\ RequestsOK /\ ReportsOK /\ SentOK /\ MinedOK /\ TokensOK
  /\ nonce \in [Requests -> Nat \ {0}]
  /\ unapproved \subseteq Requests /\ disturbed \subseteq Requests

\* Going on leads to a step of the plan or to the answer.
LEMMA ProceedKeeps ==
  ASSUME RequestsOK, NEW r \in Requests, pc[r] \in Running, Proceed(r)
  PROVE  RequestsOK'
<1> DEFINE len(q) == Len(Plan[q])
<1>1. \A q \in Requests : len(q) \in Nat
  BY PlanShape
<1>2. at[r] \in Nat \ {0} /\ at[r] <= len(r)
  BY DEF RequestsOK
<1>3. \A i \in Nat : Entry(Plan[r][i]) \in Running
  BY DEF Entry, Running
<1>4. CASE at[r] < len(r)
  <2>1. /\ at' = [at EXCEPT ![r] = @ + 1]
        /\ pc' = [pc EXCEPT ![r] = Entry(Plan[r][at[r] + 1])]
    BY <1>4 DEF Proceed
  <2>2. at[r] + 1 \in Nat \ {0} /\ at[r] + 1 <= len(r)
    BY <1>1, <1>2, <1>4
  <2>3. Entry(Plan[r][at[r] + 1]) \in Running
    BY <1>3, <2>2
  <2> HIDE DEF len
  <2>4. at' \in [Requests -> Nat \ {0}] /\ pc' \in [Requests -> Running \cup Ended]
    BY <2>1, <2>2, <2>3 DEF RequestsOK
  <2>5. \A q \in Requests : q # r => at'[q] = at[q] /\ pc'[q] = pc[q]
    BY <2>1 DEF RequestsOK
  <2>6. at'[r] <= len(r)
    BY <2>1, <2>2 DEF RequestsOK
  <2> QED
    BY <2>4, <2>5, <2>6 DEF RequestsOK, len
<1>5. CASE ~(at[r] < len(r))
  <2>1. at' = at /\ pc' = [pc EXCEPT ![r] = "answered"]
    BY <1>5 DEF Proceed
  <2> QED
    BY <2>1 DEF RequestsOK, Ended, Running
<1> QED
  BY <1>4, <1>5

\* So does a move within a step, or out of the plan.
LEMMA MoveKeeps ==
  ASSUME RequestsOK, NEW r \in Requests, NEW to \in Running \cup Ended,
         to \in Running => at[r] <= Len(Plan[r]),
         at' = at, pc' = [pc EXCEPT ![r] = to]
  PROVE  RequestsOK'
  BY DEF RequestsOK

\* The step a busy request is in is one of its plan.
LEMMA StepOfPlan ==
  ASSUME WalletInv, NEW r \in Requests, pc[r] \in Running
  PROVE  Tx(r, at[r]) \in [request : Requests, step : Nat \ {0}]
  BY DEF WalletInv, RequestsOK, Tx

\* The types hold at first,
LEMMA WalletInvInit == WalletInit => WalletInv
<1> SUFFICES ASSUME WalletInit PROVE WalletInv
  OBVIOUS
<1>1. RequestsOK
  BY DEF WalletInit, RequestsOK, Running, Ended
<1>2. ReportsOK
  BY DEF WalletInit, ReportsOK
<1>3. SentOK /\ MinedOK
  BY DEF WalletInit, SentOK, MinedOK
<1>4. allowance \in [Spenders -> [Tokens -> Nat]]
  BY WalletAssumption DEF WalletInit, WalletAssumption
<1>5. poolExists \in BOOLEAN
  BY Zenon DEF WalletInit
<1>6. /\ nonce \in [Requests -> Nat \ {0}]
      /\ unapproved \subseteq Requests /\ disturbed \subseteq Requests
  BY DEF WalletInit
<1> QED
  BY <1>1, <1>2, <1>3, <1>4, <1>5, <1>6 DEF WalletInv, TokensOK

\* as long as a request moves as above and leaves the rest alone,
LEMMA QuietKeepsTypes ==
  ASSUME WalletInv, RequestsOK', UNCHANGED <<nonce, report, chainVars>>,
         unapproved' \subseteq Requests
  PROVE  WalletInv'
<1>1. ReportsOK'
  BY DEF WalletInv, ReportsOK
<1>2. SentOK' /\ MinedOK'
  BY DEF WalletInv, SentOK, MinedOK, chainVars
<1>3. TokensOK' /\ disturbed' \subseteq Requests
  BY Zenon DEF WalletInv, TokensOK, chainVars
<1> QED
  BY <1>1, <1>2, <1>3 DEF WalletInv

\* or adds a result,
LEMMA ResultKeepsTypes ==
  ASSUME WalletInv, RequestsOK', NEW r \in Requests, NEW ok \in BOOLEAN,
         \A q \in Requests :
           report'[q] \subseteq report[q] \cup {[step |-> at[r], ok |-> ok]},
         DOMAIN report' = DOMAIN report,
         UNCHANGED <<nonce, unapproved, chainVars>>
  PROVE  WalletInv'
<1>1. [step |-> at[r], ok |-> ok] \in [step : Nat \ {0}, ok : BOOLEAN]
  BY DEF WalletInv, RequestsOK
<1>2. ReportsOK'
  BY <1>1, Zenon DEF WalletInv, ReportsOK
<1>3. SentOK' /\ MinedOK'
  BY DEF WalletInv, SentOK, MinedOK, chainVars
<1>4. TokensOK' /\ disturbed' \subseteq Requests
  BY Zenon DEF WalletInv, TokensOK, chainVars
<1> QED
  BY <1>2, <1>3, <1>4 DEF WalletInv

\* or sends a transaction: one more, or another in its place,
LEMMA ReplaceInSeq ==
  ASSUME NEW S, NEW s \in Seq(S), NEW i \in 1..Len(s), NEW x \in S
  PROVE  [s EXCEPT ![i] = x] \in Seq(S) /\ Len([s EXCEPT ![i] = x]) = Len(s)
  OBVIOUS

LEMMA ElementOfSeq ==
  ASSUME NEW S, NEW s \in Seq(S), NEW i \in 1..Len(s)
  PROVE  s[i] \in S
  OBVIOUS

\* What was sent is in a step of its request's plan.
LEMMA SentSteps ==
  ASSUME SentOK, NEW n \in 1..Len(sent)
  PROVE  /\ sent[n] \in [request : Requests, step : Nat \ {0}]
         /\ sent[n].request \in Requests /\ sent[n].step \in Nat \ {0}
         /\ sent[n].step <= Len(Plan[sent[n].request])
<1>1. sent[n] \in [request : Requests, step : Nat \ {0}]
  BY ElementOfSeq, Zenon DEF SentOK
<1>2. sent[n].step <= Len(Plan[sent[n].request])
  BY Zenon DEF SentOK
<1> QED
  BY <1>1, <1>2

LEMMA SendKeepsTypes ==
  ASSUME WalletInv, NEW r \in Requests, SendTransaction(r)
  PROVE  WalletInv'
<1> DEFINE tx == Tx(r, at[r])
           len(q) == Len(Plan[q])
           TxOK(x) == x \in [request : Requests, step : Nat \ {0}] /\ x.step <= len(x.request)
<1>1. pc[r] = "send" /\ at[r] \in Nat \ {0} /\ at[r] <= len(r) /\ nonce[r] \in Nat \ {0}
  BY DEF WalletInv, RequestsOK, SendTransaction, Running
<1>2. TxOK(tx)
  BY <1>1 DEF Tx
<1>3. \A n \in 1..Len(sent) : TxOK(sent[n])
  <2> SUFFICES ASSUME NEW n \in 1..Len(sent) PROVE TxOK(sent[n])
    OBVIOUS
  <2>1. SentOK
    BY DEF WalletInv
  <2>2. /\ sent[n] \in [request : Requests, step : Nat \ {0}]
        /\ sent[n].step <= Len(Plan[sent[n].request])
    BY <2>1, SentSteps
  <2> QED
    BY <2>2, Zenon
<1>4. sent \in Seq([request : Requests, step : Nat \ {0}])
  BY DEF WalletInv, SentOK
<1>5. SentOK' /\ Len(sent') >= Len(sent)
  <2>1. CASE nonce[r] > Len(sent)
    <3>1. sent' = Append(sent, tx)
      BY <2>1 DEF SendTransaction
    <3> HIDE DEF tx, TxOK
    <3>2. \A n \in 1..Len(sent') : TxOK(sent'[n])
      <4> SUFFICES ASSUME NEW n \in 1..Len(sent') PROVE TxOK(sent'[n])
        OBVIOUS
      <4>1. (sent'[n] = sent[n] /\ n \in 1..Len(sent)) \/ sent'[n] = tx
        BY <3>1, <1>4
      <4> QED
        BY <4>1, <1>2, <1>3
    <3>3. tx \in [request : Requests, step : Nat \ {0}]
      BY <1>2 DEF TxOK
    <3>4. /\ sent' \in Seq([request : Requests, step : Nat \ {0}])
          /\ Len(sent') >= Len(sent)
      BY <3>1, <3>3, <1>4
    <3> QED
      BY <3>2, <3>4 DEF SentOK, TxOK
  <2>2. CASE ~(nonce[r] > Len(sent))
    <3>1. sent' = [sent EXCEPT ![nonce[r]] = tx]
      BY <2>2 DEF SendTransaction
    <3> HIDE DEF tx, TxOK
    <3>2. \A n \in 1..Len(sent') : TxOK(sent'[n])
      <4> SUFFICES ASSUME NEW n \in 1..Len(sent') PROVE TxOK(sent'[n])
        OBVIOUS
      <4>1. n \in 1..Len(sent) /\ (sent'[n] = sent[n] \/ sent'[n] = tx)
        BY <3>1, <1>4
      <4> QED
        BY <4>1, <1>2, <1>3
    <3>3. tx \in [request : Requests, step : Nat \ {0}]
      BY <1>2 DEF TxOK
    <3>4. /\ sent' \in Seq([request : Requests, step : Nat \ {0}])
          /\ Len(sent') >= Len(sent)
      <4>1. nonce[r] \in 1..Len(sent)
        BY <1>1, <1>4, <2>2
      <4>2. /\ sent' \in Seq([request : Requests, step : Nat \ {0}])
            /\ Len(sent') = Len(sent)
        BY <3>1, <3>3, <1>4, <4>1, ReplaceInSeq
      <4> QED
        BY <4>2, <1>4
    <3> QED
      BY <3>2, <3>4 DEF SentOK, TxOK
  <2> QED
    BY <2>1, <2>2
<1>6. RequestsOK'
  <2>1. "wait" \in Running \cup Ended
    BY DEF Running
  <2> QED
    BY <1>1, <2>1, MoveKeeps DEF SendTransaction, WalletInv
<1>7. MinedOK'
  <2>1. Len(receipts) \in Nat /\ Len(sent) \in Nat /\ Len(sent') \in Nat
    BY <1>4, <1>5 DEF WalletInv, MinedOK, SentOK
  <2> QED
    BY <1>5, <2>1 DEF WalletInv, MinedOK, SendTransaction
<1>8. ReportsOK'
  BY DEF WalletInv, ReportsOK, SendTransaction
<1>9. /\ TokensOK' /\ nonce' \in [Requests -> Nat \ {0}]
      /\ unapproved' \subseteq Requests /\ disturbed' \subseteq Requests
  BY Zenon DEF WalletInv, TokensOK, SendTransaction
<1> QED
  BY <1>5, <1>6, <1>7, <1>8, <1>9 DEF WalletInv

\* and as long as the chain mines and the allowances stay amounts.
LEMMA MineKeepsTypes ==
  ASSUME WalletInv, NEW status \in {"ok", "reverted"}, Mine(status), TokensOK',
         disturbed' = disturbed \/ Disturb
  PROVE  WalletInv'
<1>1. MinedOK'
  BY DEF WalletInv, MinedOK, SentOK, Mine
<1>2. RequestsOK'
  BY DEF WalletInv, RequestsOK, Mine, reqVars
<1>3. ReportsOK' /\ SentOK'
  BY DEF WalletInv, ReportsOK, SentOK, Mine, reqVars
<1>4. nonce' \in [Requests -> Nat \ {0}] /\ unapproved' \subseteq Requests
  BY DEF WalletInv, Mine, reqVars
<1>5. disturbed' \subseteq Requests
  <2>1. \A q : Rivals(q) \subseteq Requests
    BY DEF Rivals, Requests
  <2> QED
    BY <2>1 DEF Disturb, WalletInv
<1> QED
  BY <1>1, <1>2, <1>3, <1>4, <1>5 DEF WalletInv

\* What is mined is a step of a plan.
LEMMA MiningStep ==
  ASSUME WalletInv, NEW status, Mine(status)
  PROVE  Mining \in Steps
<1> DEFINE n == Len(receipts) + 1
           q == sent[n].request
           i == sent[n].step
<1>1. n \in 1..Len(sent)
  BY DEF WalletInv, MinedOK, SentOK, Mine
<1>2. q \in Requests /\ i \in Nat \ {0} /\ i <= Len(Plan[q])
  BY <1>1, SentSteps DEF WalletInv
<1>3. Mining = Plan[q][i]
  BY DEF Mining
<1> HIDE DEF q, i
<1>4. Plan[q] \in Seq(Steps) /\ Len(Plan[q]) \in Nat
  BY <1>2, PlanShape
<1>5. i \in 1..Len(Plan[q])
  BY <1>2, <1>4
<1> QED
  BY <1>3, <1>4, <1>5

\* A request's step out of its plan or on in it, with the rest unchanged.
LEMMA BreakKeepsTypes ==
  ASSUME WalletInv, NEW r \in Requests, pc[r] \in Running, Break(r)
  PROVE  WalletInv'
<1>1. RequestsOK'
  <2>1. CASE Tolerated(r)
    BY <2>1, ProceedKeeps DEF Break, WalletInv
  <2>2. CASE ~Tolerated(r)
    <3>1. pc' = [pc EXCEPT ![r] = "error"] /\ at' = at
      BY <2>2 DEF Break
    <3>2. "error" \in Running \cup Ended /\ "error" \notin Running
      BY DEF Running, Ended
    <3> QED
      BY <3>1, <3>2, MoveKeeps DEF WalletInv
  <2> QED
    BY <2>1, <2>2
<1>2. unapproved' \subseteq Requests
  BY DEF Break, WalletInv
<1> QED
  BY <1>1, <1>2, QuietKeepsTypes DEF Break

\* Every step keeps the types.
LEMMA WalletInvNext == WalletInv /\ [WalletNext]_walletVars => WalletInv'
<1> SUFFICES ASSUME WalletInv, [WalletNext]_walletVars PROVE WalletInv'
  OBVIOUS
<1> USE DEF Running
<1>0. /\ RequestsOK
      /\ \A r \in Requests : pc[r] \in Running => at[r] <= Len(Plan[r])
      /\ unapproved \subseteq Requests
  BY DEF WalletInv, RequestsOK
<1>1. ASSUME NEW r \in Requests, Receive(r) PROVE WalletInv'
  <2>1. at[r] = 1 \/ at[r] <= Len(Plan[r])
    BY DEF WalletInv, RequestsOK
  <2>2. CASE Plan[r] = <<>>
    BY <2>2, <1>0, <1>1, MoveKeeps, QuietKeepsTypes DEF Receive, Ended
  <2>3. CASE Plan[r] # <<>>
    <3>1. Plan[r] \in Seq(Steps)
      BY PlanShape
    <3>2. Len(Plan[r]) \in Nat /\ Len(Plan[r]) >= 1
      BY <2>3, <3>1
    <3>3. at[r] <= Len(Plan[r])
      BY <2>1, <3>2
    <3>4. Entry(Plan[r][1]) \in Running
      BY DEF Entry
    <3>5. pc' = [pc EXCEPT ![r] = Entry(Plan[r][1])] /\ at' = at
      BY <2>3, <1>1 DEF Receive
    <3>6. RequestsOK'
      BY <1>0, <3>3, <3>4, <3>5, MoveKeeps
    <3> QED
      BY <3>6, <1>0, <1>1, QuietKeepsTypes DEF Receive
  <2> QED
    BY <2>2, <2>3
<1>2. ASSUME NEW r \in Requests, Allowance(r) PROVE WalletInv'
  <2>1. pc[r] \in Running
    BY <1>2 DEF Allowance
  <2>2. Proceed(r) \/ (pc' = [pc EXCEPT ![r] = "nonce"] /\ at' = at)
    BY <1>2 DEF Allowance
  <2>3. RequestsOK'
    BY <1>0, <2>1, <2>2, ProceedKeeps, MoveKeeps
  <2> QED
    BY <2>3, <1>0, <1>2, QuietKeepsTypes DEF Allowance
<1>3. ASSUME NEW r \in Requests, QueryPool(r) PROVE WalletInv'
  <2>1. pc[r] \in Running
    BY <1>3 DEF QueryPool
  <2>2. CASE Proceed(r) /\ report' = [report EXCEPT ![r] = {[step |-> at[r], ok |-> TRUE]}]
    <3>1. RequestsOK'
      BY <1>0, <2>1, <2>2, ProceedKeeps
    <3>2. /\ \A q \in Requests :
               report'[q] \subseteq report[q] \cup {[step |-> at[r], ok |-> TRUE]}
          /\ DOMAIN report' = DOMAIN report
      BY <2>2 DEF WalletInv, ReportsOK
    <3> QED
      BY <3>1, <3>2, <1>3, ResultKeepsTypes DEF QueryPool
  <2>3. CASE pc' = [pc EXCEPT ![r] = "nonce"] /\ UNCHANGED <<at, report>>
    <3>1. RequestsOK'
      BY <1>0, <2>1, <2>3, MoveKeeps
    <3> QED
      BY <3>1, <2>3, <1>0, <1>3, QuietKeepsTypes DEF QueryPool
  <2> QED
    BY <2>2, <2>3, <1>3 DEF QueryPool
<1>4. ASSUME NEW r \in Requests, PendingNonceAt(r) PROVE WalletInv'
  <2>1. pc[r] = "nonce" /\ pc' = [pc EXCEPT ![r] = "send"] /\ at' = at
    BY <1>4 DEF PendingNonceAt
  <2>2. RequestsOK'
    BY <1>0, <2>1, MoveKeeps
  <2>3. ReportsOK' /\ SentOK' /\ MinedOK' /\ unapproved' \subseteq Requests
    BY <1>4 DEF PendingNonceAt, WalletInv, ReportsOK, SentOK, MinedOK, chainVars
  <2>4. TokensOK' /\ disturbed' \subseteq Requests
    BY <1>4, Zenon DEF PendingNonceAt, WalletInv, TokensOK, chainVars
  <2>5. Len(sent) + 1 \in Nat \ {0}
    BY DEF WalletInv, SentOK
  <2>6. nonce' \in [Requests -> Nat \ {0}]
    BY <1>4, <2>5 DEF PendingNonceAt, WalletInv
  <2> QED
    BY <2>2, <2>3, <2>4, <2>6 DEF WalletInv
<1>5. ASSUME NEW r \in Requests, SendTransaction(r) PROVE WalletInv'
  BY <1>5, SendKeepsTypes
<1>6. ASSUME NEW r \in Requests, ApproveReceipt(r) PROVE WalletInv'
  <2>1. pc[r] \in Running /\ Proceed(r) /\ UNCHANGED <<nonce, report, chainVars>>
    BY <1>6 DEF ApproveReceipt
  <2>2. RequestsOK'
    BY <1>0, <2>1, ProceedKeeps
  <2>3. unapproved' \subseteq Requests
    BY <1>0, <1>6 DEF ApproveReceipt
  <2> QED
    BY <2>1, <2>2, <2>3, QuietKeepsTypes
<1>7. ASSUME NEW r \in Requests, CallReceipt(r) PROVE WalletInv'
  <2> DEFINE ok == receipts[nonce[r]] = "ok"
  <2>1. /\ pc[r] \in Running /\ Proceed(r) /\ ok \in BOOLEAN
        /\ UNCHANGED <<nonce, unapproved, chainVars>>
        /\ report' = [report EXCEPT ![r] = @ \cup {[step |-> at[r], ok |-> ok]}]
    BY <1>7, Zenon DEF CallReceipt
  <2> HIDE DEF ok
  <2>2. RequestsOK'
    BY <1>0, <2>1, ProceedKeeps
  <2>3. /\ \A q \in Requests :
             report'[q] \subseteq report[q] \cup {[step |-> at[r], ok |-> ok]}
        /\ DOMAIN report' = DOMAIN report
    BY <2>1 DEF WalletInv, ReportsOK
  <2> QED
    BY <2>1, <2>2, <2>3, ResultKeepsTypes
<1>8. ASSUME NEW r \in Requests, PanicOnRevert(r) PROVE WalletInv'
  <2>1. pc' = [pc EXCEPT ![r] = "error"] /\ UNCHANGED <<at, nonce, report, unapproved, chainVars>>
    BY <1>8 DEF PanicOnRevert
  <2>2. RequestsOK'
    BY <1>0, <2>1, MoveKeeps DEF Ended
  <2> QED
    BY <1>0, <2>1, <2>2, QuietKeepsTypes
<1>9. ASSUME NEW r \in Requests, FailCall(r) \/ LoseReceipt(r) PROVE WalletInv'
  BY <1>9, BreakKeepsTypes DEF FailCall, LoseReceipt
<1>10. CASE MineApproval
  <2>1. Mining \in Approvals
    BY <1>10, MiningStep, StepKinds DEF MineApproval
  <2>2. Mining.spender \in Spenders /\ Mining.token \in Tokens /\ 2 * Mining.amount \in Nat
    BY <2>1 DEF Approvals
  <2>3. allowance' \in [Spenders -> [Tokens -> Nat]]
    BY <1>10, <2>2 DEF MineApproval, WalletInv, TokensOK
  <2>4. poolExists' \in BOOLEAN
    BY <1>10, Zenon DEF MineApproval, WalletInv, TokensOK
  <2> QED
    BY <1>10, <2>3, <2>4, MineKeepsTypes DEF MineApproval, TokensOK
<1>11. CASE MineCall
  <2> DEFINE s == Mining.spender
             rest == [t \in Tokens |-> allowance[s][t] - Mining.amounts[t]]
  <2>1. Mining \in Calls
    BY <1>11, MiningStep, StepKinds DEF MineCall
  <2>2. s \in Spenders /\ Mining.amounts \in [Tokens -> Nat]
    BY <2>1 DEF Calls
  <2>3. ASSUME NEW t \in Tokens PROVE allowance[s][t] - Mining.amounts[t] \in Nat
    <3>1. allowance[s][t] \in Nat /\ Mining.amounts[t] \in Nat
      BY <2>2 DEF WalletInv, TokensOK
    <3>2. allowance[s][t] >= Mining.amounts[t]
      BY <1>11 DEF MineCall, Covered
    <3> QED
      BY <3>1, <3>2
  <2>4. rest \in [Tokens -> Nat]
    BY <2>3
  <2>5. allowance' = [allowance EXCEPT ![s] = rest]
    BY <1>11 DEF MineCall
  <2> HIDE DEF s, rest
  <2>6. allowance' \in [Spenders -> [Tokens -> Nat]]
    BY <2>2, <2>4, <2>5 DEF WalletInv, TokensOK
  <2>7. poolExists' \in BOOLEAN
    BY <1>11, Zenon DEF MineCall, WalletInv, TokensOK
  <2> QED
    BY <1>11, <2>6, <2>7, MineKeepsTypes DEF MineCall, TokensOK
<1>12. CASE MineCreate
  <2>1. TokensOK'
    BY <1>12, Zenon DEF MineCreate, WalletInv, TokensOK
  <2> QED
    BY <1>12, <2>1, MineKeepsTypes DEF MineCreate
<1>13. CASE Revert
  <2>1. TokensOK'
    BY <1>13, Zenon DEF Revert, WalletInv, TokensOK
  <2> QED
    BY <1>13, <2>1, MineKeepsTypes DEF Revert
<1>14. CASE UNCHANGED walletVars
  <2>1. RequestsOK'
    BY <1>14 DEF walletVars, reqVars, WalletInv, RequestsOK
  <2> QED
    BY <1>0, <1>14, <2>1, QuietKeepsTypes DEF walletVars, reqVars
<1> QED
  BY <1>1, <1>2, <1>3, <1>4, <1>5, <1>6, <1>7, <1>8, <1>9, <1>10, <1>11, <1>12, <1>13, <1>14
  DEF WalletNext, RequestStep

\* In particular an allowance never falls below nothing and no busy request
\* is past the end of its plan (lines 228-262 and 268 of the executor, and
\* lines 304-370 of pkg/api/service.go).
THEOREM WalletTypeCorrect == WalletSpec => []WalletTypeOK
<1>1. WalletInv => WalletTypeOK
  <2> SUFFICES ASSUME WalletInv PROVE WalletTypeOK
    OBVIOUS
  <2>1. /\ at \in [Requests -> Nat \ {0}]
        /\ \A r \in Requests : at[r] = 1 \/ at[r] <= Len(Plan[r])
        /\ pc \in [Requests -> {"look", "nonce", "send", "wait"} \cup Ended]
    BY DEF WalletInv, RequestsOK, Running
  <2>2. /\ nonce \in [Requests -> Nat \ {0}]
        /\ \A r \in Requests : report[r] \subseteq [step : Nat \ {0}, ok : BOOLEAN]
        /\ sent \in Seq([request : Requests, step : Nat \ {0}])
        /\ receipts \in Seq({"ok", "reverted"}) /\ Len(receipts) <= Len(sent)
    BY Zenon DEF WalletInv, ReportsOK, SentOK, MinedOK
  <2>3. /\ allowance \in [Spenders -> [Tokens -> Nat]] /\ poolExists \in BOOLEAN
        /\ unapproved \subseteq Requests /\ disturbed \subseteq Requests
    BY Zenon DEF WalletInv, TokensOK
  <2> QED
    BY <2>1, <2>2, <2>3, Zenon DEF WalletTypeOK
<1> QED
  BY <1>1, WalletInvInit, WalletInvNext, PTL DEF WalletSpec

-----------------------------------------------------------------------------
\* What lets a request go on from a step: an allowance that is large enough, a
\* receipt that is not of a failed approval, or an approval that is given up;
\* the one step of a creation is its last.
Passed(r) ==
  \/ pc[r] = "look" /\ Step(r).op = "approve"
     /\ allowance[Step(r).spender][Step(r).token] >= Step(r).amount
  \/ pc[r] = "wait" /\ HasReceipt(r)
     /\ (Step(r).op = "approve" => receipts[nonce[r]] = "ok")
  \/ r \in unapproved' /\ Step(r).op = "approve"
  \/ r \in Creations

\* A step of a request that sends nothing: it goes on to the next step of its
\* plan, on within a step whose transaction is not out, or out of the plan.
Hop(r) ==
  /\ UNCHANGED <<sent, receipts, allowance, disturbed>>
  /\ unapproved \subseteq unapproved'
  /\ \A q \in Requests \ {r} :
       /\ at'[q] = at[q] /\ pc'[q] = pc[q] /\ nonce'[q] = nonce[q]
       /\ q \in unapproved' => q \in unapproved
  /\ pc'[r] # "idle"
  /\ nonce'[r] = nonce[r] \/ nonce'[r] = Len(sent) + 1
  /\ \/ /\ at'[r] = at[r] + 1 /\ at[r] < Len(Plan[r])
        /\ pc[r] \in Running /\ pc'[r] \in {"look", "nonce"} /\ Passed(r)
     \/ at'[r] = at[r] /\ pc[r] \in {"idle", "look", "nonce"}
     \/ at'[r] = at[r] /\ pc'[r] \in {"answered", "error"}

\* Going on is one.
LEMMA ProceedHops ==
  ASSUME WalletInv, NEW r \in Requests, Proceed(r), pc[r] \in Running, Passed(r),
         UNCHANGED <<sent, receipts, allowance, disturbed, nonce>>,
         unapproved' = unapproved \/ unapproved' = unapproved \cup {r}
  PROVE  Hop(r)
<1>1. at \in [Requests -> Nat \ {0}] /\ pc \in [Requests -> Running \cup Ended]
  BY DEF WalletInv, RequestsOK
<1>2. CASE at[r] < Len(Plan[r])
  <2>1. /\ at' = [at EXCEPT ![r] = @ + 1]
        /\ pc' = [pc EXCEPT ![r] = Entry(Plan[r][at[r] + 1])]
    BY <1>2 DEF Proceed
  <2>2. Entry(Plan[r][at[r] + 1]) \in {"look", "nonce"}
    BY DEF Entry
  <2>3. at'[r] = at[r] + 1 /\ pc'[r] \in {"look", "nonce"}
    BY <1>1, <2>1, <2>2
  <2>4. \A q \in Requests \ {r} : at'[q] = at[q] /\ pc'[q] = pc[q]
    BY <1>1, <2>1
  <2> QED
    BY <1>2, <2>3, <2>4 DEF Hop
<1>3. CASE ~ (at[r] < Len(Plan[r]))
  <2>1. at' = at /\ pc' = [pc EXCEPT ![r] = "answered"]
    BY <1>3 DEF Proceed
  <2> QED
    BY <1>1, <2>1 DEF Hop
<1> QED
  BY <1>2, <1>3

\* So is every step of a request but the sending.
LEMMA StepsHop ==
  ASSUME WalletInv, NEW r \in Requests, Receive(r) \/ RequestStep(r), ~ SendTransaction(r)
  PROVE  Hop(r)
<1>1. at \in [Requests -> Nat \ {0}] /\ pc \in [Requests -> Running \cup Ended]
  BY DEF WalletInv, RequestsOK
<1>a. nonce \in [Requests -> Nat \ {0}]
  BY DEF WalletInv
<1>2. ASSUME NEW to, to # "idle", pc' = [pc EXCEPT ![r] = to], at' = at,
             UNCHANGED <<sent, receipts, allowance, disturbed>>,
             unapproved' = unapproved \/ unapproved' = unapproved \cup {r},
             nonce' = nonce \/ nonce' = [nonce EXCEPT ![r] = Len(sent) + 1],
             pc[r] \in {"idle", "look", "nonce"} \/ to \in {"answered", "error"}
      PROVE  Hop(r)
  <2>1. /\ pc'[r] = to /\ (nonce'[r] = nonce[r] \/ nonce'[r] = Len(sent) + 1)
        /\ \A q \in Requests \ {r} : pc'[q] = pc[q] /\ nonce'[q] = nonce[q]
    BY <1>1, <1>a, <1>2
  <2> QED
    BY <1>2, <2>1 DEF Hop
<1>3. ASSUME Receive(r) PROVE Hop(r)
  <2>1. Entry(Plan[r][1]) # "idle" /\ "answered" # "idle"
    BY DEF Entry
  <2> DEFINE to == IF Plan[r] = <<>> THEN "answered" ELSE Entry(Plan[r][1])
  <2>2. to # "idle" /\ pc' = [pc EXCEPT ![r] = to]
    BY <1>3, <2>1 DEF Receive
  <2> HIDE DEF to
  <2> QED
    BY <1>2, <1>3, <2>2 DEF Receive, chainVars
<1>4. ASSUME Allowance(r) PROVE Hop(r)
  <2>1. pc[r] = "look" /\ UNCHANGED <<sent, receipts, allowance, disturbed, nonce, unapproved>>
    BY <1>4 DEF Allowance, chainVars
  <2>2. CASE Proceed(r) /\ Passed(r)
    BY <2>1, <2>2, ProceedHops DEF Running
  <2>3. CASE pc' = [pc EXCEPT ![r] = "nonce"] /\ at' = at
    BY <2>1, <2>3, <1>2
  <2> QED
    BY <1>4, <2>2, <2>3 DEF Allowance, Passed
<1>5. ASSUME QueryPool(r) PROVE Hop(r)
  <2>1. pc[r] = "look" /\ r \in Creations /\ UNCHANGED <<sent, receipts, allowance, disturbed, nonce, unapproved>>
    BY <1>5 DEF QueryPool, chainVars
  <2>2. CASE Proceed(r)
    BY <2>1, <2>2, ProceedHops DEF Running, Passed
  <2>3. CASE pc' = [pc EXCEPT ![r] = "nonce"] /\ at' = at
    BY <2>1, <2>3, <1>2
  <2> QED
    BY <1>5, <2>2, <2>3 DEF QueryPool
<1>6. ASSUME PendingNonceAt(r) PROVE Hop(r)
  BY <1>2, <1>6 DEF PendingNonceAt, chainVars
<1>7. ASSUME ApproveReceipt(r) PROVE Hop(r)
  <2>1. /\ pc[r] = "wait" /\ Proceed(r) /\ UNCHANGED <<sent, receipts, allowance, disturbed, nonce>>
        /\ unapproved' = unapproved \/ unapproved' = unapproved \cup {r}
    BY <1>7 DEF ApproveReceipt, chainVars
  <2>2. Passed(r)
    BY <1>7 DEF ApproveReceipt, Passed
  <2> QED
    BY <2>1, <2>2, ProceedHops DEF Running
<1>8. ASSUME CallReceipt(r) PROVE Hop(r)
  <2>1. pc[r] = "wait" /\ Proceed(r) /\ UNCHANGED <<sent, receipts, allowance, disturbed, nonce, unapproved>>
    BY <1>8 DEF CallReceipt, chainVars
  <2>2. Passed(r)
    BY <1>8 DEF CallReceipt, Passed
  <2> QED
    BY <2>1, <2>2, ProceedHops DEF Running
<1>9. ASSUME PanicOnRevert(r) PROVE Hop(r)
  <2>1. /\ pc' = [pc EXCEPT ![r] = "error"] /\ at' = at
        /\ UNCHANGED <<sent, receipts, allowance, disturbed, nonce, unapproved>>
    BY <1>9 DEF PanicOnRevert, chainVars
  <2> QED
    BY <1>2, <2>1
<1>10. ASSUME Break(r), pc[r] \in Running PROVE Hop(r)
  <2>1. /\ UNCHANGED <<sent, receipts, allowance, disturbed, nonce>>
        /\ unapproved' = unapproved \/ unapproved' = unapproved \cup {r}
    BY <1>10 DEF Break, chainVars
  <2>2. CASE Tolerated(r)
    <3>1. Proceed(r) /\ Passed(r)
      BY <1>10, <2>2 DEF Break, Tolerated, Passed
    <3> QED
      BY <1>10, <2>1, <3>1, ProceedHops
  <2>3. CASE ~ Tolerated(r)
    <3>1. pc' = [pc EXCEPT ![r] = "error"] /\ at' = at
      BY <1>10, <2>3 DEF Break
    <3> QED
      BY <1>2, <2>1, <3>1
  <2> QED
    BY <2>2, <2>3
<1> QED
  BY <1>3, <1>4, <1>5, <1>6, <1>7, <1>8, <1>9, <1>10
     DEF RequestStep, FailCall, LoseReceipt, Running

\* A sending puts the request's transaction under its nonce, which is not mined.
LEMMA SendPuts ==
  ASSUME WalletInv, NEW r \in Requests, SendTransaction(r), nonce[r] <= Len(sent) + 1
  PROVE  LET p == nonce[r]
         IN  /\ p \in Nat \ {0} /\ p > Len(receipts)
             /\ sent' \in Seq([request : Requests, step : Nat \ {0}])
             /\ 1..Len(sent') = 1..Len(sent) \cup {p}
             /\ sent'[p] = Tx(r, at[r])
             /\ \A n \in 1..Len(sent) : n # p => sent'[n] = sent[n]
             /\ Len(sent') >= Len(sent)
<1> DEFINE p == nonce[r]
           x == Tx(r, at[r])
           S == [request : Requests, step : Nat \ {0}]
<1>1. p \in Nat \ {0} /\ p > Len(receipts) /\ p <= Len(sent) + 1
  BY DEF WalletInv, SendTransaction
<1>2. sent \in Seq(S) /\ x \in S
  BY StepOfPlan DEF WalletInv, SentOK, SendTransaction, Running
<1>3. CASE p > Len(sent)
  <2>1. sent' = Append(sent, x) /\ p = Len(sent) + 1
    BY <1>1, <1>2, <1>3 DEF SendTransaction
  <2> HIDE DEF x, p, S
  <2>2. /\ sent' \in Seq(S) /\ Len(sent') = Len(sent) + 1 /\ sent'[Len(sent) + 1] = x
        /\ \A n \in 1..Len(sent) : sent'[n] = sent[n]
        /\ Len(sent) \in Nat
    BY <1>2, <2>1
  <2>3. 1..Len(sent') = 1..Len(sent) \cup {p} /\ Len(sent') >= Len(sent)
    BY <2>1, <2>2
  <2> QED
    BY <1>1, <2>1, <2>2, <2>3 DEF x, p, S
<1>4. CASE ~ (p > Len(sent))
  <2>1. sent' = [sent EXCEPT ![p] = x]
    BY <1>4 DEF SendTransaction
  <2> HIDE DEF x, p, S
  <2>2. p \in 1..Len(sent) /\ Len(sent) \in Nat
    BY <1>1, <1>2, <1>4
  <2>3. sent' \in Seq(S) /\ Len(sent') = Len(sent)
    BY <1>2, <2>1, <2>2, ReplaceInSeq
  <2>4. sent'[p] = x /\ \A n \in 1..Len(sent) : n # p => sent'[n] = sent[n]
    BY <1>2, <2>1, <2>2
  <2> QED
    BY <1>1, <2>2, <2>3, <2>4 DEF x, p, S
<1> QED
  BY <1>1, <1>2, <1>3, <1>4

\* Where a request's transactions are: one for a step it has been in, and for
\* the step it is in only when it is out, under its nonce.
SentPlaces ==
  \A n \in 1..Len(sent) :
    LET r == sent[n].request
    IN  /\ pc[r] # "idle"
        /\ sent[n].step <= at[r]
        /\ sent[n].step = at[r] =>
             pc[r] \in {"answered", "error"} \/ (pc[r] = "wait" /\ n = nonce[r])

\* No transaction is out twice.
SentOnce == \A m, n \in 1..Len(sent) : sent[m] = sent[n] => m = n

\* A nonce is at most the next one; a request that is not made is not begun.
Beginnings ==
  \A r \in Requests : nonce[r] <= Len(sent) + 1 /\ (pc[r] = "idle" => at[r] = 1)

PlacesInv == WalletInv /\ SentPlaces /\ SentOnce /\ Beginnings

\* They hold at first,
LEMMA PlacesInit == WalletInit => PlacesInv
<1> SUFFICES ASSUME WalletInit PROVE SentPlaces /\ SentOnce /\ Beginnings
  BY WalletInvInit DEF PlacesInv
<1>1. SentPlaces /\ SentOnce
  BY DEF WalletInit, SentPlaces, SentOnce
<1>2. Beginnings
  BY DEF WalletInit, Beginnings
<1> QED
  BY <1>1, <1>2

\* when a request moves without sending,
LEMMA HopKeepsPlaces ==
  ASSUME PlacesInv, NEW r \in Requests, Hop(r)
  PROVE  SentPlaces' /\ SentOnce' /\ Beginnings'
<1>1. /\ at \in [Requests -> Nat \ {0}] /\ nonce \in [Requests -> Nat \ {0}]
      /\ sent \in Seq([request : Requests, step : Nat \ {0}]) /\ Len(sent) \in Nat
  BY DEF PlacesInv, WalletInv, RequestsOK, SentOK
<1>2. SentPlaces'
  <2> SUFFICES ASSUME NEW n \in 1..Len(sent)
               PROVE  /\ pc'[sent[n].request] # "idle"
                      /\ sent[n].step <= at'[sent[n].request]
                      /\ sent[n].step = at'[sent[n].request] =>
                           \/ pc'[sent[n].request] \in {"answered", "error"}
                           \/ pc'[sent[n].request] = "wait" /\ n = nonce'[sent[n].request]
    BY DEF SentPlaces, Hop
  <2> DEFINE q == sent[n].request
             i == sent[n].step
  <2>1. q \in Requests /\ i \in Nat \ {0}
    BY SentSteps DEF PlacesInv, WalletInv
  <2>2. /\ pc[q] # "idle" /\ i <= at[q]
        /\ i = at[q] => pc[q] \in {"answered", "error"} \/ (pc[q] = "wait" /\ n = nonce[q])
    BY DEF PlacesInv, SentPlaces
  <2> HIDE DEF q, i
  <2>3. CASE q # r
    BY <2>1, <2>2, <2>3 DEF Hop, q, i
  <2>4. CASE q = r
    <3>1. at[r] \in Nat /\ i \in Nat
      BY <1>1, <2>1
    <3>2. CASE at'[r] = at[r] + 1
      BY <2>2, <2>4, <3>1, <3>2 DEF Hop, q, i
    <3>3. CASE at'[r] = at[r] /\ pc[r] \in {"idle", "look", "nonce"}
      BY <2>2, <2>4, <3>1, <3>3 DEF Hop, q, i
    <3>4. CASE at'[r] = at[r] /\ pc'[r] \in {"answered", "error"}
      BY <2>2, <2>4, <3>1, <3>4 DEF Hop, q, i
    <3> QED
      BY <3>2, <3>3, <3>4 DEF Hop
  <2> QED
    BY <2>3, <2>4
<1>3. SentOnce'
  BY DEF PlacesInv, SentOnce, Hop
<1>4. Beginnings'
  <2> SUFFICES ASSUME NEW q \in Requests
               PROVE  nonce'[q] <= Len(sent) + 1 /\ (pc'[q] = "idle" => at'[q] = 1)
    BY DEF Beginnings, Hop
  <2>1. nonce[q] <= Len(sent) + 1 /\ (pc[q] = "idle" => at[q] = 1)
    BY DEF PlacesInv, Beginnings
  <2>2. nonce'[q] \in {nonce[q], Len(sent) + 1}
    BY DEF Hop
  <2>3. pc'[q] = "idle" => at'[q] = at[q] /\ pc[q] = "idle"
    BY DEF Hop
  <2> QED
    BY <1>1, <2>1, <2>2, <2>3
<1> QED
  BY <1>2, <1>3, <1>4

\* when it sends,
LEMMA SendKeepsPlaces ==
  ASSUME PlacesInv, NEW r \in Requests, SendTransaction(r)
  PROVE  SentPlaces' /\ SentOnce' /\ Beginnings'
<1> DEFINE p == nonce[r]
           x == Tx(r, at[r])
<1>0. /\ at \in [Requests -> Nat \ {0}] /\ nonce \in [Requests -> Nat \ {0}]
      /\ pc \in [Requests -> Running \cup Ended]
      /\ sent \in Seq([request : Requests, step : Nat \ {0}]) /\ Len(sent) \in Nat
  BY DEF PlacesInv, WalletInv, RequestsOK, SentOK
<1>1. /\ p \in Nat \ {0} /\ p > Len(receipts)
      /\ sent' \in Seq([request : Requests, step : Nat \ {0}])
      /\ 1..Len(sent') = 1..Len(sent) \cup {p}
      /\ sent'[p] = x
      /\ \A n \in 1..Len(sent) : n # p => sent'[n] = sent[n]
      /\ Len(sent') >= Len(sent)
  BY SendPuts DEF PlacesInv, Beginnings
<1>2. /\ pc[r] = "send" /\ pc'[r] = "wait" /\ at' = at /\ nonce' = nonce
      /\ \A q \in Requests \ {r} : pc'[q] = pc[q]
  BY <1>0 DEF SendTransaction
<1>3. \A n \in 1..Len(sent) : /\ sent[n].request \in Requests /\ sent[n].step \in Nat
                              /\ sent[n].request = r => sent[n].step < at[r]
  <2> SUFFICES ASSUME NEW n \in 1..Len(sent)
               PROVE  /\ sent[n].request \in Requests /\ sent[n].step \in Nat
                      /\ sent[n].request = r => sent[n].step < at[r]
    OBVIOUS
  <2>1. sent[n].request \in Requests /\ sent[n].step \in Nat \ {0}
    BY SentSteps DEF PlacesInv, WalletInv
  <2> DEFINE q == sent[n].request
             i == sent[n].step
  <2>2. i <= at[q] /\ (i = at[q] => pc[q] \in {"answered", "error", "wait"})
    BY DEF PlacesInv, SentPlaces
  <2> HIDE DEF q, i
  <2>3. ASSUME q = r PROVE i < at[r]
    <3>1. at[r] \in Nat /\ i \in Nat
      BY <1>0, <2>1 DEF i
    <3> QED
      BY <1>2, <2>2, <2>3, <3>1
  <2> QED
    BY <2>1, <2>3 DEF q, i
<1>4. x.request = r /\ x.step = at[r]
  BY DEF Tx
<1> HIDE DEF x, p
<1>5. SentPlaces'
  <2> SUFFICES ASSUME NEW n \in 1..Len(sent')
               PROVE  /\ pc'[sent'[n].request] # "idle"
                      /\ sent'[n].step <= at'[sent'[n].request]
                      /\ sent'[n].step = at'[sent'[n].request] =>
                           \/ pc'[sent'[n].request] \in {"answered", "error"}
                           \/ pc'[sent'[n].request] = "wait" /\ n = nonce'[sent'[n].request]
    BY DEF SentPlaces
  <2>1. CASE n = p
    <3>1. sent'[n].request = r /\ sent'[n].step = at[r]
      BY <1>1, <1>4, <2>1
    <3>2. pc'[r] = "wait" /\ at'[r] = at[r] /\ n = nonce'[r] /\ at[r] \in Nat
      BY <1>0, <1>2, <2>1 DEF p
    <3> QED
      BY <3>1, <3>2
  <2>2. CASE n # p
    <3>1. n \in 1..Len(sent) /\ sent'[n] = sent[n]
      BY <1>1, <2>2
    <3>2. CASE sent[n].request = r
      <4>1. sent[n].step \in Nat /\ sent[n].step < at[r] /\ at'[r] = at[r] /\ at[r] \in Nat
        BY <1>0, <1>2, <1>3, <3>1, <3>2
      <4>2. pc'[r] = "wait"
        BY <1>0, <1>2
      <4> QED
        BY <3>1, <3>2, <4>1, <4>2
    <3>3. CASE sent[n].request # r
      BY <1>2, <1>3, <3>1, <3>3 DEF PlacesInv, SentPlaces
    <3> QED
      BY <3>2, <3>3
  <2> QED
    BY <2>1, <2>2
<1>6. SentOnce'
  <2>1. ASSUME NEW n \in 1..Len(sent') PROVE n = p \/ (n \in 1..Len(sent) /\ sent'[n] = sent[n] /\ sent'[n] # x)
    <3>1. SUFFICES ASSUME n # p PROVE n \in 1..Len(sent) /\ sent'[n] = sent[n] /\ sent[n] # x
      OBVIOUS
    <3>2. n \in 1..Len(sent) /\ sent'[n] = sent[n]
      BY <1>1, <3>1
    <3> QED
      BY <1>0, <1>3, <1>4, <3>2
  <2> QED
    BY <1>1, <2>1 DEF PlacesInv, SentOnce
<1>7. Beginnings'
  <2> SUFFICES ASSUME NEW q \in Requests
               PROVE  nonce'[q] <= Len(sent') + 1 /\ (pc'[q] = "idle" => at'[q] = 1)
    BY DEF Beginnings
  <2>1. Len(sent') \in Nat /\ Len(sent') >= Len(sent)
    BY <1>1
  <2>2. nonce[q] <= Len(sent) + 1 /\ (pc[q] = "idle" => at[q] = 1)
    BY DEF PlacesInv, Beginnings
  <2>3. nonce'[q] = nonce[q] /\ at'[q] = at[q] /\ nonce[q] \in Nat
    BY <1>0, <1>2
  <2>4. pc'[q] = "idle" => pc[q] = "idle"
    BY <1>2
  <2> QED
    BY <1>0, <2>1, <2>2, <2>3, <2>4
<1> QED
  BY <1>5, <1>6, <1>7

\* and when the chain mines.
LEMMA PlacesNext == PlacesInv /\ [WalletNext]_walletVars => PlacesInv'
<1> SUFFICES ASSUME PlacesInv, [WalletNext]_walletVars
             PROVE  SentPlaces' /\ SentOnce' /\ Beginnings'
  BY WalletInvNext DEF PlacesInv
<1>1. ASSUME UNCHANGED <<at, pc, nonce, sent>>
      PROVE  SentPlaces' /\ SentOnce' /\ Beginnings'
  BY <1>1 DEF PlacesInv, SentPlaces, SentOnce, Beginnings
<1>2. ASSUME NEW r \in Requests, Receive(r) \/ RequestStep(r)
      PROVE  SentPlaces' /\ SentOnce' /\ Beginnings'
  <2>1. CASE SendTransaction(r)
    BY <2>1, SendKeepsPlaces
  <2>2. CASE ~ SendTransaction(r)
    <3>1. Hop(r)
      BY <1>2, <2>2, StepsHop DEF PlacesInv
    <3> QED
      BY <3>1, HopKeepsPlaces
  <2> QED
    BY <2>1, <2>2
<1>3. CASE MineApproval \/ MineCall \/ MineCreate \/ Revert
  BY <1>1, <1>3 DEF MineApproval, MineCall, MineCreate, Revert, Mine, reqVars
<1>4. CASE UNCHANGED walletVars
  BY <1>1, <1>4 DEF walletVars, reqVars, chainVars
<1> QED
  BY <1>2, <1>3, <1>4 DEF WalletNext

-----------------------------------------------------------------------------
\* The three steps of a layer start at the j-th step of a plan.
LayerAt(p, j) ==
  /\ j >= 1 /\ j + 2 <= Len(p)
  /\ \E amounts \in [Tokens -> Nat] :
       /\ p[j] = Approve("positionMgr", 0, amounts[0])
       /\ p[j + 1] = Approve("positionMgr", 1, amounts[1])
       /\ p[j + 2] = Mint(amounts)

\* A plan of layers only.
Layered(p) ==
  /\ p \in Seq(Steps)
  /\ \A i \in 1..Len(p) : LayerAt(p, i) \/ LayerAt(p, i - 1) \/ LayerAt(p, i - 2)

\* A layer's plan is such a plan,
LEMMA LayerPlanLayered ==
  ASSUME NEW d \in Deposits, NEW ratio \in 0..100
  PROVE  Layered(LayerPlan(d, ratio))
<1> DEFINE amounts == Layer(d, ratio)
           p == LayerPlan(d, ratio)
<1>1. amounts \in [Tokens -> Nat]
  BY LayerAmounts
<1>2. p \in Seq(Steps)
  BY LayerPlanShape
<1> HIDE DEF amounts
<1>3. \/ p = <<>>
      \/ p = <<Approve("positionMgr", 0, amounts[0]), Approve("positionMgr", 1, amounts[1]),
               Mint(amounts)>>
  BY Zenon DEF LayerPlan, amounts
<1> HIDE DEF p
<1>4. CASE p = <<>>
  BY <1>2, <1>4 DEF Layered, p
<1>5. CASE p # <<>>
  <2>1. Len(p) = 3 /\ LayerAt(p, 1)
    <3>1. p = <<Approve("positionMgr", 0, amounts[0]), Approve("positionMgr", 1, amounts[1]),
                Mint(amounts)>>
      BY <1>3, <1>5
    <3>2. /\ Len(p) = 3 /\ p[1] = Approve("positionMgr", 0, amounts[0])
          /\ p[1 + 1] = Approve("positionMgr", 1, amounts[1]) /\ p[1 + 2] = Mint(amounts)
      BY <3>1
    <3> QED
      BY <1>1, <3>2 DEF LayerAt
  <2>2. \A i \in 1..Len(p) : i = 1 \/ i - 1 = 1 \/ i - 2 = 1
    BY <2>1
  <2>3. \A i \in 1..Len(p) : LayerAt(p, i) \/ LayerAt(p, i - 1) \/ LayerAt(p, i - 2)
    BY <2>1, <2>2
  <2> QED
    BY <1>2, <2>3 DEF Layered, p
<1> QED
  BY <1>4, <1>5 DEF p

\* and so is one such plan after another.
LEMMA ConcatLayered ==
  ASSUME NEW p, NEW q, Layered(p), Layered(q)
  PROVE  Layered(p \o q)
<1>1. p \in Seq(Steps) /\ q \in Seq(Steps)
  BY DEF Layered
<1> DEFINE w == p \o q
           l == Len(p)
<1>2. /\ w \in Seq(Steps) /\ Len(w) = l + Len(q) /\ l \in Nat /\ Len(q) \in Nat
      /\ \A i \in 1..l : w[i] = p[i]
      /\ \A i \in 1..Len(q) : w[l + i] = q[i]
  <2>1. w \in Seq(Steps) /\ Len(w) = l + Len(q) /\ l \in Nat /\ Len(q) \in Nat
    BY <1>1
  <2>2. ASSUME NEW i \in 1..l PROVE w[i] = p[i]
    BY <1>1
  <2>3. ASSUME NEW i \in 1..Len(q) PROVE w[l + i] = q[i]
    BY <1>1
  <2> QED
    BY <2>1, <2>2, <2>3
<1> HIDE DEF w, l
<1>3. ASSUME NEW j \in Int, LayerAt(p, j) PROVE LayerAt(w, j)
  <2>1. /\ j \in 1..l /\ j + 1 \in 1..l /\ j + 2 \in 1..l /\ j >= 1 /\ j + 2 <= Len(w)
    BY <1>2, <1>3 DEF LayerAt, l
  <2>2. w[j] = p[j] /\ w[j + 1] = p[j + 1] /\ w[j + 2] = p[j + 2]
    BY <1>2, <2>1
  <2> QED
    BY <1>3, <2>1, <2>2 DEF LayerAt
<1>4. ASSUME NEW j \in Int, LayerAt(q, j) PROVE LayerAt(w, l + j)
  <2>1. /\ j \in 1..Len(q) /\ j + 1 \in 1..Len(q) /\ j + 2 \in 1..Len(q)
        /\ l + j >= 1 /\ (l + j) + 2 <= Len(w)
    <3>1. j >= 1 /\ j + 2 <= Len(q)
      BY <1>4 DEF LayerAt
    <3>2. l \in Nat /\ Len(q) \in Nat /\ Len(w) = l + Len(q)
      BY <1>2
    <3> QED
      BY <3>1, <3>2
  <2>2. w[l + j] = q[j] /\ w[l + (j + 1)] = q[j + 1] /\ w[l + (j + 2)] = q[j + 2]
    BY <1>2, <2>1
  <2>3. l + (j + 1) = (l + j) + 1 /\ l + (j + 2) = (l + j) + 2
    BY <1>2
  <2>4. w[l + j] = q[j] /\ w[(l + j) + 1] = q[j + 1] /\ w[(l + j) + 2] = q[j + 2]
    BY <2>2, <2>3
  <2> HIDE DEF Layered
  <2> QED
    BY <1>4, <2>1, <2>4 DEF LayerAt
<1>5. ASSUME NEW i \in 1..Len(w)
      PROVE  LayerAt(w, i) \/ LayerAt(w, i - 1) \/ LayerAt(w, i - 2)
  <2>1. CASE i <= l
    <3>1. i \in 1..Len(p)
      BY <1>2, <2>1 DEF l
    <3>2. LayerAt(p, i) \/ LayerAt(p, i - 1) \/ LayerAt(p, i - 2)
      BY <3>1 DEF Layered
    <3> QED
      BY <1>3, <3>2
  <2>2. CASE i > l
    <3>1. PICK k \in 1..Len(q) : i = l + k
      <4>1. i - l \in 1..Len(q) /\ i = l + (i - l)
        BY <1>2, <2>2
      <4> QED
        BY <4>1
    <3>2. LayerAt(q, k) \/ LayerAt(q, k - 1) \/ LayerAt(q, k - 2)
      BY DEF Layered
    <3>3. LayerAt(w, l + k) \/ LayerAt(w, l + (k - 1)) \/ LayerAt(w, l + (k - 2))
      BY <1>4, <3>2
    <3>4. l + k = i /\ l + (k - 1) = i - 1 /\ l + (k - 2) = i - 2
      BY <1>2, <3>1
    <3> QED
      BY <3>3, <3>4
  <2> QED
    BY <1>2, <2>1, <2>2
<1> QED
  BY <1>2, <1>5 DEF Layered, w

\* A deposit's plan is: the approvals of a layer come before its mint, each of
\* what the mint takes, and a layer follows a mint.
LEMMA DepositSteps ==
  ASSUME NEW d \in Deposits, NEW i \in 1..Len(Plan[d])
  PROVE  LET step == Plan[d][i]
             next == Plan[d][i + 1]
         IN  /\ step.op \in {"approve", "mint"} /\ step.spender = "positionMgr"
             /\ step.op = "approve" => step \in Approvals
             /\ step.op = "mint" => step \in Calls /\ i > 1
             /\ step.op = "approve" /\ step.token = 0 =>
                  next.op = "approve" /\ next.token = 1
             /\ step.op = "approve" /\ step.token = 1 =>
                  /\ i - 1 \in 1..Len(Plan[d])
                  /\ Plan[d][i - 1].op = "approve" /\ Plan[d][i - 1].token = 0
                  /\ next.op = "mint"
                  /\ next.amounts[0] = Plan[d][i - 1].amount
                  /\ next.amounts[1] = step.amount
             /\ step.op = "mint" /\ i < Len(Plan[d]) =>
                  next.op = "approve" /\ next.token = 0
<1> DEFINE p == Plan[d]
<1>1. Layered(p)
  <2>1. CoreRatio \in 0..100 /\ MidRatio \in 0..100 /\ TailRatio \in 0..100
    BY WalletAssumption DEF WalletAssumption
  <2>2. Plan[d] = DepositPlan(d)
    BY WalletAssumption DEF Plan, WalletAssumption, Requests
  <2> QED
    BY <2>1, <2>2, LayerPlanLayered, ConcatLayered DEF DepositPlan
<1>2. Len(p) \in Nat /\ p \in Seq(Steps)
  BY <1>1 DEF Layered
<1> HIDE DEF p
<1>3. ASSUME NEW j \in Int, LayerAt(p, j)
      PROVE  \E amounts \in [Tokens -> Nat] :
               /\ j \in 1..Len(p) /\ j + 1 \in 1..Len(p) /\ j + 2 \in 1..Len(p)
               /\ p[j] = Approve("positionMgr", 0, amounts[0])
               /\ p[j + 1] = Approve("positionMgr", 1, amounts[1])
               /\ p[j + 2] = Mint(amounts)
               /\ p[j] \in Approvals /\ p[j + 1] \in Approvals /\ p[j + 2] \in Calls
  <2>1. PICK amounts \in [Tokens -> Nat] :
               /\ p[j] = Approve("positionMgr", 0, amounts[0])
               /\ p[j + 1] = Approve("positionMgr", 1, amounts[1])
               /\ p[j + 2] = Mint(amounts)
    BY <1>3 DEF LayerAt
  <2>2. j \in 1..Len(p) /\ j + 1 \in 1..Len(p) /\ j + 2 \in 1..Len(p)
    BY <1>2, <1>3 DEF LayerAt
  <2>3. p[j] \in Approvals /\ p[j + 1] \in Approvals /\ p[j + 2] \in Calls
    BY <2>1 DEF Approve, Mint, Approvals, Calls, Spenders, Tokens
  <2> QED
    BY <2>1, <2>2, <2>3
<1>4. CASE LayerAt(p, i)
  <2>1. PICK amounts \in [Tokens -> Nat] :
               /\ p[i] = Approve("positionMgr", 0, amounts[0])
               /\ p[i + 1] = Approve("positionMgr", 1, amounts[1])
               /\ p[i] \in Approvals
    BY <1>3, <1>4
  <2> QED
    BY <2>1 DEF Approve, p
<1>5. CASE LayerAt(p, i - 1)
  <2>1. (i - 1) + 1 = i /\ (i - 1) + 2 = i + 1 /\ i - 1 \in Int
    BY <1>2
  <2>2. PICK amounts \in [Tokens -> Nat] :
               /\ i - 1 \in 1..Len(p)
               /\ p[i - 1] = Approve("positionMgr", 0, amounts[0])
               /\ p[i] = Approve("positionMgr", 1, amounts[1])
               /\ p[i + 1] = Mint(amounts)
               /\ p[i] \in Approvals
    BY <1>3, <1>5, <2>1
  <2> QED
    BY <2>2 DEF Approve, Mint, p
<1>6. CASE LayerAt(p, i - 2)
  <2>1. (i - 2) + 1 = i - 1 /\ (i - 2) + 2 = i /\ i - 2 \in Int
    BY <1>2
  <2>2. PICK amounts \in [Tokens -> Nat] :
               /\ i - 2 \in 1..Len(p)
               /\ p[i - 2] = Approve("positionMgr", 0, amounts[0])
               /\ p[i - 1] = Approve("positionMgr", 1, amounts[1])
               /\ p[i] = Mint(amounts) /\ p[i] \in Calls
    BY <1>3, <1>6, <2>1
  <2>3. ASSUME i < Len(p) PROVE p[i + 1].op = "approve" /\ p[i + 1].token = 0
    <3>1. i + 1 \in 1..Len(p) /\ (i + 1) - 1 = i /\ (i + 1) - 2 = i - 1
      BY <1>2, <2>3 DEF p
    <3>2. LayerAt(p, i + 1) \/ LayerAt(p, i) \/ LayerAt(p, i - 1)
      <4>1. LayerAt(p, i + 1) \/ LayerAt(p, (i + 1) - 1) \/ LayerAt(p, (i + 1) - 2)
        BY <1>1, <3>1 DEF Layered
      <4> QED
        BY <3>1, <4>1
    <3>0. p[i].op = "mint"
      BY <2>2 DEF Mint
    <3>3. ~ LayerAt(p, i)
      <4> SUFFICES ASSUME LayerAt(p, i) PROVE FALSE
        OBVIOUS
      <4>1. PICK amounts3 \in [Tokens -> Nat] : p[i] = Approve("positionMgr", 0, amounts3[0])
        BY <1>3
      <4> QED
        BY <3>0, <4>1 DEF Approve
    <3>4. ~ LayerAt(p, i - 1)
      <4> SUFFICES ASSUME LayerAt(p, i - 1) PROVE FALSE
        OBVIOUS
      <4>1. (i - 1) + 1 = i /\ i - 1 \in Int
        BY <1>2
      <4>2. PICK amounts3 \in [Tokens -> Nat] : p[i] = Approve("positionMgr", 1, amounts3[1])
        BY <1>3, <4>1
      <4> QED
        BY <3>0, <4>2 DEF Approve
    <3>5. PICK amounts2 \in [Tokens -> Nat] :
            p[i + 1] = Approve("positionMgr", 0, amounts2[0])
      BY <3>2, <3>3, <3>4 DEF LayerAt
    <3> QED
      BY <3>5 DEF Approve
  <2> QED
    BY <2>2, <2>3 DEF Mint, p
<1> QED
  BY <1>1, <1>4, <1>5, <1>6 DEF Layered, p

\* A swap's plan is an approval and a call.
LEMMA SwapSteps ==
  ASSUME NEW s \in Swaps
  PROVE  /\ Len(Plan[s]) = 2
         /\ Plan[s][1] = Approve("swapRouter", TokenIn[s], 10 * AmountIn[s])
         /\ Plan[s][2] = Swap(s)
<1>1. Plan[s] = SwapPlan(s)
  BY WalletAssumption DEF Plan, WalletAssumption, Requests
<1> QED
  BY <1>1 DEF SwapPlan

\* What is mined is a request's step, and only one under that number.
LEMMA MiningSent ==
  ASSUME PlacesInv, NEW status, Mine(status)
  PROVE  \E q \in Requests, i \in Nat \ {0} :
           /\ i \in 1..Len(Plan[q]) /\ Mining = Plan[q][i]
           /\ sent[Len(receipts) + 1] = Tx(q, i)
           /\ ~ Mined(q, i)
           /\ pc[q] # "idle" /\ i <= at[q]
<1> DEFINE n == Len(receipts) + 1
           q == sent[n].request
           i == sent[n].step
<1>1. n \in 1..Len(sent) /\ Len(receipts) \in Nat /\ Len(receipts) <= Len(sent) /\ Len(sent) \in Nat
  BY DEF PlacesInv, WalletInv, MinedOK, SentOK, Mine
<1>2. /\ sent[n] \in [request : Requests, step : Nat \ {0}]
      /\ q \in Requests /\ i \in Nat \ {0} /\ i <= Len(Plan[q])
  BY <1>1, SentSteps DEF PlacesInv, WalletInv
<1>3. Mining = Plan[q][i]
  BY DEF Mining
<1>4. sent[n] = Tx(q, i)
  BY <1>2 DEF Tx
<1>5. pc[q] # "idle" /\ i <= at[q]
  BY <1>1 DEF PlacesInv, SentPlaces
<1>6. ~ Mined(q, i)
  <2> SUFFICES ASSUME NEW m \in 1..Len(receipts), sent[m] = sent[n] PROVE FALSE
    BY <1>4 DEF Mined
  <2>1. m \in 1..Len(sent) /\ m # n
    BY <1>1
  <2> QED
    BY <1>1, <2>1 DEF PlacesInv, SentOnce
<1> HIDE DEF n, q, i
<1>7. i \in 1..Len(Plan[q])
  BY <1>2, PlanShape
<1> QED
  BY <1>2, <1>3, <1>4, <1>5, <1>6, <1>7 DEF n

-----------------------------------------------------------------------------
\* A transaction of step i of a request is mined and did not revert.
Succeeded(r, i) == \E m \in 1..Len(receipts) : sent[m] = Tx(r, i) /\ receipts[m] = "ok"

\* As long as the mined transactions stay, so does what they did;
LEMMA ChainSame ==
  ASSUME receipts' = receipts, \A n \in 1..Len(receipts) : sent'[n] = sent[n], NEW r, NEW i
  PROVE  (Mined(r, i)' <=> Mined(r, i)) /\ (Succeeded(r, i)' <=> Succeeded(r, i))
  BY DEF Mined, Succeeded, Tx

\* one more does what it says.
LEMMA ChainMines ==
  ASSUME PlacesInv, NEW status, Mine(status), NEW r, NEW i
  PROVE  LET new == sent[Len(receipts) + 1] = Tx(r, i)
         IN  /\ Mined(r, i)' <=> Mined(r, i) \/ new
             /\ Succeeded(r, i)' <=> Succeeded(r, i) \/ (status = "ok" /\ new)
<1>1. /\ Len(receipts) \in Nat /\ receipts' = Append(receipts, status) /\ sent' = sent
      /\ receipts \in Seq({"ok", "reverted"})
  BY DEF PlacesInv, WalletInv, MinedOK, Mine
<1>2. /\ Len(receipts') = Len(receipts) + 1
      /\ \A m \in 1..Len(receipts) : receipts'[m] = receipts[m]
      /\ receipts'[Len(receipts) + 1] = status
  BY <1>1
<1>3. 1..Len(receipts') = 1..Len(receipts) \cup {Len(receipts) + 1}
  BY <1>1, <1>2
<1> QED
  BY <1>1, <1>2, <1>3 DEF Mined, Succeeded, Tx

\* What a request does leaves mined transactions alone.
LEMMA MovesKeepMined ==
  ASSUME PlacesInv, NEW r \in Requests, Receive(r) \/ RequestStep(r)
  PROVE  /\ receipts' = receipts /\ allowance' = allowance /\ disturbed' = disturbed
         /\ \A n \in 1..Len(receipts) : sent'[n] = sent[n]
<1>1. CASE SendTransaction(r)
  <2>1. /\ \A n \in 1..Len(sent) : n # nonce[r] => sent'[n] = sent[n]
        /\ nonce[r] > Len(receipts) /\ nonce[r] \in Nat
    BY <1>1, SendPuts DEF PlacesInv, Beginnings
  <2>2. Len(receipts) \in Nat /\ Len(sent) \in Nat /\ Len(receipts) <= Len(sent)
    BY DEF PlacesInv, WalletInv, MinedOK, SentOK
  <2>3. UNCHANGED <<receipts, allowance, disturbed>>
    BY <1>1 DEF SendTransaction
  <2> QED
    BY <2>1, <2>2, <2>3
<1>2. CASE ~ SendTransaction(r)
  BY <1>2, StepsHop DEF Hop, PlacesInv
<1> QED
  BY <1>1, <1>2

\* A swap is not a deposit, nor a creation.
LEMMA Kinds ==
  /\ \A r \in Requests : r \in Swaps => r \notin Deposits /\ r \notin Creations
  /\ \A r \in Requests : r \in Deposits => r \notin Creations
  BY WalletAssumption DEF WalletAssumption

-----------------------------------------------------------------------------
\* The requests that spend, and what they spend through.
Spending == Swaps \cup Deposits
Spender(r) == IF r \in Swaps THEN "swapRouter" ELSE "positionMgr"

\* A request that has not given up and whose approvals have succeeded so far.
Busy(d) == pc[d] \in Running /\ d \notin unapproved

\* Its transactions of earlier steps are mined.
EarlierMined ==
  \A d \in Spending : Busy(d) =>
    \A n \in 1..Len(sent) : sent[n].request = d /\ sent[n].step < at[d] => n <= Len(receipts)

\* What an approval asks for is allowed.
Given(d, i) == allowance[Spender(d)][Plan[d][i].token] >= Plan[d][i].amount

\* In step k of its plan, what its approvals asked for is allowed.
StepFunds(d, k) ==
  LET step == Plan[d][k]
  IN  /\ step.op = "approve" /\ Succeeded(d, k) => Given(d, k)
      /\ d \in Deposits /\ step.op = "approve" /\ step.token = 1 => Given(d, k - 1)
      /\ step.op \in {"swap", "mint"} /\ ~ Mined(d, k) => Covered(step)

\* So it is as long as no other request of its kind changed an allowance.
StepsFunded ==
  \A d \in Spending : \A k \in 1..Len(Plan[d]) :
    Busy(d) /\ d \notin disturbed /\ at[d] = k => StepFunds(d, k)

\* A mined transaction is of a step its request has been in, and one of the
\* step it is in is under its nonce.
LEMMA MinedPlaces ==
  ASSUME PlacesInv, NEW r \in Requests, NEW i \in Nat, Mined(r, i)
  PROVE  /\ pc[r] # "idle" /\ i <= at[r]
         /\ i = at[r] => pc[r] \in {"answered", "error", "wait"}
<1>1. PICK m \in 1..Len(receipts) : sent[m] = Tx(r, i)
  BY DEF Mined
<1>2. m \in 1..Len(sent) /\ sent[m].request = r /\ sent[m].step = i
  BY <1>1 DEF PlacesInv, WalletInv, MinedOK, SentOK, Tx
<1> QED
  BY <1>2 DEF PlacesInv, SentPlaces

\* What succeeded was mined.
LEMMA SucceededMined ==
  ASSUME NEW r, NEW i, Succeeded(r, i)
  PROVE  Mined(r, i)
  BY DEF Succeeded, Mined

\* A busy request is in a step of its plan.
LEMMA BusyPlace ==
  ASSUME PlacesInv, NEW d \in Spending, pc[d] \in Running
  PROVE  at[d] \in 1..Len(Plan[d]) /\ Len(Plan[d]) \in Nat
<1>1. d \in Requests
  BY DEF Requests, Spending
<1> QED
  BY <1>1, PlanShape DEF PlacesInv, WalletInv, RequestsOK

\* The steps of a request that spends are approvals and calls of its spender; a
\* swap's call takes from what its approval asked for.
LEMMA SpendingSteps ==
  ASSUME NEW d \in Spending, NEW i \in 1..Len(Plan[d])
  PROVE  LET step == Plan[d][i]
         IN  /\ step.op \in {"approve", "swap", "mint"} /\ step.spender = Spender(d)
             /\ step.op = "approve" => step \in Approvals
             /\ i = 1 => step.op = "approve" /\ (d \in Deposits => step.token = 0)
             /\ d \in Swaps => (step.op # "approve" => i = 2) /\ (step.op = "approve" => i = 1)
<1>1. CASE d \in Deposits
  <2>1. /\ Plan[d][i].op \in {"approve", "mint"} /\ Plan[d][i].spender = "positionMgr"
        /\ Plan[d][i].op = "approve" => Plan[d][i] \in Approvals
        /\ Plan[d][i].op = "mint" => i > 1
        /\ Plan[d][i].op = "approve" /\ Plan[d][i].token = 1 => i - 1 \in 1..Len(Plan[d])
    BY <1>1, DepositSteps
  <2>2. d \notin Swaps /\ d \in Requests
    BY <1>1, WalletAssumption DEF WalletAssumption, Requests
  <2>3. i \in Nat /\ (i = 1 => i - 1 \notin 1..Len(Plan[d]) /\ ~ (i > 1))
    OBVIOUS
  <2> QED
    BY <2>1, <2>2, <2>3 DEF Spender, Approvals, Tokens
<1>2. CASE d \in Swaps
  <2>1. 10 * AmountIn[d] \in Nat /\ TokenIn[d] \in Tokens /\ d \notin Deposits
    BY <1>2, WalletAssumption DEF WalletAssumption
  <2>2. i \in 1..2
    BY <1>2, SwapSteps
  <2>3. CASE i = 1
    <3>1. Plan[d][i] = Approve("swapRouter", TokenIn[d], 10 * AmountIn[d])
      BY <1>2, <2>3, SwapSteps
    <3> QED
      BY <1>2, <2>1, <2>3, <3>1 DEF Approve, Approvals, Spenders, Spender
  <2>4. CASE i = 2
    <3>1. Plan[d][i] = Swap(d)
      BY <1>2, <2>4, SwapSteps
    <3> QED
      BY <1>2, <2>1, <2>4, <3>1 DEF Swap, Spender
  <2> QED
    BY <2>2, <2>3, <2>4
<1> QED
  BY <1>1, <1>2 DEF Spending

\* What a swap's approval asked for covers its call.
LEMMA SwapCovered ==
  ASSUME PlacesInv, NEW s \in Swaps, Given(s, 1)
  PROVE  Covered(Plan[s][2])
<1>1. /\ Plan[s][1] = Approve("swapRouter", TokenIn[s], 10 * AmountIn[s])
      /\ Plan[s][2] = Swap(s)
  BY SwapSteps
<1>2. AmountIn[s] \in Nat /\ TokenIn[s] \in Tokens
  BY WalletAssumption DEF WalletAssumption
<1>3. \A t \in Tokens : allowance["swapRouter"][t] \in Nat
  BY DEF PlacesInv, WalletInv, TokensOK, Spenders
<1>4. allowance["swapRouter"][TokenIn[s]] >= 10 * AmountIn[s]
  BY <1>1 DEF Given, Spender, Approve
<1>5. ASSUME NEW t \in Tokens
      PROVE  allowance["swapRouter"][t] >= Swap(s).amounts[t]
  <2>1. Swap(s).amounts[t] = IF t = TokenIn[s] THEN AmountIn[s] ELSE 0
    BY DEF Swap
  <2>2. CASE t = TokenIn[s]
    BY <1>2, <1>3, <1>4, <2>1, <2>2
  <2>3. CASE t # TokenIn[s]
    BY <1>3, <2>1, <2>3
  <2> QED
    BY <2>2, <2>3
<1>6. Swap(s).spender = "swapRouter"
  BY DEF Swap
<1> QED
  BY <1>1, <1>5, <1>6 DEF Covered

\* The earlier transactions of a request stay mined: it goes on when its own is.
LEMMA EarlierStays ==
  ASSUME PlacesInv, PlacesInv', EarlierMined, [WalletNext]_walletVars
  PROVE  EarlierMined'
<1> SUFFICES ASSUME NEW d \in Spending, Busy(d)', NEW n \in 1..Len(sent'),
                    sent'[n].request = d, sent'[n].step < at'[d]
             PROVE  n <= Len(receipts')
  BY DEF EarlierMined
<1>0. /\ d \in Requests /\ at[d] \in Nat
      /\ Len(receipts) \in Nat /\ Len(sent) \in Nat /\ Len(receipts) <= Len(sent)
      /\ pc \in [Requests -> Running \cup Ended]
  BY DEF PlacesInv, WalletInv, RequestsOK, SentOK, MinedOK, Requests, Spending
<1>1. ASSUME Busy(d), at'[d] = at[d], sent' = sent, Len(receipts') \in Nat, Len(receipts') >= Len(receipts)
      PROVE  n <= Len(receipts')
  BY <1>0, <1>1 DEF EarlierMined
<1>2. ASSUME NEW r \in Requests, Hop(r) PROVE n <= Len(receipts')
  <2>1. sent' = sent /\ receipts' = receipts /\ n \in 1..Len(sent)
    BY <1>2 DEF Hop
  <2>2. CASE r # d
    BY <1>0, <1>1, <1>2, <2>1, <2>2 DEF Hop, Busy
  <2>3. CASE r = d /\ at'[d] = at[d] + 1 /\ pc[d] \in Running /\ Passed(d)
    <3>1. Busy(d)
      BY <1>2, <2>3 DEF Hop, Busy
    <3>2. CASE sent[n].step < at[d]
      BY <2>1, <3>1, <3>2 DEF EarlierMined
    <3>3. CASE sent[n].step = at[d]
      <4>1. pc[d] = "wait" /\ n = nonce[d]
        BY <2>1, <2>3, <3>3 DEF PlacesInv, SentPlaces, Running
      <4>2. HasReceipt(d)
        BY <1>0, <2>3, <4>1, Kinds DEF Passed, Busy, Spending
      <4> QED
        BY <2>1, <4>1, <4>2 DEF HasReceipt
    <3>4. sent[n].step \in Nat
      BY <2>1, SentSteps DEF PlacesInv, WalletInv
    <3> QED
      BY <1>0, <2>1, <2>3, <3>2, <3>3, <3>4
  <2>4. CASE r = d /\ at'[d] = at[d] /\ pc[d] \in {"look", "nonce"}
    <3>1. Busy(d)
      BY <1>2, <2>4 DEF Hop, Busy, Running
    <3> QED
      BY <1>0, <1>1, <2>1, <2>4, <3>1
  <2>5. CASE r = d /\ pc[d] = "idle"
    BY <2>1, <2>5 DEF PlacesInv, SentPlaces
  <2>6. CASE r = d /\ pc'[d] \in {"answered", "error"}
    BY <2>6 DEF Busy, Running
  <2> QED
    BY <1>2, <2>2, <2>3, <2>4, <2>5, <2>6 DEF Hop
<1>3. ASSUME NEW r \in Requests, SendTransaction(r) PROVE n <= Len(receipts')
  <2>1. /\ 1..Len(sent') = 1..Len(sent) \cup {nonce[r]}
        /\ sent'[nonce[r]] = Tx(r, at[r])
        /\ \A k \in 1..Len(sent) : k # nonce[r] => sent'[k] = sent[k]
    BY <1>3, SendPuts DEF PlacesInv, Beginnings
  <2>2. /\ at' = at /\ receipts' = receipts /\ unapproved' = unapproved
        /\ pc[r] = "send" /\ \A q \in Requests \ {r} : pc'[q] = pc[q]
    BY <1>0, <1>3 DEF SendTransaction
  <2>3. n # nonce[r]
    BY <1>0, <2>1, <2>2 DEF Tx
  <2>4. n \in 1..Len(sent) /\ sent'[n] = sent[n]
    BY <2>1, <2>3
  <2>5. Busy(d)
    BY <1>0, <2>2 DEF Busy, Running
  <2> QED
    BY <2>2, <2>4, <2>5 DEF EarlierMined
<1>4. CASE MineApproval \/ MineCall \/ MineCreate \/ Revert
  <2>1. PICK status : Mine(status)
    BY <1>4 DEF MineApproval, MineCall, MineCreate, Revert
  <2>2. /\ receipts' = Append(receipts, status) /\ sent' = sent /\ at' = at /\ Busy(d)
    BY <2>1 DEF Mine, reqVars, Busy
  <2>3. Len(receipts') = Len(receipts) + 1
    BY <2>2 DEF PlacesInv, WalletInv, MinedOK
  <2> QED
    BY <1>0, <1>1, <2>2, <2>3
<1>5. CASE UNCHANGED walletVars
  BY <1>0, <1>1, <1>5 DEF walletVars, reqVars, chainVars, Busy
<1>6. ASSUME NEW r \in Requests, Receive(r) \/ RequestStep(r) PROVE n <= Len(receipts')
  BY <1>2, <1>3, <1>6, StepsHop DEF PlacesInv
<1> QED
  BY <1>4, <1>5, <1>6 DEF WalletNext

\* A request goes on with what its approvals asked for: an approval is passed
\* when enough is allowed or it was mined.
LEMMA HopKeepsFunds ==
  ASSUME PlacesInv, PlacesInv', StepsFunded, NEW r \in Requests, Receive(r) \/ RequestStep(r)
  PROVE  StepsFunded'
<1> SUFFICES ASSUME NEW d \in Spending, NEW k \in 1..Len(Plan[d]),
                    Busy(d)', d \notin disturbed', at'[d] = k
             PROVE  StepFunds(d, k)'
  BY DEF StepsFunded
<1>0. /\ d \in Requests /\ at[d] \in Nat /\ k \in Nat /\ Len(Plan[d]) \in Nat
      /\ pc \in [Requests -> Running \cup Ended]
  BY PlanShape DEF PlacesInv, WalletInv, RequestsOK, Requests, Spending
<1>1. /\ receipts' = receipts /\ allowance' = allowance /\ disturbed' = disturbed
      /\ \A n \in 1..Len(receipts) : sent'[n] = sent[n]
  BY MovesKeepMined
<1>2. /\ Mined(d, k)' <=> Mined(d, k)
      /\ Succeeded(d, k)' <=> Succeeded(d, k)
  BY <1>1, ChainSame
<1>3. ASSUME StepFunds(d, k) PROVE StepFunds(d, k)'
  BY <1>1, <1>2, <1>3 DEF StepFunds, Given, Covered
<1>4. CASE SendTransaction(r)
  <2>1. Busy(d) /\ at[d] = k
    BY <1>0, <1>4 DEF SendTransaction, Busy, Running
  <2> QED
    BY <1>1, <1>3, <2>1 DEF StepsFunded
<1>5. CASE Hop(r)
  <2>1. CASE r # d
    <3>1. Busy(d) /\ at[d] = k
      BY <1>0, <1>5, <2>1 DEF Hop, Busy
    <3> QED
      BY <1>1, <1>3, <3>1 DEF StepsFunded
  <2>2. CASE r = d /\ at'[d] = at[d] /\ pc[d] \in {"look", "nonce"}
    <3>1. Busy(d) /\ at[d] = k
      BY <1>5, <2>2 DEF Hop, Busy, Running
    <3> QED
      BY <1>1, <1>3, <3>1 DEF StepsFunded
  <2>3. CASE r = d /\ at'[d] = at[d] /\ pc[d] = "idle"
    <3>1. k = 1
      BY <1>0, <2>3 DEF PlacesInv, Beginnings
    <3>2. ~ Succeeded(d, k)
      BY <1>0, <2>3, MinedPlaces, SucceededMined
    <3>3. Plan[d][k].op = "approve" /\ (d \in Deposits => Plan[d][k].token = 0)
      BY <3>1, SpendingSteps
    <3> QED
      BY <1>2, <3>2, <3>3 DEF StepFunds
  <2>4. CASE r = d /\ at'[d] = at[d] + 1 /\ pc[d] \in Running /\ Passed(d)
    <3> DEFINE j == at[d]
    <3>1. Busy(d) /\ j \in 1..Len(Plan[d]) /\ k = j + 1 /\ j = k - 1
      BY <1>0, <1>5, <2>4, BusyPlace DEF Hop, Busy
    <3>2. StepFunds(d, j)
      BY <1>1, <3>1 DEF StepsFunded
    <3>3. ~ Succeeded(d, k)
      <4> SUFFICES ASSUME Succeeded(d, k) PROVE FALSE
        OBVIOUS
      <4>1. k <= at[d]
        BY <1>0, MinedPlaces, SucceededMined
      <4> QED
        BY <1>0, <3>1, <4>1
    <3>4. Plan[d][j].op = "approve" => Given(d, j)
      <4> SUFFICES ASSUME Plan[d][j].op = "approve" PROVE Given(d, j)
        OBVIOUS
      <4>1. Plan[d][j].spender = Spender(d)
        BY <3>1, SpendingSteps
      <4>2. CASE allowance[Step(d).spender][Step(d).token] >= Step(d).amount
        BY <4>1, <4>2 DEF Step, Given
      <4>3. CASE HasReceipt(d) /\ (Step(d).op = "approve" => receipts[nonce[d]] = "ok")
        <5>1. nonce[d] \in 1..Len(receipts)
          BY <1>0, <4>3 DEF HasReceipt, PlacesInv, WalletInv, MinedOK
        <5>2. Succeeded(d, j)
          BY <4>3, <5>1 DEF HasReceipt, Succeeded, Step
        <5> QED
          BY <3>2, <5>2 DEF StepFunds
      <4> QED
        BY <1>0, <2>4, <4>2, <4>3, Kinds DEF Passed, Busy, Spending
    <3> HIDE DEF j
    <3>5. d \in Deposits /\ Plan[d][k].op = "approve" /\ Plan[d][k].token = 1 => Given(d, k - 1)
      <4> SUFFICES ASSUME d \in Deposits, Plan[d][k].op = "approve", Plan[d][k].token = 1 PROVE Given(d, k - 1)
        OBVIOUS
      <4>1. Plan[d][k - 1].op = "approve"
        BY DepositSteps
      <4> QED
        BY <3>1, <3>4, <4>1
    <3>6. d \in Deposits /\ Plan[d][k].op = "mint" => Covered(Plan[d][k])
      <4> SUFFICES ASSUME d \in Deposits, Plan[d][k].op = "mint" PROVE Covered(Plan[d][k])
        OBVIOUS
      <4> DEFINE p == Plan[d]
      <4>0. p[k] = p[j + 1]
        BY <3>1
      <4>1. p[j].op = "approve" /\ p[j].token \in {0, 1}
        <5>1. j < Len(Plan[d])
          BY <1>0, <3>1
        <5>2. p[j].op = "mint" => p[j + 1].op = "approve"
          BY <3>1, <5>1, DepositSteps
        <5>3. p[j].op \in {"approve", "mint"} /\ (p[j].op = "approve" => p[j] \in Approvals)
          BY <3>1, DepositSteps
        <5> QED
          BY <4>0, <5>2, <5>3 DEF Approvals, Tokens
      <4>2. p[j].token = 1
        <5>1. p[j].token = 0 => p[j + 1].op = "approve"
          BY <3>1, <4>1, DepositSteps
        <5> QED
          BY <4>0, <4>1, <5>1
      <4>3. /\ j - 1 \in 1..Len(Plan[d])
            /\ p[j - 1].op = "approve" /\ p[j - 1].token = 0
            /\ p[j + 1].amounts[0] = p[j - 1].amount
            /\ p[j + 1].amounts[1] = p[j].amount
        BY <3>1, <4>1, <4>2, DepositSteps
      <4>4. Given(d, j) /\ Given(d, j - 1)
        BY <3>2, <3>4, <4>1, <4>2 DEF StepFunds
      <4>7. d \notin Swaps
        BY <1>0, Kinds
      <4>5. /\ allowance["positionMgr"][0] >= p[k].amounts[0]
            /\ allowance["positionMgr"][1] >= p[k].amounts[1]
        BY <4>0, <4>2, <4>3, <4>4, <4>7 DEF Given, Spender
      <4>6. p[k].spender = "positionMgr"
        BY DepositSteps
      <4> QED
        BY <4>5, <4>6 DEF Covered, Tokens
    <3>8. d \in Swaps /\ Plan[d][k].op # "approve" => Covered(Plan[d][k])
      <4> SUFFICES ASSUME d \in Swaps, Plan[d][k].op # "approve" PROVE Covered(Plan[d][k])
        OBVIOUS
      <4>1. k = 2 /\ j = 1
        BY <1>0, <3>1, SpendingSteps
      <4>2. Plan[d][j].op = "approve"
        BY <3>1, <4>1, SpendingSteps
      <4> QED
        BY <3>4, <4>1, <4>2, SwapCovered
    <3>9. Plan[d][k].op \in {"swap", "mint"} => Covered(Plan[d][k])
      <4>1. d \in Deposits => Plan[d][k].op # "swap"
        BY DepositSteps
      <4> QED
        BY <3>6, <3>8, <4>1 DEF Spending
    <3>7. (Given(d, k - 1) => Given(d, k - 1)') /\ (Covered(Plan[d][k]) => Covered(Plan[d][k])')
      BY <1>1 DEF Given, Covered
    <3> QED
      BY <1>2, <3>3, <3>5, <3>7, <3>9 DEF StepFunds
  <2>5. CASE r = d /\ pc'[d] \in {"answered", "error"}
    BY <2>5 DEF Busy, Running
  <2> QED
    BY <1>5, <2>1, <2>2, <2>3, <2>4, <2>5 DEF Hop
<1> QED
  BY <1>4, <1>5, StepsHop DEF PlacesInv

\* What the chain mines for another request changes an allowance this one uses
\* only if it disturbs it.
LEMMA OthersLeaveFunds ==
  ASSUME PlacesInv, NEW d \in Spending, Busy(d), d \notin disturbed', NEW q \in Requests, q # d,
         NEW i \in 1..Len(Plan[q]), Mining = Plan[q][i],
         sent[Len(receipts) + 1].request = q,
         MineApproval \/ MineCall \/ MineCreate \/ Revert
  PROVE  allowance'[Spender(d)] = allowance[Spender(d)]
<1>1. allowance \in [Spenders -> [Tokens -> Nat]]
  BY DEF PlacesInv, WalletInv, TokensOK
<1>2. CASE MineCreate \/ Revert
  BY <1>2 DEF MineCreate, Revert
<1>3. CASE MineApproval \/ MineCall
  <2>1. d \notin Rivals(q)
    BY <1>3 DEF MineApproval, MineCall, Disturb
  <2>2. pc[d] \notin Ended
    BY DEF Busy, Running, Ended
  <2>3. CASE q \in Creations
    <3>1. Plan[q] = <<Create>>
      BY <2>3, WalletAssumption DEF Plan, WalletAssumption
    <3>2. Mining.op = "create"
      BY <3>1 DEF Create
    <3> QED
      BY <1>3, <3>2 DEF MineApproval, MineCall
  <2>4. CASE q \in Spending
    <3>1. Mining.spender = Spender(q)
      BY <2>4, SpendingSteps
    <3>2. d \in Swaps <=> q \notin Swaps
      BY <2>1, <2>2, <2>4 DEF Rivals, Spending
    <3>3. Spender(q) # Spender(d)
      BY <3>2 DEF Spender
    <3> QED
      BY <1>1, <1>3, <3>1, <3>3 DEF MineApproval, MineCall, Spender, Spenders
  <2> QED
    BY <2>3, <2>4 DEF Requests, Spending
<1> QED
  BY <1>2, <1>3

\* What it mines for the request itself is of the step it is in: an approval
\* gives twice what it asked for, and a call is mined once.
LEMMA MineKeepsFunds ==
  ASSUME PlacesInv, EarlierMined, StepsFunded,
         MineApproval \/ MineCall \/ MineCreate \/ Revert
  PROVE  StepsFunded'
<1> SUFFICES ASSUME NEW d \in Spending, NEW k \in 1..Len(Plan[d]),
                    Busy(d)', d \notin disturbed', at'[d] = k
             PROVE  StepFunds(d, k)'
  BY DEF StepsFunded
<1> DEFINE n == Len(receipts) + 1
<1>1. PICK status : Mine(status)
  BY DEF MineApproval, MineCall, MineCreate, Revert
<1>2. PICK q \in Requests, i \in Nat \ {0} :
        /\ i \in 1..Len(Plan[q]) /\ Mining = Plan[q][i]
        /\ sent[n] = Tx(q, i)
        /\ i <= at[q]
  BY <1>1, MiningSent
<1>3. Busy(d) /\ at[d] = k /\ d \in Requests /\ k \in Nat
  BY <1>1 DEF Mine, reqVars, Busy, Requests, Spending
<1>4. StepFunds(d, k)
  <2>1. d \notin disturbed
    BY DEF MineApproval, MineCall, MineCreate, Revert, Disturb
  <2> QED
    BY <1>3, <2>1 DEF StepsFunded
<1>5. q = d => i = k
  <2> SUFFICES ASSUME q = d, i < k PROVE FALSE
    BY <1>2, <1>3
  <2>1. n \in 1..Len(sent) /\ Len(receipts) \in Nat
    BY <1>1 DEF PlacesInv, WalletInv, MinedOK, SentOK, Mine
  <2>2. sent[n].request = d /\ sent[n].step < at[d]
    BY <1>2, <1>3 DEF Tx
  <2>3. n <= Len(receipts)
    BY <1>3, <2>1, <2>2 DEF EarlierMined
  <2> QED
    BY <2>1, <2>3
<1>6. /\ Mined(d, k)' <=> Mined(d, k) \/ q = d
      /\ q # d => (Succeeded(d, k)' <=> Succeeded(d, k))
      /\ status # "ok" => (Succeeded(d, k)' <=> Succeeded(d, k))
  <2>1. (Tx(q, i) = Tx(d, k)) <=> q = d
    BY <1>5 DEF Tx
  <2>2. /\ Mined(d, k)' <=> Mined(d, k) \/ sent[n] = Tx(d, k)
        /\ Succeeded(d, k)' <=> Succeeded(d, k) \/ (status = "ok" /\ sent[n] = Tx(d, k))
    BY <1>1, ChainMines
  <2> QED
    BY <1>2, <2>1, <2>2
<1>7. allowance \in [Spenders -> [Tokens -> Nat]]
  BY DEF PlacesInv, WalletInv, TokensOK
<1>8. CASE q # d
  <2>0. sent[Len(receipts) + 1].request = q
    BY <1>2 DEF Tx
  <2>1. allowance'[Spender(d)] = allowance[Spender(d)]
    BY <1>2, <1>3, <1>8, <2>0, OthersLeaveFunds
  <2>2. Plan[d][k].spender = Spender(d)
    BY SpendingSteps
  <2> QED
    BY <1>4, <1>6, <1>8, <2>1, <2>2 DEF StepFunds, Given, Covered
<1>9. CASE q = d
  <2> DEFINE step == Plan[d][k]
  <2>1. /\ Mining = step /\ step.op \in {"approve", "swap", "mint"} /\ step.spender = Spender(d)
        /\ step.op = "approve" => step \in Approvals
    BY <1>2, <1>5, <1>9, SpendingSteps
  <2>2. CASE MineApproval
    <3>0. Spender(d) \in Spenders
      BY DEF Spender, Spenders
    <3>1. /\ step.op = "approve" /\ step.token \in Tokens /\ step.amount \in Nat
          /\ allowance' = [allowance EXCEPT ![Spender(d)][step.token] = 2 * step.amount]
      BY <2>1, <2>2 DEF MineApproval, Approvals
    <3> HIDE DEF step
    <3>2. /\ allowance'[Spender(d)][step.token] = 2 * step.amount
          /\ \A t \in Tokens : t # step.token =>
               allowance'[Spender(d)][t] = allowance[Spender(d)][t]
      BY <1>7, <3>0, <3>1
    <3>3. Given(d, k)'
      BY <3>1, <3>2 DEF Given, step
    <3>4. d \in Deposits /\ step.token = 1 => Given(d, k - 1)'
      <4> SUFFICES ASSUME d \in Deposits, step.token = 1 PROVE Given(d, k - 1)'
        OBVIOUS
      <4>1. Given(d, k - 1)
        BY <1>4, <3>1 DEF StepFunds, step
      <4>2. Plan[d][k - 1].token = 0
        BY <3>1, DepositSteps DEF step
      <4> QED
        BY <3>2, <4>1, <4>2 DEF Given, Tokens
    <3> QED
      BY <3>1, <3>3, <3>4 DEF StepFunds, step
  <2>3. CASE MineCall
    <3>1. step.op # "approve"
      BY <2>1, <2>3 DEF MineCall
    <3> QED
      BY <1>6, <1>9, <3>1 DEF StepFunds
  <2>4. CASE MineCreate
    BY <2>1, <2>4 DEF MineCreate
  <2>5. CASE Revert
    <3>1. allowance' = allowance
      BY <2>5 DEF Revert
    <3>2. Succeeded(d, k)' <=> Succeeded(d, k)
      BY <2>5, <1>2, <1>9, ChainMines DEF Revert
    <3> QED
      BY <1>4, <1>6, <3>1, <3>2 DEF StepFunds, Given, Covered
  <2> QED
    BY <2>2, <2>3, <2>4, <2>5
<1> QED
  BY <1>8, <1>9

-----------------------------------------------------------------------------
\* The inductive invariant of the funds.
FundsInv == PlacesInv /\ EarlierMined /\ StepsFunded

\* It says that calls are covered,
LEMMA FundsCover == FundsInv => FundedAlone
<1> SUFFICES ASSUME FundsInv, NEW r \in Requests, OnItsWay(r), r \notin disturbed
             PROVE  Covered(Step(r))
  BY DEF FundedAlone
<1>0. /\ PlacesInv /\ at[r] \in 1..Len(Plan[r]) /\ at[r] \in Nat
      /\ nonce[r] \in Nat /\ Len(receipts) \in Nat /\ Len(sent) \in Nat /\ Len(receipts) <= Len(sent)
  BY PlanShape DEF FundsInv, PlacesInv, WalletInv, RequestsOK, Running, MinedOK, SentOK, OnItsWay
<1>1. ~ Mined(r, at[r])
  <2> SUFFICES ASSUME NEW m \in 1..Len(receipts), sent[m] = Tx(r, at[r]) PROVE FALSE
    BY DEF Mined
  <2>1. m \in 1..Len(sent) /\ sent[m].request = r /\ sent[m].step = at[r]
    BY <1>0 DEF Tx
  <2>2. pc[r] = "wait" /\ m = nonce[r]
    BY <1>0, <2>1 DEF PlacesInv, SentPlaces, OnItsWay
  <2> QED
    BY <1>0, <2>2 DEF OnItsWay
<1>2. CASE r \in Spending
  <2>1. StepFunds(r, at[r])
    BY <1>0, <1>2 DEF FundsInv, StepsFunded, Busy, Running, OnItsWay
  <2> QED
    BY <1>1, <2>1 DEF StepFunds, Step, OnItsWay
<1>3. CASE r \in Creations
  <2>1. Plan[r] = <<Create>>
    BY <1>3, WalletAssumption DEF Plan, WalletAssumption
  <2>2. Step(r).op = "create"
    BY <1>0, <2>1 DEF Step, Create
  <2> QED
    BY <2>2 DEF OnItsWay
<1> QED
  BY <1>2, <1>3 DEF Requests, Spending

\* it holds at first,
LEMMA FundsInit == WalletInit => FundsInv
<1> SUFFICES ASSUME WalletInit PROVE FundsInv
  OBVIOUS
<1>1. PlacesInv
  BY PlacesInit
<1>2. EarlierMined
  BY DEF WalletInit, EarlierMined
<1>3. StepsFunded
  <2>1. \A r \in Requests : pc[r] = "idle"
    BY DEF WalletInit
  <2> QED
    BY <2>1 DEF StepsFunded, Busy, Running, Requests, Spending
<1> QED
  BY <1>1, <1>2, <1>3 DEF FundsInv

\* and every step keeps it.
LEMMA FundsNext == FundsInv /\ [WalletNext]_walletVars => FundsInv'
<1> SUFFICES ASSUME FundsInv, [WalletNext]_walletVars PROVE FundsInv'
  OBVIOUS
<1>1. PlacesInv /\ PlacesInv' /\ EarlierMined /\ StepsFunded
  BY PlacesNext DEF FundsInv
<1>2. EarlierMined'
  BY <1>1, EarlierStays
<1>3. CASE \E r \in Requests : Receive(r) \/ RequestStep(r)
  <2>1. StepsFunded'
    BY <1>1, <1>3, HopKeepsFunds
  <2> QED
    BY <1>1, <1>2, <2>1 DEF FundsInv
<1>4. CASE MineApproval \/ MineCall \/ MineCreate \/ Revert
  <2>1. StepsFunded'
    BY <1>1, <1>4, MineKeepsFunds
  <2> QED
    BY <1>1, <1>2, <2>1 DEF FundsInv
<1>5. CASE UNCHANGED walletVars
  <2>1. UNCHANGED <<at, pc, unapproved, disturbed, sent, receipts, allowance>>
    BY <1>5 DEF walletVars, reqVars, chainVars
  <2>2. StepsFunded'
    BY <1>1, <2>1 DEF StepsFunded, Busy, StepFunds, Given, Covered, Succeeded, Mined
  <2> QED
    BY <1>1, <1>2, <2>2 DEF FundsInv
<1> QED
  BY <1>3, <1>4, <1>5 DEF WalletNext

\* Whatever amounts are asked for and however many requests there are, a swap
\* or a mint whose approvals succeeded is covered until it is mined, unless a
\* request of its kind approved or spent meanwhile (lines 169-177, 241-247 and
\* 268 of the executor).
THEOREM AlwaysFundedAlone == WalletSpec => []FundedAlone
  BY FundsInit, FundsNext, FundsCover, PTL DEF WalletSpec
=============================================================================
