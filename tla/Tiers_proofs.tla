----------------------------- MODULE Tiers_proofs -----------------------------
(***************************************************************************)
(* What the tier report and the tick arithmetic do for every scale, every  *)
(* configuration and every pool: first recursion and induction over ticks, *)
(* then the handler's prices beside the pool's, then the report.           *)
(***************************************************************************)
EXTENDS Tiers, FiniteSetTheorems, WellFoundedInduction, TLAPS

\* A set of natural numbers with a member has a least one.
LEMMA LeastNatural ==
  ASSUME NEW S, S \subseteq Nat, S # {}
  PROVE  \E n \in S : \A m \in S : n <= m
<1> DEFINE R == OpToRel(<, Nat)
<1>1. IsWellFoundedOn(R, Nat)
  BY NatLessThanWellFounded
<1>2. \A m, n \in Nat : m < n => <<m, n>> \in R
  BY DEF OpToRel
<1> HIDE DEF R
<1>3. PICK n \in S : \A m \in S : ~ (<<m, n>> \in R)
  BY <1>1, WFMin
<1>4. ASSUME NEW m \in S PROVE n <= m
  <2>1. m \in Nat /\ n \in Nat /\ ~ (m < n)
    BY <1>2, <1>3
  <2> QED
    BY <2>1
<1> QED
  BY <1>4

\* Induction, on the set of the numbers of which a fact holds.
LEMMA SetInduction ==
  ASSUME NEW S, 0 \in S, \A n \in Nat : n \in S => n + 1 \in S
  PROVE  Nat \subseteq S
<1> DEFINE T == Nat \ S
<1>1. SUFFICES ASSUME T # {} PROVE FALSE
  OBVIOUS
<1>2. PICK x \in T : \A y \in T : x <= y
  BY <1>1, LeastNatural
<1>3. x \in Nat /\ x # 0
  OBVIOUS
<1>4. x - 1 \in Nat /\ x - 1 \notin T
  BY <1>2, <1>3
<1> QED
  BY <1>3, <1>4

\* g starts with c and goes on with step.
Iterates(g, c, step) == g[0] = c /\ \A n \in Nat : g[n + 1] = step[g[n]]

\* Every first value and every step have a sequence that starts with the one
\* and goes on with the other.
LEMMA IterationExists ==
  ASSUME NEW S, NEW c \in S, NEW step \in [S -> S]
  PROVE  \E g \in [Nat -> S] : Iterates(g, c, step)
<1> DEFINE Start(n) == {h \in [0..n -> S] : /\ h[0] = c
                                            /\ \A i \in 0..n : i # n => h[i + 1] = step[h[i]]}
           Long == {n \in Nat : Start(n) # {}}
<1>1. 0 \in Long
  <2>1. [i \in 0..0 |-> c] \in Start(0)
    OBVIOUS
  <2> QED
    BY <2>1
<1>2. ASSUME NEW n \in Nat, n \in Long PROVE n + 1 \in Long
  <2>1. PICK h \in [0..n -> S] : h[0] = c /\ \A i \in 0..n : i # n => h[i + 1] = step[h[i]]
    BY <1>2
  <2> DEFINE k == [i \in 0..(n + 1) |-> IF i = n + 1 THEN step[h[n]] ELSE h[i]]
  <2>2. k \in [0..(n + 1) -> S]
    <3>1. ASSUME NEW i \in 0..(n + 1), i # n + 1 PROVE h[i] \in S
      <4>1. i \in 0..n
        BY <3>1
      <4> QED
        BY <4>1
    <3>2. step[h[n]] \in S
      OBVIOUS
    <3> QED
      BY <3>1, <3>2
  <2>3. k[0] = c
    BY <2>1
  <2>4. ASSUME NEW i \in 0..(n + 1), i # n + 1 PROVE k[i + 1] = step[k[i]]
    <3>1. i \in 0..n /\ i + 1 \in 0..(n + 1)
      BY <2>4
    <3>2. CASE i = n
      BY <3>1, <3>2
    <3>3. CASE i # n
      <4>1. k[i + 1] = h[i + 1] /\ k[i] = h[i]
        BY <3>1, <3>3
      <4> QED
        BY <2>1, <3>1, <3>3, <4>1
    <3> QED
      BY <3>2, <3>3
  <2>5. k \in Start(n + 1)
    BY <2>2, <2>3, <2>4
  <2> QED
    BY <2>5
<1>3. Nat \subseteq Long
  <2> HIDE DEF Long
  <2> QED
    BY <1>1, <1>2, SetInduction
<1>4. \A n \in Nat : Start(n) # {}
  BY <1>3
<1>5. ASSUME NEW m \in Nat, NEW n \in Nat, m <= n, NEW h \in Start(m), NEW k \in Start(n)
      PROVE  \A i \in 0..m : h[i] = k[i]
  <2> DEFINE Same == {i \in Nat : i <= m => h[i] = k[i]}
  <2>1. 0 \in Same
    OBVIOUS
  <2>2. ASSUME NEW i \in Nat, i \in Same PROVE i + 1 \in Same
    <3> SUFFICES ASSUME i + 1 <= m PROVE h[i + 1] = k[i + 1]
      OBVIOUS
    <3>1. i \in 0..m /\ i # m /\ i \in 0..n /\ i # n
      BY <1>5
    <3>2. h[i + 1] = step[h[i]] /\ k[i + 1] = step[k[i]]
      BY <3>1
    <3> QED
      BY <2>2, <3>1, <3>2
  <2>3. Nat \subseteq Same
    <3> HIDE DEF Same
    <3> QED
      BY <2>1, <2>2, SetInduction
  <2> QED
    BY <2>3
<1> DEFINE first(n) == CHOOSE h : h \in Start(n)
           g == [n \in Nat |-> first(n)[n]]
<1>6. ASSUME NEW n \in Nat PROVE first(n) \in Start(n)
  <2> HIDE DEF Start
  <2> QED
    BY <1>4
<1> HIDE DEF first
<1>7. g \in [Nat -> S]
  BY <1>6
<1>8. g[0] = c
  BY <1>6
<1>9. ASSUME NEW n \in Nat PROVE g[n + 1] = step[g[n]]
  <2>1. first(n) \in Start(n) /\ first(n + 1) \in Start(n + 1)
    BY <1>6
  <2>2. first(n + 1)[n + 1] = step[first(n + 1)[n]]
    BY <2>1
  <2>3. first(n)[n] = first(n + 1)[n]
    <3> HIDE DEF Start
    <3>1. n \in 0..n /\ n <= n + 1 /\ n + 1 \in Nat
      OBVIOUS
    <3> QED
      BY <1>5, <2>1, <3>1
  <2> QED
    BY <2>2, <2>3
<1> HIDE DEF g
<1>10. Iterates(g, c, step)
  BY <1>8, <1>9 DEF Iterates
<1> QED
  BY <1>7, <1>10

\* The equation of Exp.
LEMMA ExpEquation ==
  ASSUME NEW b \in Nat \ {0}
  PROVE  /\ Exp(b, 0) = 1
         /\ \A n \in Nat : Exp(b, n) \in Nat /\ Exp(b, n + 1) = b * Exp(b, n)
<1> DEFINE Eq(e) == e = [m \in Nat |-> IF m = 0 THEN 1 ELSE b * e[m - 1]]
           f == CHOOSE e : Eq(e)
<1>1. \E e \in [Nat -> Nat] : e[0] = 1 /\ \A n \in Nat : e[n + 1] = b * e[n]
  <2> DEFINE step == [i \in Nat |-> b * i]
  <2>1. step \in [Nat -> Nat]
    OBVIOUS
  <2>2. PICK e \in [Nat -> Nat] : Iterates(e, 1, step)
    <3> HIDE DEF step
    <3> QED
      BY <2>1, IterationExists
  <2>3. e[0] = 1 /\ \A n \in Nat : e[n + 1] = step[e[n]]
    BY <2>2 DEF Iterates
  <2> QED
    BY <2>3
<1>2. PICK e \in [Nat -> Nat] : e[0] = 1 /\ \A n \in Nat : e[n + 1] = b * e[n]
  BY <1>1
<1>3. Eq(e)
  <2>1. ASSUME NEW m \in Nat PROVE e[m] = IF m = 0 THEN 1 ELSE b * e[m - 1]
    <3>1. CASE m = 0
      BY <1>2, <3>1
    <3>2. CASE m # 0
      <4>1. m - 1 \in Nat /\ (m - 1) + 1 = m
        BY <3>2
      <4> QED
        BY <1>2, <3>2, <4>1
    <3> QED
      BY <3>1, <3>2
  <2> QED
    BY <2>1
<1>4. Eq(f)
  BY <1>3, Zenon
<1>5. \A n : Exp(b, n) = f[n]
  BY Zenon DEF Exp
<1> HIDE DEF f
<1>6. f[0] = 1 /\ \A n \in Nat : f[n + 1] = b * f[n]
  <2>1. f[0] = 1
    BY <1>4
  <2>2. ASSUME NEW n \in Nat PROVE f[n + 1] = b * f[n]
    <3>1. n + 1 \in Nat /\ n + 1 # 0 /\ (n + 1) - 1 = n
      OBVIOUS
    <3> QED
      BY <1>4, <3>1
  <2> QED
    BY <2>1, <2>2
<1> DEFINE Natural == {n \in Nat : f[n] \in Nat}
<1>7. Nat \subseteq Natural
  <2>1. 0 \in Natural /\ \A n \in Nat : n \in Natural => n + 1 \in Natural
    BY <1>6
  <2> HIDE DEF Natural
  <2> QED
    BY <2>1, SetInduction
<1> QED
  BY <1>5, <1>6, <1>7

\* It has two bases.
LEMMA TickPowers ==
  /\ Exp(Num, 0) = 1 /\ Exp(Den, 0) = 1
  /\ \A n \in Nat : Exp(Num, n) \in Nat /\ Exp(Num, n + 1) = Num * Exp(Num, n)
  /\ \A n \in Nat : Exp(Den, n) \in Nat /\ Exp(Den, n + 1) = Den * Exp(Den, n)
<1>1. Num \in Nat \ {0} /\ Den \in Nat \ {0}
  BY TiersAssumption DEF TiersAssumption
<1> QED
  BY <1>1, ExpEquation, Zenon

\* The equation of Power.
LEMMA PowerEquation ==
  /\ Power[0] = Q
  /\ \A n \in Nat : Power[n] \in Nat /\ Power[n + 1] = (Power[n] * Num) \div Den
<1> DEFINE Eq(g) == g = [n \in Nat |-> IF n = 0 THEN Q ELSE (g[n - 1] * Num) \div Den]
<1>0. Q \in Nat /\ Num \in Nat /\ Den \in Nat \ {0}
  BY TiersAssumption DEF TiersAssumption
<1>1. PICK g \in [Nat -> Nat] : g[0] = Q /\ \A n \in Nat : g[n + 1] = (g[n] * Num) \div Den
  <2> DEFINE step == [i \in Nat |-> (i * Num) \div Den]
  <2>1. step \in [Nat -> Nat]
    BY <1>0
  <2>2. PICK g \in [Nat -> Nat] : Iterates(g, Q, step)
    <3> HIDE DEF step
    <3> QED
      BY <1>0, <2>1, IterationExists
  <2>3. g[0] = Q /\ \A n \in Nat : g[n + 1] = step[g[n]]
    BY <2>2 DEF Iterates
  <2> QED
    BY <2>3
<1>2. Eq(g)
  <2>1. ASSUME NEW n \in Nat PROVE g[n] = IF n = 0 THEN Q ELSE (g[n - 1] * Num) \div Den
    <3>1. CASE n = 0
      BY <1>1, <3>1
    <3>2. CASE n # 0
      <4>1. n - 1 \in Nat /\ (n - 1) + 1 = n
        BY <3>2
      <4> QED
        BY <1>1, <3>2, <4>1
    <3> QED
      BY <3>1, <3>2
  <2> QED
    BY <2>1
<1>3. Eq(Power)
  BY <1>2, Zenon DEF Power
<1>4. Power[0] = Q /\ \A n \in Nat : Power[n + 1] = (Power[n] * Num) \div Den
  <2>1. Power[0] = Q
    BY <1>3
  <2>2. ASSUME NEW n \in Nat PROVE Power[n + 1] = (Power[n] * Num) \div Den
    <3>1. n + 1 \in Nat /\ n + 1 # 0 /\ (n + 1) - 1 = n
      OBVIOUS
    <3>2. Power[n + 1] = IF n + 1 = 0 THEN Q ELSE (Power[(n + 1) - 1] * Num) \div Den
      BY <1>3, <3>1, Zenon
    <3> QED
      BY <3>1, <3>2, Zenon
  <2> QED
    BY <2>1, <2>2
<1> DEFINE Natural == {n \in Nat : Power[n] \in Nat}
<1>5. Nat \subseteq Natural
  <2>1. 0 \in Natural
    BY <1>0, <1>4
  <2>2. ASSUME NEW n \in Nat, n \in Natural PROVE n + 1 \in Natural
    <3>1. (Power[n] * Num) \div Den \in Nat
      <4>1. Power[n] * Num \in Nat
        BY <1>0, <2>2
      <4> QED
        BY <1>0, <4>1
    <3> QED
      BY <1>4, <3>1
  <2> HIDE DEF Natural
  <2> QED
    BY <2>1, <2>2, SetInduction
<1> QED
  BY <1>4, <1>5

-----------------------------------------------------------------------------
\* One step of the handler's loop, cut off to a whole number, still grows the
\* price by half a tick or more: the square by Num/Den.
LEMMA PowerStep ==
  ASSUME NEW P \in Nat, P >= Q
  PROVE  LET P2 == (P * Num) \div Den
         IN  P2 \in Nat /\ P2 >= P /\ P2 * P2 * Den >= P * P * Num
<1>1. Q \in Nat /\ Num \in Nat /\ Den \in Nat \ {0} /\ Num > Den
  BY TiersAssumption DEF TiersAssumption
<1>2. PICK d \in Nat : Num = Den + d
  <2>1. Num - Den \in Nat /\ Num = Den + (Num - Den)
    BY <1>1
  <2> QED
    BY <2>1
<1>3. P * d >= 2 * Den
  <2>1. PICK j \in Nat : P = Q + j
    <3>1. P - Q \in Nat /\ P = Q + (P - Q)
      BY <1>1
    <3> QED
      BY <3>1
  <2>2. Num - Den = d
    BY <1>1, <1>2
  <2>3. P * d = Q * d + j * d /\ j * d \in Nat /\ Q * d \in Nat
    BY <1>1, <2>1
  <2> QED
    BY <1>1, <2>2, <2>3, FineScale
<1> DEFINE P2 == (P * Num) \div Den
<1>4. P2 \in Nat /\ P2 * Den <= P * Num /\ P * Num < P2 * Den + Den
  <2>1. P * Num \in Nat
    BY <1>1
  <2> QED
    BY <1>1, <2>1
<1> HIDE DEF P2
<1>5. P * Num = P * Den + P * d /\ P * Den \in Nat /\ P * d \in Nat
  BY <1>1, <1>2
<1>6. P2 * Den >= P * Den + Den
  BY <1>1, <1>3, <1>4, <1>5
<1>7. P2 >= P
  <2> SUFFICES ASSUME P2 < P PROVE FALSE
    BY <1>4
  <2>1. PICK i \in Nat : P = P2 + 1 + i
    <3>1. P - P2 - 1 \in Nat /\ P = P2 + 1 + (P - P2 - 1)
      BY <1>4
    <3> QED
      BY <3>1
  <2>2. P * Den = P2 * Den + Den + i * Den /\ i * Den \in Nat /\ P2 * Den \in Nat
    BY <1>1, <1>4, <2>1
  <2> QED
    BY <1>1, <1>6, <2>2
<1> DEFINE u == P2 * Den
           w == P * Num
<1>8. u \in Nat /\ w \in Nat /\ u + Den >= w /\ w >= Den
  BY <1>1, <1>3, <1>4, <1>5
<1>9. u * u >= w * P * Den
  <2>1. PICK v \in Nat : w = Den + v
    <3>1. w - Den \in Nat /\ w = Den + (w - Den)
      BY <1>1, <1>8
    <3> QED
      BY <3>1
  <2>2. PICK i \in Nat : u = v + i
    <3>1. u - v \in Nat /\ u = v + (u - v)
      BY <1>1, <1>8, <2>1
    <3> QED
      BY <3>1
  <2>3. u * u = v * v + i * v + i * u /\ v * v \in Nat /\ i * v \in Nat /\ i * u \in Nat
    BY <2>2, <1>8
  <2>4. v * v >= w * (P * Den)
    <3>1. PICK e \in Nat : P * d = 2 * Den + e
      <4>1. P * d - 2 * Den \in Nat /\ P * d = 2 * Den + (P * d - 2 * Den)
        BY <1>1, <1>3, <1>5
      <4> QED
        BY <4>1
    <3>2. P * Den \in Nat /\ v = P * Den + Den + e /\ w = P * Den + (Den + Den + e)
      BY <1>1, <1>5, <1>8, <2>1, <3>1
    <3>3. \A a, b, c \in Nat :
            /\ (a + b + c) * (a + b + c) = (a + (b + b + c)) * a + (c * a + (b + c) * (b + c))
            /\ c * a + (b + c) * (b + c) \in Nat /\ (a + (b + b + c)) * a \in Nat
      OBVIOUS
    <3>4. (P * Den + Den + e) * (P * Den + Den + e) >= (P * Den + (Den + Den + e)) * (P * Den)
      <4> DEFINE a == P * Den
      <4>1. a \in Nat /\ Den \in Nat
        BY <1>1, <3>2
      <4> HIDE DEF a
      <4>2. (a + Den + e) * (a + Den + e) >= (a + (Den + Den + e)) * a
        BY <3>3, <4>1
      <4> QED
        BY <4>2 DEF a
    <3> QED
      BY <3>2, <3>4
  <2>5. w * (P * Den) = w * P * Den /\ w * (P * Den) \in Nat
    BY <1>1, <1>8
  <2> QED
    BY <2>3, <2>4, <2>5
<1>10. P2 * P2 * Den >= P * P * Num
  <2> DEFINE x == P2 * P2 * Den
             y == P * P * Num
  <2>1. x \in Nat /\ y \in Nat
    BY <1>1, <1>4
  <2>2. u * u = x * Den /\ w * P * Den = y * Den
    BY <1>1, <1>4
  <2>3. x * Den >= y * Den
    BY <1>9, <2>2
  <2> HIDE DEF x, y
  <2>4. x >= y
    <3> SUFFICES ASSUME x < y PROVE FALSE
      BY <2>1
    <3>1. PICK i \in Nat : y = x + 1 + i
      <4>1. y - x - 1 \in Nat /\ y = x + 1 + (y - x - 1)
        BY <2>1
      <4> QED
        BY <4>1
    <3>2. y * Den = x * Den + Den + i * Den /\ i * Den \in Nat /\ x * Den \in Nat
      BY <1>1, <2>1, <3>1
    <3> QED
      BY <1>1, <2>3, <3>2
  <2> QED
    BY <2>4 DEF x, y
<1> QED
  BY <1>4, <1>7, <1>10 DEF P2

\* A factor that is positive does not turn an order.
LEMMA FactorOrder ==
  ASSUME NEW x \in Nat, NEW y \in Nat, NEW d \in Nat \ {0}
  PROVE  x * d >= y * d <=> x >= y
<1>1. ASSUME x < y PROVE x * d < y * d
  <2>1. PICK i \in Nat : y = x + 1 + i
    <3>1. y - x - 1 \in Nat /\ y = x + 1 + (y - x - 1)
      BY <1>1
    <3> QED
      BY <3>1
  <2>2. y * d = x * d + d + i * d /\ i * d \in Nat /\ x * d \in Nat
    BY <2>1
  <2> QED
    BY <2>2
<1>2. ASSUME x >= y PROVE x * d >= y * d
  <2>1. PICK i \in Nat : x = y + i
    <3>1. x - y \in Nat /\ x = y + (x - y)
      BY <1>2
    <3> QED
      BY <3>1
  <2>2. x * d = y * d + i * d /\ i * d \in Nat /\ y * d \in Nat
    BY <2>1
  <2> QED
    BY <2>2
<1>3. x * d \in Nat /\ y * d \in Nat
  OBVIOUS
<1> QED
  BY <1>1, <1>2, <1>3

\* The loop never falls, nor falls behind the pool's square root price of the
\* tick it has come to.
LEMMA PowerCovers ==
  ASSUME NEW n \in Nat
  PROVE  /\ Power[n] >= Q
         /\ Power[n] * Power[n] * Exp(Den, n) >= Q * Q * Exp(Num, n)
<1>0. Q \in Nat /\ Num \in Nat \ {0} /\ Den \in Nat \ {0}
  BY TiersAssumption DEF TiersAssumption
<1> DEFINE Covers(m) == /\ Power[m] >= Q
                        /\ Power[m] * Power[m] * Exp(Den, m) >= Q * Q * Exp(Num, m)
           S == {m \in Nat : Covers(m)}
<1>1. 0 \in S
  BY <1>0, TickPowers, PowerEquation
<1>2. ASSUME NEW m \in Nat, m \in S PROVE m + 1 \in S
  <2> DEFINE P == Power[m]
             R == Power[m + 1]
             d == Exp(Den, m)
             e == Exp(Num, m)
  <2>1. /\ P \in Nat /\ R \in Nat /\ d \in Nat /\ e \in Nat
        /\ Exp(Den, m + 1) = Den * d /\ Exp(Num, m + 1) = Num * e
        /\ R = (P * Num) \div Den
    BY <1>0, TickPowers, PowerEquation
  <2>2. P >= Q /\ P * P * d >= Q * Q * e
    BY <1>2
  <2> HIDE DEF P, R, d, e
  <2>3. R >= P /\ R * R * Den >= P * P * Num
    BY <2>1, <2>2, PowerStep
  <2>4. (R * R * Den) * d >= (P * P * Num) * d
    <3>1. CASE d = 0
      BY <1>0, <2>1, <3>1
    <3>2. CASE d # 0
      <4>1. R * R * Den \in Nat /\ P * P * Num \in Nat
        BY <1>0, <2>1
      <4> QED
        BY <2>1, <2>3, <3>2, <4>1, FactorOrder
    <3> QED
      BY <3>1, <3>2
  <2>5. (P * P * d) * Num >= (Q * Q * e) * Num
    <3>1. P * P * d \in Nat /\ Q * Q * e \in Nat
      BY <1>0, <2>1
    <3> QED
      BY <1>0, <2>2, <3>1, FactorOrder
  <2>6. /\ (R * R * Den) * d = R * R * (Den * d)
        /\ (P * P * Num) * d = (P * P * d) * Num
        /\ (Q * Q * e) * Num = Q * Q * (Num * e)
        /\ R * R * (Den * d) \in Nat /\ (P * P * d) * Num \in Nat /\ Q * Q * (Num * e) \in Nat
    BY <1>0, <2>1
  <2>7. R * R * (Den * d) >= Q * Q * (Num * e)
    BY <2>4, <2>5, <2>6
  <2>8. R >= Q
    BY <1>0, <2>1, <2>2, <2>3
  <2> QED
    BY <2>1, <2>7, <2>8 DEF R
<1>3. Nat \subseteq S
  <2> HIDE DEF S
  <2> QED
    BY <1>1, <1>2, SetInduction
<1> QED
  BY <1>3

\* The loop's price rises with the tick.
LEMMA PowerRises ==
  ASSUME NEW m \in Nat, NEW n \in Nat, m <= n
  PROVE  Power[m] <= Power[n]
<1> DEFINE S == {i \in Nat : Power[m] <= Power[m + i]}
<1>1. 0 \in S
  BY PowerEquation
<1>2. ASSUME NEW i \in Nat, i \in S PROVE i + 1 \in S
  <2>1. m + i \in Nat /\ m + (i + 1) = (m + i) + 1
    OBVIOUS
  <2>2. Power[m + i] \in Nat /\ Power[(m + i) + 1] = (Power[m + i] * Num) \div Den
    BY <2>1, PowerEquation
  <2>3. Power[(m + i) + 1] \in Nat /\ Power[(m + i) + 1] >= Power[m + i]
    BY <2>1, <2>2, PowerCovers, PowerStep
  <2>4. Power[m] \in Nat /\ Power[m] <= Power[m + i]
    BY <1>2, PowerEquation
  <2>5. Power[m] <= Power[m + (i + 1)]
    BY <2>1, <2>2, <2>3, <2>4
  <2> QED
    BY <2>5
<1>3. Nat \subseteq S
  <2> HIDE DEF S
  <2> QED
    BY <1>1, <1>2, SetInduction
<1>4. n - m \in Nat /\ m + (n - m) = n
  OBVIOUS
<1>5. n - m \in S
  BY <1>3, <1>4
<1> QED
  BY <1>4, <1>5

\* So does the price the handler takes for a tick.
LEMMA SqrtAtRises ==
  ASSUME NEW j \in Int, NEW k \in Int, j <= k
  PROVE  SqrtAt(j) \in Nat \ {0} /\ SqrtAt(j) >= Q /\ SqrtAt(j) <= SqrtAt(k)
<1>1. Q \in Nat \ {0}
  BY TiersAssumption DEF TiersAssumption
<1>2. \A i \in Nat : Power[i] \in Nat /\ Power[i] >= Q
  BY PowerEquation, PowerCovers
<1>3. CASE j >= 0
  BY <1>1, <1>2, <1>3, PowerRises DEF SqrtAt
<1>4. CASE j < 0
  BY <1>1, <1>2, <1>4 DEF SqrtAt
<1> QED
  BY <1>3, <1>4

-----------------------------------------------------------------------------
\* A price that reaches a tick reaches the one below it.
LEMMA ReachesOneLess ==
  ASSUME NEW p \in Nat, NEW k \in Int, Reaches(p, k + 1)
  PROVE  Reaches(p, k)
<1>0. Q \in Nat /\ Num \in Nat \ {0} /\ Den \in Nat \ {0} /\ Num > Den
  BY TiersAssumption DEF TiersAssumption
<1>1. PICK c \in Nat : Num = Den + c
  <2>1. Num - Den \in Nat /\ Num = Den + (Num - Den)
    BY <1>0
  <2> QED
    BY <2>1
<1> DEFINE x == p * p
           y == Q * Q
<1>2. x \in Nat /\ y \in Nat
  BY <1>0
<1>3. CASE k >= 0
  <2> DEFINE d == Exp(Den, k)
             e == Exp(Num, k)
  <2>1. /\ d \in Nat /\ e \in Nat
        /\ Exp(Den, k + 1) = Den * d /\ Exp(Num, k + 1) = Num * e
    BY <1>0, <1>3, TickPowers
  <2>2. x * (Den * d) >= y * (Num * e)
    BY <1>3, <2>1 DEF Reaches, Scaled, TickPrice
  <2> HIDE DEF x, y, d, e
  <2>3. /\ x * (Den * d) = (x * d) * Den
        /\ y * (Num * e) = (y * e) * Den + y * e * c
        /\ x * d \in Nat /\ y * e \in Nat /\ y * e * c \in Nat /\ (y * e) * Den \in Nat
    BY <1>0, <1>1, <1>2, <2>1
  <2>4. (x * d) * Den >= (y * e) * Den
    BY <1>0, <2>2, <2>3
  <2>5. x * d >= y * e
    BY <1>0, <2>3, <2>4, FactorOrder
  <2> QED
    BY <1>3, <2>5 DEF x, y, d, e, Reaches, Scaled, TickPrice
<1>4. CASE k < 0
  <2> DEFINE n == -(k + 1)
             d == Exp(Den, n)
             e == Exp(Num, n)
  <2>0. n \in Nat /\ -k = n + 1
    BY <1>4
  <2>1. /\ d \in Nat /\ e \in Nat
        /\ Exp(Den, -k) = Den * d /\ Exp(Num, -k) = Num * e
    BY <1>0, <2>0, TickPowers
  <2>2. x * e >= y * d
    <3>1. CASE k + 1 = 0
      <4>1. n = 0 /\ Exp(Den, 0) = 1 /\ Exp(Num, 0) = 1
        BY <1>0, <3>1, TickPowers
      <4>2. Scaled(p, k + 1) = x * 1 /\ TickPrice(k + 1) = y * 1
        BY <3>1, <4>1 DEF Scaled, TickPrice
      <4> QED
        BY <4>1, <4>2 DEF Reaches
    <3>2. CASE k + 1 # 0
      BY <1>4, <3>2 DEF Reaches, Scaled, TickPrice
    <3> QED
      BY <3>1, <3>2
  <2> HIDE DEF x, y, d, e, n
  <2>3. /\ x * (Num * e) = (x * e) * Den + x * e * c
        /\ y * (Den * d) = (y * d) * Den
        /\ x * e \in Nat /\ y * d \in Nat /\ x * e * c \in Nat
        /\ (x * e) * Den \in Nat /\ (y * d) * Den \in Nat
    BY <1>0, <1>1, <1>2, <2>1
  <2>4. (x * e) * Den >= (y * d) * Den
    BY <1>0, <2>2, <2>3, FactorOrder
  <2>5. x * (Num * e) >= y * (Den * d)
    BY <2>3, <2>4
  <2> QED
    BY <1>4, <2>1, <2>5 DEF x, y, Reaches, Scaled, TickPrice
<1> QED
  BY <1>3, <1>4

\* And every tick below it.
LEMMA ReachesBelow ==
  ASSUME NEW p \in Nat, NEW j \in Int, NEW k \in Int, j <= k, Reaches(p, k)
  PROVE  Reaches(p, j)
<1> DEFINE S == {i \in Nat : Reaches(p, k - i)}
<1>1. 0 \in S
  OBVIOUS
<1>2. ASSUME NEW i \in Nat, i \in S PROVE i + 1 \in S
  <2>1. k - (i + 1) \in Int /\ (k - (i + 1)) + 1 = k - i
    OBVIOUS
  <2>2. Reaches(p, (k - (i + 1)) + 1)
    BY <1>2, <2>1
  <2> QED
    BY <2>1, <2>2, ReachesOneLess
<1>3. Nat \subseteq S
  <2> HIDE DEF S
  <2> QED
    BY <1>1, <1>2, SetInduction
<1>4. k - j \in Nat /\ k - (k - j) = j
  OBVIOUS
<1>5. k - j \in S
  BY <1>3, <1>4
<1> QED
  BY <1>4, <1>5

\* A pool's tick is an integer.
LEMMA PoolTickIsInt ==
  ASSUME NEW p
  PROVE  PoolTick(p) \in Int
<1> DEFINE reached == {k \in (1 - MaxTick)..MaxTick : Reaches(p, k)}
<1>1. IsFiniteSet((1 - MaxTick)..MaxTick)
  BY FS_Interval, TiersAssumption DEF TiersAssumption
<1>2. IsFiniteSet(reached)
  BY <1>1, FS_Subset
<1>3. Cardinality(reached) \in Nat
  BY <1>2, FS_CardinalityType
<1> QED
  BY <1>3, TiersAssumption DEF TiersAssumption, PoolTick

\* The handler's tick is the pool's, or the next one.
LEMMA TickOfNearPool ==
  ASSUME NEW p
  PROVE  TickOf(p) = PoolTick(p) \/ TickOf(p) = PoolTick(p) + 1
  BY DEF TickOf

\* The pool's tick is the highest one its price reaches.
LEMMA PoolTickHighest ==
  ASSUME NEW p \in Nat, NEW k \in (1 - MaxTick)..MaxTick, Reaches(p, k)
  PROVE  k <= PoolTick(p)
<1>0. MaxTick \in Nat \ {0}
  BY TiersAssumption DEF TiersAssumption
<1> DEFINE low == 1 - MaxTick
           reached == {i \in low..MaxTick : Reaches(p, i)}
<1>1. low \in Int /\ k \in Int /\ low <= k
  BY <1>0
<1>2. low..k \subseteq reached
  <2>1. ASSUME NEW i \in low..k PROVE Reaches(p, i)
    BY <1>1, ReachesBelow
  <2> QED
    BY <1>0, <2>1
<1>3. IsFiniteSet(low..MaxTick)
  BY <1>0, <1>1, FS_Interval
<1>4. IsFiniteSet(reached)
  BY <1>3, FS_Subset
<1>5. Cardinality(low..k) <= Cardinality(reached) /\ Cardinality(reached) \in Nat
  BY <1>2, <1>4, FS_Subset, FS_CardinalityType
<1>6. Cardinality(low..k) = k - low + 1
  BY <1>1, FS_Interval
<1>7. PoolTick(p) = Cardinality(reached) - MaxTick
  BY DEF PoolTick
<1> HIDE DEF reached
<1> QED
  BY <1>0, <1>1, <1>5, <1>6, <1>7

\* A price whose tick, as the handler has it, is under the upper end of a range
\* is at most what the handler takes for that end's price.
LEMMA UnderUpperEnd ==
  ASSUME NEW p \in SqrtPrices, NEW upper \in Int, TickOf(p) < upper
  PROVE  p <= SqrtAt(upper)
<1>0. /\ MaxTick \in Nat \ {0} /\ Q \in Nat \ {0} /\ p \in Nat
      /\ Num \in Nat /\ Den \in Nat \ {0}
  BY TiersAssumption DEF TiersAssumption
<1>1. PoolTick(p) \in Int /\ PoolTick(p) < upper
  BY PoolTickIsInt, TickOfNearPool
<1> DEFINE k == IF upper < 0 THEN 0 ELSE IF upper > MaxTick THEN MaxTick + 1 ELSE upper
<1>2. k \in Nat /\ k <= MaxTick + 1
  BY <1>0
<1>3. ~ Reaches(p, k)
  <2>1. CASE upper > MaxTick
    BY <1>0, <2>1, PricesEnd
  <2>2. CASE upper <= MaxTick
    <3>1. k \in (1 - MaxTick)..MaxTick /\ ~ (k <= PoolTick(p))
      BY <1>0, <1>1, <2>2
    <3> HIDE DEF k
    <3> QED
      BY <1>0, <3>1, PoolTickHighest
  <2> QED
    BY <1>0, <2>1, <2>2
<1>4. SqrtAt(k) <= SqrtAt(upper) /\ SqrtAt(upper) \in Nat /\ SqrtAt(k) = Power[k]
  <2>1. SqrtAt(k) = Power[k]
    BY <1>2 DEF SqrtAt
  <2>2. CASE upper < 0
    <3>1. k = 0 /\ SqrtAt(upper) = Q
      BY <2>2 DEF SqrtAt
    <3>2. Power[k] = Q
      BY <3>1, PowerEquation
    <3> QED
      BY <1>0, <2>1, <3>1, <3>2
  <2>3. CASE upper >= 0
    <3>1. k <= upper /\ k \in Int
      BY <1>0, <2>3
    <3> HIDE DEF k
    <3> QED
      BY <2>1, <3>1, SqrtAtRises
  <2> QED
    BY <2>2, <2>3
<1> HIDE DEF k
<1> DEFINE P == Power[k]
           d == Exp(Den, k)
           e == Exp(Num, k)
<1>5. P \in Nat /\ d \in Nat /\ e \in Nat /\ P * P * d >= Q * Q * e
  BY <1>2, PowerEquation, PowerCovers, TickPowers
<1>6. ~ (p * p * d >= Q * Q * e)
  BY <1>2, <1>3 DEF Reaches, Scaled, TickPrice
<1> HIDE DEF P, d, e
<1>7. p <= P
  <2> SUFFICES ASSUME p > P PROVE FALSE
    BY <1>0, <1>5
  <2>1. PICK i \in Nat : p = P + i
    <3>1. p - P \in Nat /\ p = P + (p - P)
      BY <1>0, <1>5
    <3> QED
      BY <3>1
  <2>2. p * p = P * P + (i * P + i * p) /\ i * P + i * p \in Nat /\ P * P \in Nat
    BY <1>0, <1>5, <2>1
  <2> DEFINE x == P * P
             y == i * P + i * p
  <2>3. p * p * d = x * d + y * d /\ y * d \in Nat /\ x * d \in Nat
    <3>1. p * p * d = (x + y) * d /\ x \in Nat /\ y \in Nat
      BY <2>2
    <3> HIDE DEF x, y
    <3> QED
      BY <1>5, <3>1
  <2>4. Q * Q * e \in Nat
    BY <1>0, <1>5
  <2> QED
    BY <1>5, <1>6, <2>3, <2>4
<1> QED
  BY <1>0, <1>4, <1>5, <1>7 DEF P

-----------------------------------------------------------------------------
\* A rounded-down quotient grows with its dividend.
LEMMA QuotientRises ==
  ASSUME NEW m \in Int, NEW n \in Int, NEW d \in Nat \ {0}, m <= n
  PROVE  m \div d <= n \div d
<1> DEFINE i == m \div d
           j == n \div d
<1>1. i \in Int /\ j \in Int /\ i * d <= m /\ n < j * d + d
  OBVIOUS
<1> HIDE DEF i, j
<1>2. i <= j
  <2> SUFFICES ASSUME i > j PROVE FALSE
    BY <1>1
  <2>1. PICK c \in Nat : i = j + 1 + c
    <3>1. i - j - 1 \in Nat /\ i = j + 1 + (i - j - 1)
      BY <1>1
    <3> QED
      BY <3>1
  <2>2. i * d = j * d + d + c * d /\ c * d \in Nat /\ j * d \in Int
    BY <1>1, <2>1
  <2> QED
    BY <1>1, <2>2
<1> QED
  BY <1>2 DEF i, j

\* And of two fractions.
LEMMA FractionRises ==
  ASSUME NEW m \in Nat, NEW n \in Nat, NEW c \in Nat \ {0}, NEW d \in Nat \ {0},
         m * d <= n * c
  PROVE  m \div c <= n \div d
<1> DEFINE i == m \div c
           j == n \div d
<1>1. i \in Nat /\ j \in Nat /\ i * c <= m /\ n < j * d + d
  OBVIOUS
<1> HIDE DEF i, j
<1>2. i <= j
  <2> SUFFICES ASSUME i > j PROVE FALSE
    BY <1>1
  <2>1. PICK k \in Nat : i = j + 1 + k
    <3>1. i - j - 1 \in Nat /\ i = j + 1 + (i - j - 1)
      BY <1>1
    <3> QED
      BY <3>1
  <2>2. i * d = j * d + d + k * d /\ k * d \in Nat /\ j * d \in Nat
    BY <1>1, <2>1
  <2>3. i * d > n /\ i * d \in Nat
    BY <1>1, <2>2
  <2>4. ~ (n * c >= (i * d) * c)
    <3>1. ~ (n >= i * d)
      BY <2>3
    <3> QED
      BY <2>3, <3>1, FactorOrder
  <2>5. m * d >= (i * c) * d
    <3>1. i * c \in Nat
      BY <1>1
    <3> QED
      BY <1>1, <3>1, FactorOrder
  <2>6. (i * d) * c = (i * c) * d /\ (i * d) * c \in Nat /\ m * d \in Nat /\ n * c \in Nat
    BY <1>1
  <2> QED
    BY <2>4, <2>5, <2>6
<1> QED
  BY <1>2 DEF i, j

-----------------------------------------------------------------------------
\* What is known of the reads of a request, and of one during which the pool
\* stood still.
RestInv ==
  /\ sqrtPrice \in SqrtPrices /\ liquidity \in Liquidities
  /\ readLiquidity \in Nat /\ readTick \in Int /\ readSqrt \in SqrtPrices \cup {0}
  /\ reading \in {"liquidity", "tick", "price", "answered"}
  /\ calm /\ reading \in {"price", "answered"} => readTick = PoolTick(sqrtPrice)
  /\ calm /\ reading = "answered" => readSqrt = sqrtPrice

\* Every request keeps it.
LEMMA RestKept == TiersSpec => []RestInv
<1>1. TiersInit => RestInv
  BY DEF TiersInit, RestInv
<1>2. RestInv /\ [TiersNext]_tiersVars => RestInv'
  <2> SUFFICES ASSUME RestInv, [TiersNext]_tiersVars
               PROVE  RestInv'
    OBVIOUS
  <2> USE DEF RestInv, poolVars, readVars
  <2>1. ASSUME NEW ok \in BOOLEAN, ReadLiquidity(ok) PROVE RestInv'
    <3>1. Liquidities \subseteq Nat
      BY TiersAssumption DEF TiersAssumption
    <3> QED
      BY <2>1, <3>1 DEF ReadLiquidity, Read
  <2>2. ASSUME NEW ok \in BOOLEAN, ReadTick(ok) PROVE RestInv'
    <3>1. PoolTick(sqrtPrice)' = PoolTick(sqrtPrice)
      BY <2>2 DEF ReadTick, Read, PoolTick, Reaches, Scaled, TickPrice, Exp
    <3>2. PoolTick(sqrtPrice) \in Int
      BY PoolTickIsInt
    <3> QED
      BY <2>2, <3>1, <3>2 DEF ReadTick, Read
  <2>3. ASSUME NEW ok \in BOOLEAN, ReadPrice(ok) PROVE RestInv'
    <3>1. PoolTick(sqrtPrice)' = PoolTick(sqrtPrice)
      BY <2>3 DEF ReadPrice, Read, PoolTick, Reaches, Scaled, TickPrice, Exp
    <3> QED
      BY <2>3, <3>1 DEF ReadPrice, Read
  <2>4. CASE NextRequest
    BY <2>4 DEF NextRequest
  <2>5. CASE MovePool
    BY <2>5 DEF MovePool
  <2>6. CASE UNCHANGED tiersVars
    <3>1. PoolTick(sqrtPrice)' = PoolTick(sqrtPrice)
      BY <2>6 DEF tiersVars, PoolTick, Reaches, Scaled, TickPrice, Exp
    <3> QED
      BY <2>6, <3>1 DEF tiersVars
  <2> QED
    BY <2>1, <2>2, <2>3, <2>4, <2>5, <2>6 DEF TiersNext
<1> QED
  BY <1>1, <1>2, PTL DEF TiersSpec

\* A pool that stood still is within a tier of two or more ticks.
LEMMA RestInRange == RestInv => InRangeAtRest
<1> SUFFICES ASSUME RestInv, reading = "answered", calm,
                    NEW tier \in Tier, Bps(tier) >= 2
             PROVE  Lower(tier) < TickOf(readSqrt) /\ TickOf(readSqrt) < Upper(tier)
  BY DEF InRangeAtRest
<1>1. readTick = PoolTick(readSqrt) /\ readTick \in Int
  BY PoolTickIsInt DEF RestInv
<1>2. Bps(tier) \in Nat
  BY TiersAssumption DEF TiersAssumption, Tier, Bps
<1> QED
  BY <1>1, <1>2, TickOfNearPool DEF Lower, Upper

\* The report of a pool that stood still has every tier of two or more ticks in
\* range, whatever the scale and the widths.
THEOREM AlwaysInRangeAtRest == TiersSpec => []InRangeAtRest
  BY RestKept, RestInRange, PTL

-----------------------------------------------------------------------------
\* A product of two naturals, and a quotient, are naturals.
LEMMA ProductIsNat ==
  ASSUME NEW a \in Nat, NEW b \in Nat
  PROVE  a * b \in Nat
  OBVIOUS

\* Positive numbers stay positive.
LEMMA ProductIsPositive ==
  ASSUME NEW a \in Nat \ {0}, NEW b \in Nat \ {0}
  PROVE  a * b \in Nat \ {0}
  OBVIOUS

\* What is at least zero stays so.
LEMMA QuotientIsNat ==
  ASSUME NEW n \in Nat, NEW d \in Nat \ {0}
  PROVE  n \div d \in Nat
  OBVIOUS

\* A tier's ends are ticks around the one that was read, and their prices are
\* in order.
LEMMA TierEnds ==
  ASSUME RestInv, NEW tier \in Tier
  PROVE  /\ Bps(tier) \in Nat
         /\ Lower(tier) \in Int /\ Upper(tier) \in Int
         /\ SqrtAt(Lower(tier)) \in Nat \ {0} /\ SqrtAt(Lower(tier)) >= Q
         /\ SqrtAt(Upper(tier)) \in Nat \ {0}
         /\ SqrtAt(Lower(tier)) <= SqrtAt(Upper(tier))
<1>1. Bps(tier) \in Nat
  BY TiersAssumption DEF TiersAssumption, Tier, Bps
<1>2. Lower(tier) \in Int /\ Upper(tier) \in Int /\ Lower(tier) <= Upper(tier)
  BY <1>1 DEF RestInv, Lower, Upper
<1> QED
  BY <1>1, <1>2, SqrtAtRises

\* No tier holds less than nothing but where the loops have the wrong price of
\* its lower end, however the pool moved between the reads.
LEMMA ReadsExplainNegative == RestInv => NegativeExplained
<1> SUFFICES ASSUME RestInv, NEW tier \in Tier
             PROVE  /\ Held(tier)[1] >= 0
                    /\ Held(tier)[2] < 0 => readSqrt < Q \/ Lower(tier) > 0
  BY DEF NegativeExplained
<1> DEFINE liq == readLiquidity
           p == readSqrt
           lower == Lower(tier)
           upper == Upper(tier)
           a == SqrtAt(lower)
           b == SqrtAt(upper)
<1>1. liq \in Nat /\ p \in Nat /\ Q \in Nat \ {0} /\ (p # 0 => p \in SqrtPrices)
  BY TiersAssumption DEF TiersAssumption, RestInv
<1>2. /\ lower \in Int /\ upper \in Int
      /\ a \in Nat \ {0} /\ b \in Nat \ {0} /\ a <= b
  BY TierEnds
<1>3. Held(tier) = Amounts(liq, lower, upper, p)
  BY DEF Held
<1>4. p # 0 => TickOf(p) \in Int
  BY PoolTickIsInt, TickOfNearPool
<1>5. lower <= 0 => a = Q
  BY <1>2, PowerEquation DEF SqrtAt
<1> HIDE DEF liq, p, lower, upper, a, b
<1> SUFFICES /\ Amounts(liq, lower, upper, p)[1] >= 0
             /\ Amounts(liq, lower, upper, p)[2] < 0 => p < Q \/ lower > 0
  BY <1>3 DEF p, lower
<1>6. b - a \in Nat /\ liq * (b - a) \in Nat /\ liq * (b - a) * Q \in Nat /\ a * b \in Nat \ {0}
  <2>1. b - a \in Nat
    BY <1>2
  <2> QED
    BY <1>1, <1>2, <2>1, ProductIsNat, ProductIsPositive
<1>7. CASE liq = 0 \/ p = 0
  BY <1>7 DEF Amounts
<1>8. CASE ~ (liq = 0 \/ p = 0) /\ TickOf(p) <= lower
  <2>1. Amounts(liq, lower, upper, p) = <<(liq * (b - a) * Q) \div (a * b), 0>>
    BY <1>8 DEF Amounts, a, b
  <2>2. (liq * (b - a) * Q) \div (a * b) \in Nat
    BY <1>6, QuotientIsNat
  <2> QED
    BY <2>1, <2>2
<1>9. CASE ~ (liq = 0 \/ p = 0) /\ ~ (TickOf(p) <= lower) /\ TickOf(p) >= upper
  <2>1. Amounts(liq, lower, upper, p) = <<0, (liq * (b - a)) \div Q>>
    BY <1>9 DEF Amounts, a, b
  <2>2. (liq * (b - a)) \div Q \in Nat
    BY <1>1, <1>6, QuotientIsNat
  <2> QED
    BY <2>1, <2>2
<1>10. CASE ~ (liq = 0 \/ p = 0) /\ ~ (TickOf(p) <= lower) /\ ~ (TickOf(p) >= upper)
  <2>1. Amounts(liq, lower, upper, p)
          = <<(liq * (b - p) * Q) \div (p * b), (liq * (p - a)) \div Q>>
    BY <1>10 DEF Amounts, a, b
  <2>2. p <= b
    BY <1>1, <1>2, <1>4, <1>10, UnderUpperEnd DEF b
  <2>3. b - p \in Nat /\ p \in Nat \ {0}
    BY <1>1, <1>2, <1>10, <2>2
  <2>4. (liq * (b - p) * Q) \div (p * b) \in Nat
    <3>1. p * b \in Nat \ {0}
      BY <1>2, <2>3, ProductIsPositive
    <3>2. liq * (b - p) \in Nat
      BY <1>1, <2>3, ProductIsNat
    <3>3. liq * (b - p) * Q \in Nat
      BY <1>1, <3>2, ProductIsNat
    <3> QED
      BY <3>1, <3>3, QuotientIsNat
  <2>5. ASSUME p >= Q, lower <= 0 PROVE (liq * (p - a)) \div Q \in Nat
    <3>1. p - a \in Nat
      BY <1>1, <1>5, <2>5
    <3>2. liq * (p - a) \in Nat
      BY <1>1, <3>1, ProductIsNat
    <3> QED
      BY <1>1, <3>2, QuotientIsNat
  <2> DEFINE x == (liq * (b - p) * Q) \div (p * b)
             y == (liq * (p - a)) \div Q
  <2> HIDE DEF x, y
  <2>6. x >= 0
    BY <2>4 DEF x
  <2>7. p >= Q /\ lower <= 0 => y >= 0
    BY <2>5 DEF y
  <2>8. y \in Int
    <3>1. liq * (p - a) \in Int
      BY <1>1, <1>2
    <3> QED
      BY <1>1, <3>1 DEF y
  <2>9. Amounts(liq, lower, upper, p) = <<x, y>>
    BY <2>1 DEF x, y
  <2>10. y < 0 => p < Q \/ lower > 0
    BY <1>1, <1>2, <2>7, <2>8
  <2> QED
    BY <2>6, <2>9, <2>10
<1> QED
  BY <1>7, <1>8, <1>9, <1>10

\* The report of a tier is never less than nothing of token0; of token1 only
\* below the peg, or if the tier starts above it.
THEOREM NegativeAlwaysExplained == TiersSpec => []NegativeExplained
  BY RestKept, ReadsExplainNegative, PTL

-----------------------------------------------------------------------------
\* Within its range, a position holds more of token0 the further its upper end.
LEMMA FurtherUpperEnd ==
  ASSUME NEW liq \in Nat, NEW p \in Nat \ {0}, NEW b \in Nat \ {0}, NEW c \in Nat \ {0},
         p <= b, b <= c
  PROVE  (liq * (b - p) * Q) \div (p * b) <= (liq * (c - p) * Q) \div (p * c)
<1>1. Q \in Nat
  BY TiersAssumption DEF TiersAssumption
<1>2. PICK i \in Nat : b = p + i
  <2>1. b - p \in Nat /\ b = p + (b - p)
    OBVIOUS
  <2> QED
    BY <2>1
<1>3. PICK j \in Nat : c = b + j
  <2>1. c - b \in Nat /\ c = b + (c - b)
    OBVIOUS
  <2> QED
    BY <2>1
<1> DEFINE f == liq * Q
           m == f * i
           n == f * (i + j)
<1>4. f \in Nat /\ m \in Nat /\ n \in Nat
  BY <1>1
<1>5. liq * (b - p) * Q = m /\ liq * (c - p) * Q = n
  <2>1. b - p = i /\ c - p = i + j
    BY <1>2, <1>3
  <2> QED
    BY <1>1, <2>1
<1>6. p * b \in Nat \ {0} /\ p * c \in Nat \ {0}
  BY ProductIsPositive
<1>7. m * (p * c) <= n * (p * b)
  <2> HIDE DEF f
  <2> DEFINE g == f * p
  <2>1. g \in Nat /\ m * (p * c) = g * (i * c) /\ n * (p * b) = g * ((i + j) * b)
    BY <1>4
  <2>2. (i + j) * b = i * c + j * p /\ i * c \in Nat /\ j * p \in Nat
    BY <1>2, <1>3
  <2> HIDE DEF g
  <2>3. g * ((i + j) * b) = g * (i * c) + g * (j * p) /\ g * (i * c) \in Nat /\ g * (j * p) \in Nat
    BY <2>1, <2>2
  <2> QED
    BY <2>1, <2>3
<1> HIDE DEF m, n
<1> QED
  BY <1>4, <1>5, <1>6, <1>7, FractionRises

\* A pool that stood still is within every wide enough tier, and a wider tier's
\* ends are further off.
LEMMA RestHoldsMore == RestInv => WiderHoldsMore
<1> SUFFICES ASSUME RestInv, reading = "answered", calm,
                    NEW s \in Tier, NEW t \in Tier, 2 <= Bps(s), Bps(s) <= Bps(t)
             PROVE  Held(s)[1] <= Held(t)[1] /\ Held(s)[2] <= Held(t)[2]
  BY DEF WiderHoldsMore
<1> DEFINE liq == readLiquidity
           p == readSqrt
           a == SqrtAt(Lower(s))
           b == SqrtAt(Upper(s))
           c == SqrtAt(Lower(t))
           d == SqrtAt(Upper(t))
<1>1. /\ liq \in Nat /\ p \in Nat \ {0} /\ p \in SqrtPrices /\ Q \in Nat \ {0}
  BY TiersAssumption DEF TiersAssumption, RestInv
<1>2. /\ Bps(s) \in Nat /\ Bps(t) \in Nat
      /\ Upper(s) \in Int /\ Lower(s) \in Int /\ Upper(t) \in Int /\ Lower(t) \in Int
      /\ a \in Nat \ {0} /\ b \in Nat \ {0} /\ c \in Nat \ {0} /\ d \in Nat \ {0}
  BY TierEnds
<1>3. c <= a /\ b <= d
  <2>1. Lower(t) <= Lower(s) /\ Upper(s) <= Upper(t)
    BY <1>2 DEF RestInv, Lower, Upper
  <2> QED
    BY <1>2, <2>1, SqrtAtRises
<1>4. /\ Lower(s) < TickOf(p) /\ TickOf(p) < Upper(s)
      /\ Lower(t) < TickOf(p) /\ TickOf(p) < Upper(t)
  BY <1>2, RestInRange DEF InRangeAtRest
<1>5. TickOf(p) \in Int
  BY PoolTickIsInt, TickOfNearPool
<1>6. p <= b
  BY <1>1, <1>2, <1>4, UnderUpperEnd
<1>7. CASE liq = 0
  BY <1>7 DEF Held, Amounts
<1>8. CASE liq # 0
  <2> DEFINE Within(low, high) ==
               <<(liq * (high - p) * Q) \div (p * high), (liq * (p - low)) \div Q>>
  <2>1. Held(s) = Within(a, b) /\ Held(t) = Within(c, d)
    BY <1>1, <1>2, <1>4, <1>5, <1>8 DEF Held, Amounts
  <2> HIDE DEF liq, p, a, b, c, d
  <2>2. (liq * (b - p) * Q) \div (p * b) <= (liq * (d - p) * Q) \div (p * d)
    BY <1>1, <1>2, <1>3, <1>6, FurtherUpperEnd
  <2>3. (liq * (p - a)) \div Q <= (liq * (p - c)) \div Q
    <3>1. PICK i \in Nat : a = c + i
      <4>1. a - c \in Nat /\ a = c + (a - c)
        BY <1>2, <1>3
      <4> QED
        BY <4>1
    <3>2. liq * (p - c) = liq * (p - a) + liq * i /\ liq * i \in Nat
      BY <1>1, <1>2, <3>1
    <3>3. liq * (p - a) \in Int /\ liq * (p - c) \in Int
      BY <1>1, <1>2
    <3>4. liq * (p - a) <= liq * (p - c)
      BY <3>2, <3>3
    <3> QED
      BY <1>1, <3>3, <3>4, QuotientRises
  <2> QED
    BY <2>1, <2>2, <2>3
<1> QED
  BY <1>7, <1>8

\* A wider tier of a pool that stood still is never shown to hold less.
THEOREM WiderAlwaysHoldsMore == TiersSpec => []WiderHoldsMore
  BY RestKept, RestHoldsMore, PTL

-----------------------------------------------------------------------------
\* The ends of the three layers fit the pools of 1 and 5 parts in ten thousand,
\* and so the shipped configuration; they do not fit the two higher fees.
THEOREM LayersFitLowFees ==
  /\ \A fee \in {100, 500}, tick \in LayerTicks :
       AlignTickToSpacing(tick, GetTickSpacing(fee)) = tick
  /\ \A fee \in {3000, 10000} : \E tick \in LayerTicks :
       AlignTickToSpacing(tick, GetTickSpacing(fee)) # tick
  BY DEF LayerTicks, AlignTickToSpacing, GetTickSpacing
=============================================================================
