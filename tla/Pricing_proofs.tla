---------------------------- MODULE Pricing_proofs ----------------------------
(***************************************************************************)
(* What the rating guarantees about one call, for any tables. The tariff:  *)
(* the price is that of the started blocks, RatingDuckDB charges the same, *)
(* and the credit covers the seconds it allows. The selection: the rate of *)
(* the longest prefix, and billing periods without gap or overlap. And the *)
(* cache that the tables are read through: what it frees and how old it    *)
(* may be. Facts about walks over the steps of a tariff go by induction,   *)
(* for which the least element of a set of numbers is enough.              *)
(***************************************************************************)
EXTENDS Pricing, RtCache, SequenceTheorems, WellFoundedInduction, TLAPS

------------------------------------------------------------------------------
(* Induction and recursion over the steps of a tariff *)

\* A set of numbers has a least one.
LEMMA LeastNat ==
  ASSUME NEW T \in SUBSET Nat, T # {}
  PROVE  \E m \in T : \A y \in T : m <= y
<1> DEFINE R == OpToRel(<, Nat)
<1>1. IsWellFoundedOn(R, Nat) BY NatLessThanWellFounded
<1>2. \A y, x \in Nat : <<y, x>> \in R <=> y < x BY DEF OpToRel
<1> HIDE DEF R
<1>3. PICK m \in T : \A y \in T : ~ (<<y, m>> \in R) BY <1>1, WFMin
<1>4. \A y \in T : ~ (y < m) BY <1>2, <1>3
<1> QED BY <1>4

\* A set that holds 0 and with each number up to n the next one holds them all.
LEMMA UpTo ==
  ASSUME NEW n \in Nat, NEW T, 0 \in T, \A p \in 1 .. n : p - 1 \in T => p \in T
  PROVE  \A p \in 0 .. n : p \in T
<1> DEFINE B == {p \in 0 .. n : p \notin T}
<1> SUFFICES ASSUME B # {} PROVE FALSE OBVIOUS
<1>1. B \in SUBSET Nat OBVIOUS
<1>2. PICK m \in B : \A y \in B : m <= y
  <2> HIDE DEF B
  <2> QED BY <1>1, LeastNat
<1>3. m \in 1 .. n /\ m - 1 \in 0 .. n /\ m - 1 \notin B BY <1>2
<1> QED BY <1>2, <1>3

\* What is computed from one number to the next exists.
LEMMA Iterates ==
  ASSUME NEW S, NEW a \in S, NEW n \in Nat, NEW F \in [(1 .. n) \X S -> S]
  PROVE  \E f \in [0 .. n -> S] : f[0] = a /\ \A p \in 1 .. n : f[p] = F[<<p, f[p - 1]>>]
<1> DEFINE Good(k, f) == f[0] = a /\ \A p \in 1 .. k : f[p] = F[<<p, f[p - 1]>>]
           T == {k \in 0 .. n : \E f \in [0 .. k -> S] : Good(k, f)}
<1>1. 0 \in T
  <2>1. [i \in 0 .. 0 |-> a] \in [0 .. 0 -> S] /\ Good(0, [i \in 0 .. 0 |-> a]) OBVIOUS
  <2>2. 0 \in 0 .. n OBVIOUS
  <2> HIDE DEF Good
  <2> QED BY <2>1, <2>2
<1>2. ASSUME NEW k \in 1 .. n, k - 1 \in T PROVE k \in T
  <2>1. PICK f \in [0 .. k - 1 -> S] : Good(k - 1, f) BY <1>2
  <2> DEFINE v == F[<<k, f[k - 1]>>]
             g == [p \in 0 .. k |-> IF p = k THEN v ELSE f[p]]
  <2>2. v \in S
    <3>1. f[k - 1] \in S BY <2>1
    <3> QED BY <3>1
  <2>3. g \in [0 .. k -> S] BY <2>1, <2>2
  <2>4. g[k] = v /\ \A p \in 0 .. k - 1 : g[p] = f[p] OBVIOUS
  <2>5. Good(k, g)
    <3> HIDE DEF g
    <3>1. g[0] = a BY <2>1, <2>4
    <3>2. ASSUME NEW p \in 1 .. k PROVE g[p] = F[<<p, g[p - 1]>>]
      <4>1. p - 1 \in 0 .. k - 1 /\ g[p - 1] = f[p - 1] BY <2>4
      <4>2. CASE p = k BY <2>4, <4>1, <4>2
      <4>3. CASE p # k
        <5>1. p \in 1 .. k - 1 BY <4>3
        <5> QED BY <2>1, <2>4, <4>1, <5>1
      <4> QED BY <4>2, <4>3
    <3> QED BY <3>1, <3>2
  <2>6. k \in 0 .. n OBVIOUS
  <2> HIDE DEF Good, g
  <2> QED BY <2>3, <2>5, <2>6
<1>3. n \in T
  <2> HIDE DEF T
  <2> QED BY <1>1, <1>2, UpTo
<1> QED BY <1>3

------------------------------------------------------------------------------
(* Arithmetic *)

\* The smaller of two numbers.
LEMMA MinPair ==
  ASSUME NEW a \in Int, NEW b \in Int
  PROVE  Min({a, b}) = IF a <= b THEN a ELSE b
BY DEF Min

\* The larger of two numbers.
LEMMA MaxPair ==
  ASSUME NEW a \in Int, NEW b \in Int
  PROVE  Max({a, b}) = IF a >= b THEN a ELSE b
BY DEF Max

\* CeilDiv is the number of blocks that are started.
LEMMA CeilDivFacts ==
  ASSUME NEW x \in Int, NEW d \in Nat \ {0}
  PROVE  /\ CeilDiv(x, d) \in Int
         /\ x <= CeilDiv(x, d) * d
         /\ CeilDiv(x, d) * d < x + d
<1> DEFINE n == -x
           q == n \div d
           m == n % d
<1>1. n \in Int /\ q \in Int /\ m \in 0 .. d - 1 OBVIOUS
<1>2. n = d * q + m OBVIOUS
<1>3. CeilDiv(x, d) = -q BY DEF CeilDiv
<1>4. (-q) * d = -(d * q) /\ d * q \in Int BY <1>1
<1> HIDE DEF q, m
<1> QED BY <1>1, <1>2, <1>3, <1>4

\* Products grow with their first factor.
LEMMA TimesMonotone ==
  ASSUME NEW a \in Int, NEW b \in Int, NEW d \in Nat, a <= b
  PROVE  a * d <= b * d /\ a * d \in Int /\ b * d \in Int
<1>1. PICK e \in Nat : b = a + e
  <2>1. b - a \in Nat /\ b = a + (b - a) OBVIOUS
  <2> QED BY <2>1
<1>2. (a + e) * d = a * d + e * d /\ a * d \in Int /\ e * d \in Nat BY <1>1
<1> QED BY <1>1, <1>2

\* What follows a rule from one number to the next has the type of the rule.
LEMMA StaysTyped ==
  ASSUME NEW S, NEW n \in Nat, NEW F \in [(1 .. n) \X S -> S], NEW h,
         h = [p \in 0 .. n |-> h[p]], h[0] \in S,
         \A p \in 1 .. n : h[p - 1] \in S => h[p] = F[<<p, h[p - 1]>>]
  PROVE  h \in [0 .. n -> S]
<1> DEFINE T == {p \in 0 .. n : h[p] \in S}
<1>1. 0 \in T OBVIOUS
<1>2. ASSUME NEW p \in 1 .. n, p - 1 \in T PROVE p \in T
  <2>1. h[p - 1] \in S /\ h[p] = F[<<p, h[p - 1]>>] BY <1>2
  <2>2. F[<<p, h[p - 1]>>] \in S BY <2>1
  <2> QED BY <2>1, <2>2
<1>3. \A p \in 0 .. n : p \in T
  <2> HIDE DEF T
  <2> QED BY <1>1, <1>2, UpTo
<1> QED BY <1>3

------------------------------------------------------------------------------
(* The recursive functions of the tariffs *)

\* The running sum (the window sum of RatingDuckDB).
LEMMA SumIs ==
  ASSUME NEW bs, NEW n \in Nat, Len(bs) = n, \A i \in 1 .. n : bs[i] \in Int
  PROVE  /\ SumTo(bs) \in [0 .. n -> Int]
         /\ SumTo(bs)[0] = 0
         /\ \A p \in 1 .. n : SumTo(bs)[p] = SumTo(bs)[p - 1] + bs[p]
<1> DEFINE S == Int
           H(w) == [p \in 0 .. n |-> IF p = 0 THEN 0 ELSE w[p - 1] + bs[p]]
           F == [x \in (1 .. n) \X S |-> x[2] + bs[x[1]]]
           h == CHOOSE w : w = H(w)
<1>1. F \in [(1 .. n) \X S -> S] OBVIOUS
<1>2. \A p \in 1 .. n, s \in S : F[<<p, s>>] = s + bs[p] OBVIOUS
<1>3. 0 \in S OBVIOUS
<1>4. \E f : f = H(f)
  <2> HIDE DEF F, S
  <2>1. PICK f \in [0 .. n -> S] : f[0] = 0 /\ \A p \in 1 .. n : f[p] = F[<<p, f[p - 1]>>]
    BY <1>1, <1>3, Iterates
  <2>2. ASSUME NEW p \in 1 .. n PROVE f[p] = f[p - 1] + bs[p]
    <3>1. f[p - 1] \in S BY <2>1
    <3> QED BY <1>2, <2>1, <3>1
  <2>3. f = H(f) BY <2>1, <2>2
  <2> HIDE DEF H
  <2> QED BY <2>3
<1>5. h = H(h)
  <2> HIDE DEF H
  <2> QED BY <1>4
<1>6. SumTo(bs) = h BY DEF SumTo
<1> HIDE DEF h, F
<1>7. h = [p \in 0 .. n |-> h[p]] /\ h[0] = 0 /\ \A p \in 1 .. n : h[p] = h[p - 1] + bs[p]
  BY <1>5
<1>8. h \in [0 .. n -> S]
  <2> HIDE DEF S
  <2>1. \A p \in 1 .. n : h[p - 1] \in S => h[p] = F[<<p, h[p - 1]>>] BY <1>2, <1>7
  <2>2. h[0] \in S BY <1>3, <1>7
  <2>3. h = [p \in 0 .. n |-> h[p]] BY <1>7
  <2> QED BY <1>1, <2>1, <2>2, <2>3, StaysTyped
<1> QED BY <1>6, <1>7, <1>8

Walks == [cprice : Int, billsec : Int, checksec : Int, done : BOOLEAN]

\* The blocks that a step of a tariff charges for x seconds.
Taken(x, e) == DuckCharge(CeilDiv(x, e.delta), e)

\* The blocks charged are a number.
LEMMA TakenIs ==
  ASSUME NEW x \in Int, NEW e \in TariffSteps
  PROVE  /\ Taken(x, e) \in Int
         /\ Taken(x, e) * e.delta \in Int /\ Taken(x, e) * e.fee \in Int
<1>1. e.delta \in Nat \ {0} /\ e.fee \in Nat /\ e.iter \in Nat BY DEF TariffSteps
<1>2. CeilDiv(x, e.delta) \in Int BY <1>1, CeilDivFacts
<1>3. Taken(x, e) \in Int BY <1>1, <1>2 DEF Taken, DuckCharge
<1> QED BY <1>1, <1>3

\* A step of calc_cprice_2 in one line.
LEMMA StepIs ==
  ASSUME NEW s \in Walks, NEW e \in TariffSteps
  PROVE  /\ Step(s, e) \in Walks
         /\ s.done => Step(s, e) = s
         /\ ~s.done =>
              /\ Step(s, e).cprice = s.cprice + Taken(s.checksec, e) * e.fee
              /\ Step(s, e).billsec = s.billsec + Taken(s.checksec, e) * e.delta
              /\ Step(s, e).checksec = s.checksec - Taken(s.checksec, e) * e.delta
              /\ Step(s, e).done <=> e.iter = 0 \/ CeilDiv(s.checksec, e.delta) = 1
<1> DEFINE u == CeilDiv(s.checksec, e.delta)
           n == Taken(s.checksec, e)
           c == Charge(s, e, n)
           d == u = 1
<1>1. e.delta \in Nat \ {0} /\ e.fee \in Nat /\ e.iter \in Nat /\ s.checksec \in Int
  BY DEF TariffSteps, Walks
<1>2. u \in Int /\ n \in Int /\ n * e.delta \in Int /\ n * e.fee \in Int
  BY <1>1, CeilDivFacts, TakenIs
<1>3. e.iter # 0 => Min({u, e.iter}) = n
  <2> HIDE DEF u
  <2>1. Min({u, e.iter}) = IF u <= e.iter THEN u ELSE e.iter BY <1>1, <1>2, MinPair
  <2> QED BY <2>1 DEF Taken, DuckCharge, u
<1>4. e.iter = 0 => u = n BY DEF Taken, DuckCharge
<1>5. Step(s, e) = IF s.done THEN s
                   ELSE IF e.iter = 0 THEN [c EXCEPT !.done = TRUE] ELSE [c EXCEPT !.done = d]
  <2> HIDE DEF u, n
  <2> QED BY <1>3, <1>4 DEF Step, u, Walks
<1>6. /\ c \in Walks
      /\ c.cprice = s.cprice + n * e.fee
      /\ c.billsec = s.billsec + n * e.delta
      /\ c.checksec = s.checksec - n * e.delta
  <2> DEFINE x == n * e.delta
             y == n * e.fee
  <2>1. x \in Int /\ y \in Int /\ c = [s EXCEPT !.cprice = @ + y, !.billsec = @ + x, !.checksec = @ - x]
    BY <1>2 DEF Charge
  <2> HIDE DEF x, y, c
  <2>2. /\ s.cprice \in Int /\ s.billsec \in Int /\ s.checksec \in Int /\ s.done \in BOOLEAN
        /\ s = [cprice |-> s.cprice, billsec |-> s.billsec, checksec |-> s.checksec, done |-> s.done]
    BY DEF Walks
  <2>3. c = [cprice |-> s.cprice + y, billsec |-> s.billsec + x, checksec |-> s.checksec - x,
             done |-> s.done]
    BY <2>1, <2>2
  <2>4. c \in Walks /\ c.cprice = s.cprice + y /\ c.billsec = s.billsec + x /\ c.checksec = s.checksec - x
    BY <2>1, <2>2, <2>3 DEF Walks
  <2> QED BY <2>4 DEF x, y
<1>7. d \in BOOLEAN OBVIOUS
<1> HIDE DEF c, n, d
<1>8. ASSUME NEW b \in BOOLEAN
      PROVE  /\ [c EXCEPT !.done = b] \in Walks /\ [c EXCEPT !.done = b].done = b
             /\ [c EXCEPT !.done = b].cprice = c.cprice
             /\ [c EXCEPT !.done = b].billsec = c.billsec
             /\ [c EXCEPT !.done = b].checksec = c.checksec
  BY <1>6 DEF Walks
<1>9. CASE s.done BY <1>5, <1>9
<1>10. CASE ~s.done /\ e.iter = 0
  BY <1>5, <1>6, <1>8, <1>10 DEF n
<1>11. CASE ~s.done /\ e.iter # 0
  BY <1>5, <1>6, <1>7, <1>8, <1>11 DEF n, d
<1> QED BY <1>9, <1>10, <1>11

\* The walk of calc_cprice_2 over the steps of a tariff.
LEMMA WalkIs ==
  ASSUME NEW t \in Tariffs, NEW n \in Nat, Len(t) = n, NEW b \in Int
  PROVE  /\ Walk(t, b) \in [0 .. n -> Walks]
         /\ Walk(t, b)[0] = Walk0(b)
         /\ \A p \in 1 .. n : Walk(t, b)[p] = Step(Walk(t, b)[p - 1], t[p])
<1> DEFINE S == Walks
           a == Walk0(b)
           H(w) == [p \in 0 .. n |-> IF p = 0 THEN a ELSE Step(w[p - 1], t[p])]
           F == [x \in (1 .. n) \X S |-> Step(x[2], t[x[1]])]
           h == CHOOSE w : w = H(w)
<1>1. F \in [(1 .. n) \X S -> S]
  <2>1. ASSUME NEW p \in 1 .. n, NEW s \in S PROVE Step(s, t[p]) \in S
    <3>1. t[p] \in TariffSteps BY DEF Tariffs
    <3> QED BY <3>1, StepIs
  <2> HIDE DEF S
  <2> QED BY <2>1
<1>2. \A p \in 1 .. n, s \in S : F[<<p, s>>] = Step(s, t[p]) OBVIOUS
<1>3. a \in S BY DEF Walk0, Walks
<1> HIDE DEF a
<1>4. \E f : f = H(f)
  <2> HIDE DEF F, S
  <2>1. PICK f \in [0 .. n -> S] : f[0] = a /\ \A p \in 1 .. n : f[p] = F[<<p, f[p - 1]>>]
    BY <1>1, <1>3, Iterates
  <2>2. ASSUME NEW p \in 1 .. n PROVE f[p] = Step(f[p - 1], t[p])
    <3>1. f[p - 1] \in S BY <2>1
    <3> QED BY <1>2, <2>1, <3>1
  <2>3. f = H(f) BY <2>1, <2>2
  <2> HIDE DEF H
  <2> QED BY <2>3
<1>5. h = H(h)
  <2> HIDE DEF H
  <2> QED BY <1>4
<1>6. Walk(t, b) = h BY DEF Walk, a
<1> HIDE DEF h, F
<1>7. /\ h = [p \in 0 .. n |-> h[p]] /\ h[0] = a
      /\ \A p \in 1 .. n : h[p] = Step(h[p - 1], t[p])
  <2>1. DOMAIN h = 0 .. n /\ h = [p \in 0 .. n |-> h[p]] BY <1>5
  <2>2. ASSUME NEW p \in 0 .. n PROVE h[p] = IF p = 0 THEN a ELSE Step(h[p - 1], t[p])
    BY <1>5
  <2>3. h[0] = a BY <2>2
  <2>4. ASSUME NEW p \in 1 .. n PROVE h[p] = Step(h[p - 1], t[p])
    <3>1. p \in 0 .. n /\ p # 0 OBVIOUS
    <3> QED BY <2>2, <3>1
  <2> QED BY <2>1, <2>3, <2>4
<1>8. h \in [0 .. n -> S]
  <2> HIDE DEF S
  <2>1. \A p \in 1 .. n : h[p - 1] \in S => h[p] = F[<<p, h[p - 1]>>] BY <1>2, <1>7
  <2>2. h[0] \in S BY <1>3, <1>7
  <2>3. h = [p \in 0 .. n |-> h[p]] BY <1>7
  <2> QED BY <1>1, <2>1, <2>2, <2>3, StaysTyped
<1> QED BY <1>6, <1>7, <1>8 DEF a

\* A walk of calc_cprice_2 as RatingDuckDB writes it.
DuckOf(s) == [rem |-> s.checksec, price |-> s.cprice, bsec |-> s.billsec, done |-> s.done]

\* A step of price_walk is a step of calc_cprice_2.
LEMMA DuckStepIs ==
  ASSUME NEW s \in Walks, NEW e \in TariffSteps
  PROVE  DuckStep(DuckOf(s), e) = DuckOf(Step(s, e))
<1> DEFINE u == CeilDiv(s.checksec, e.delta)
           n == Taken(s.checksec, e)
           r == Step(s, e)
           k == DuckOf(s)
           d == e.iter = 0 \/ e.delta = 0 \/ u = 1
<1>1. e.delta # 0 BY DEF TariffSteps
<1>2. k.rem = s.checksec /\ k.price = s.cprice /\ k.bsec = s.billsec /\ k.done = s.done
  BY DEF DuckOf
<1>3. DuckUnits(k.rem, e) = u /\ DuckCharge(u, e) = n BY <1>1, <1>2 DEF DuckUnits, Taken
<1>4. DuckStep(k, e) = IF k.done THEN k
                       ELSE [rem |-> k.rem - n * e.delta, price |-> k.price + n * e.fee,
                             bsec |-> k.bsec + n * e.delta, done |-> d]
  <2> HIDE DEF k, n
  <2> QED BY <1>3 DEF DuckStep
<1>5. r \in Walks /\ (s.done => r = s)
      /\ (~s.done => /\ r.cprice = s.cprice + n * e.fee
                     /\ r.billsec = s.billsec + n * e.delta
                     /\ r.checksec = s.checksec - n * e.delta
                     /\ r.done <=> e.iter = 0 \/ u = 1)
  BY StepIs
<1>6. CASE s.done BY <1>2, <1>4, <1>5, <1>6
<1>7. CASE ~s.done
  <2>1. d \in BOOLEAN /\ r.done \in BOOLEAN /\ (d <=> r.done)
    <3>1. r.done \in BOOLEAN BY <1>5 DEF Walks
    <3> QED BY <1>1, <1>5, <1>7, <3>1
  <2>2. d = r.done
    <3> HIDE DEF d, r
    <3> QED BY <2>1
  <2> HIDE DEF d, r, n, k
  <2>3. DuckStep(k, e) = [rem |-> r.checksec, price |-> r.cprice, bsec |-> r.billsec, done |-> d]
    BY <1>2, <1>4, <1>5, <1>7
  <2> QED BY <2>2, <2>3 DEF DuckOf, r, k
<1> QED BY <1>6, <1>7

\* price_walk of RatingDuckDB goes through the states of calc_cprice_2.
LEMMA DuckWalkIs ==
  ASSUME NEW t \in Tariffs, NEW n \in Nat, Len(t) = n, NEW b \in Int
  PROVE  \A p \in 0 .. n : DuckWalk(t, b)[p] = DuckOf(Walk(t, b)[p])
<1> DEFINE a == [rem |-> b, price |-> 0, bsec |-> 0, done |-> FALSE]
           H(w) == [p \in 0 .. n |-> IF p = 0 THEN a ELSE DuckStep(w[p - 1], t[p])]
           f == [p \in 0 .. n |-> DuckOf(Walk(t, b)[p])]
           h == CHOOSE w : w = H(w)
           T == {p \in 0 .. n : h[p] = f[p]}
<1>1. f[0] = a
  <2>1. Walk(t, b)[0] = Walk0(b) BY WalkIs
  <2>2. DuckOf(Walk0(b)) = a BY DEF DuckOf, Walk0
  <2> HIDE DEF a
  <2> QED BY <2>1, <2>2
<1>2. ASSUME NEW p \in 1 .. n PROVE f[p] = DuckStep(f[p - 1], t[p])
  <2> DEFINE s == Walk(t, b)[p - 1]
  <2>1. s \in Walks /\ Walk(t, b)[p] = Step(s, t[p])
    <3>1. Walk(t, b) \in [0 .. n -> Walks] BY WalkIs
    <3>2. p - 1 \in 0 .. n OBVIOUS
    <3> QED BY <3>1, <3>2, WalkIs
  <2>2. t[p] \in TariffSteps BY DEF Tariffs
  <2>3. f[p] = DuckOf(Walk(t, b)[p]) /\ f[p - 1] = DuckOf(s) OBVIOUS
  <2> HIDE DEF s, f
  <2> QED BY <2>1, <2>2, <2>3, DuckStepIs
<1> HIDE DEF a
<1>3. f = H(f)
  <2>1. f = [p \in 0 .. n |-> f[p]] OBVIOUS
  <2> HIDE DEF f
  <2>2. ASSUME NEW p \in 0 .. n PROVE f[p] = IF p = 0 THEN a ELSE DuckStep(f[p - 1], t[p])
    BY <1>1, <1>2
  <2> QED BY <2>1, <2>2
<1>4. h = H(h)
  <2> HIDE DEF H, f
  <2> QED BY <1>3
<1>5. DuckWalk(t, b) = h BY DEF DuckWalk, a
<1> HIDE DEF h, f
<1>6. \A p \in 0 .. n : h[p] = IF p = 0 THEN a ELSE DuckStep(h[p - 1], t[p]) BY <1>4
<1>7. 0 \in T BY <1>1, <1>6
<1>8. ASSUME NEW p \in 1 .. n, p - 1 \in T PROVE p \in T
  <2>1. p \in 0 .. n /\ p # 0 /\ h[p - 1] = f[p - 1] BY <1>8
  <2>2. h[p] = DuckStep(h[p - 1], t[p]) BY <1>6, <2>1
  <2> QED BY <1>2, <2>1, <2>2
<1>9. \A p \in 0 .. n : p \in T
  <2> HIDE DEF T
  <2> QED BY <1>7, <1>8, UpTo
<1> QED BY <1>5, <1>9 DEF f

\* What is left of the free seconds after some calls, from their running sum.
Rest(x) == IF x >= 0 THEN x ELSE 0

\* The pool of free seconds after each call.
LEMMA PoolIs ==
  ASSUME NEW bs \in Seq(Nat), NEW n \in Nat, Len(bs) = n, NEW limit \in Nat, NEW used \in Nat
  PROVE  \A i \in 0 .. n : Pool(bs, limit, used)[i] = Rest(limit - used - SumTo(bs)[i])
<1> DEFINE sum == SumTo(bs)
           a == Max({0, limit - used})
           H(w) == [i \in 0 .. n |-> IF i = 0 THEN a ELSE w[i - 1] - Min({bs[i], w[i - 1]})]
           f == [i \in 0 .. n |-> Rest(limit - used - sum[i])]
           h == CHOOSE w : w = H(w)
           T == {i \in 0 .. n : h[i] = f[i]}
<1>1. sum \in [0 .. n -> Int] /\ sum[0] = 0 /\ \A i \in 1 .. n : sum[i] = sum[i - 1] + bs[i]
  <2>1. \A i \in 1 .. n : bs[i] \in Int OBVIOUS
  <2> QED BY <2>1, SumIs
<1> HIDE DEF sum
<1>2. f[0] = a
  <2>1. a = IF 0 >= limit - used THEN 0 ELSE limit - used BY MaxPair
  <2> HIDE DEF a
  <2> QED BY <1>1, <2>1 DEF Rest
<1>3. ASSUME NEW i \in 1 .. n PROVE f[i] = f[i - 1] - Min({bs[i], f[i - 1]})
  <2> DEFINE x == limit - used - sum[i - 1]
             y == limit - used - sum[i]
  <2>1. i - 1 \in 0 .. n /\ i \in 0 .. n OBVIOUS
  <2>2. bs[i] \in Nat OBVIOUS
  <2>3. sum[i - 1] \in Int /\ sum[i] = sum[i - 1] + bs[i] BY <1>1, <2>1
  <2>4. x \in Int /\ y = x - bs[i] BY <2>2, <2>3
  <2>5. f[i] = Rest(y) /\ f[i - 1] = Rest(x) BY <2>1
  <2> HIDE DEF x, y, f
  <2>6. Rest(x) \in Int BY <2>4 DEF Rest
  <2>7. Min({bs[i], Rest(x)}) = IF bs[i] <= Rest(x) THEN bs[i] ELSE Rest(x) BY <2>2, <2>6, MinPair
  <2> QED BY <2>2, <2>4, <2>5, <2>7 DEF Rest
<1> HIDE DEF a
<1>4. f = H(f)
  <2>1. f = [i \in 0 .. n |-> f[i]] OBVIOUS
  <2> HIDE DEF f
  <2>2. ASSUME NEW i \in 0 .. n PROVE f[i] = IF i = 0 THEN a ELSE f[i - 1] - Min({bs[i], f[i - 1]})
    BY <1>2, <1>3
  <2> QED BY <2>1, <2>2
<1>5. h = H(h)
  <2> HIDE DEF H, f
  <2> QED BY <1>4
<1>6. Pool(bs, limit, used) = h BY DEF Pool, a
<1> HIDE DEF h, f
<1>7. \A i \in 0 .. n : h[i] = IF i = 0 THEN a ELSE h[i - 1] - Min({bs[i], h[i - 1]}) BY <1>5
<1>8. 0 \in T
  <2>1. 0 \in 0 .. n OBVIOUS
  <2>2. h[0] = a BY <1>7, <2>1
  <2> QED BY <1>2, <2>1, <2>2
<1>9. ASSUME NEW i \in 1 .. n, i - 1 \in T PROVE i \in T
  <2>1. i \in 0 .. n /\ i # 0 /\ h[i - 1] = f[i - 1] BY <1>9
  <2>2. h[i] = h[i - 1] - Min({bs[i], h[i - 1]}) BY <1>7, <2>1
  <2> QED BY <1>3, <2>1, <2>2
<1>10. \A i \in 0 .. n : i \in T
  <2> HIDE DEF T
  <2> QED BY <1>8, <1>9, UpTo
<1>11. \A i \in 0 .. n : h[i] = Rest(limit - used - sum[i])
  <2>1. \A i \in 0 .. n : h[i] = f[i] BY <1>10
  <2> QED BY <2>1 DEF f
<1> QED BY <1>6, <1>11 DEF sum

\* The split of a batch by a running sum is the drawdown of the pool call by call.
LEMMA SplitIsDrawdown ==
  ASSUME NEW bs \in Seq(Nat), NEW limit \in Nat, NEW used \in Nat
  PROVE  Split(bs, limit, used) = Drawdown(bs, limit, used)
<1> DEFINE n == Len(bs)
           sum == SumTo(bs)
           pool == Pool(bs, limit, used)
<1>1. n \in Nat /\ DOMAIN bs = 1 .. n OBVIOUS
<1>2. sum \in [0 .. n -> Int] /\ \A i \in 1 .. n : sum[i] = sum[i - 1] + bs[i]
  <2>1. \A i \in 1 .. n : bs[i] \in Int OBVIOUS
  <2> HIDE DEF n
  <2>2. Len(bs) = n BY DEF n
  <2> QED BY <1>1, <2>1, <2>2, SumIs
<1>3. \A i \in 0 .. n : pool[i] = Rest(limit - used - sum[i]) BY <1>1, PoolIs
<1> HIDE DEF n, sum, pool
<1>4. ASSUME NEW i \in 1 .. n
      PROVE  Max({0, Min({bs[i], limit - (used + sum[i - 1])})}) = pool[i - 1] - pool[i]
  <2> DEFINE x == limit - (used + sum[i - 1])
             m == Min({bs[i], x})
  <2>1. i - 1 \in 0 .. n /\ i \in 0 .. n /\ bs[i] \in Nat BY <1>1
  <2>2. sum[i - 1] \in Int /\ sum[i] = sum[i - 1] + bs[i] BY <1>2, <2>1
  <2>3. x \in Int /\ limit - used - sum[i - 1] = x /\ limit - used - sum[i] = x - bs[i]
    <3> DEFINE s == sum[i - 1]
               b == bs[i]
    <3>1. s \in Int /\ b \in Nat /\ sum[i] = s + b BY <2>1, <2>2
    <3> HIDE DEF s, b
    <3>2. limit - (used + s) \in Int /\ limit - used - s = limit - (used + s)
          /\ limit - used - (s + b) = limit - (used + s) - b
      BY <3>1
    <3> QED BY <3>1, <3>2 DEF s, b
  <2>4. pool[i - 1] = Rest(x) /\ pool[i] = Rest(x - bs[i]) BY <1>3, <2>1, <2>3
  <2> HIDE DEF x
  <2>5. m = IF bs[i] <= x THEN bs[i] ELSE x BY <2>1, <2>3, MinPair
  <2> HIDE DEF m
  <2>6. m \in Int BY <2>1, <2>3, <2>5
  <2>7. Max({0, m}) = IF 0 >= m THEN 0 ELSE m BY <2>6, MaxPair
  <2>8. Max({0, m}) = Rest(x) - Rest(x - bs[i]) BY <2>1, <2>3, <2>5, <2>6, <2>7 DEF Rest
  <2> QED BY <2>4, <2>8 DEF m, x
<1>5. Split(bs, limit, used)
        = [i \in 1 .. n |-> Max({0, Min({bs[i], limit - (used + sum[i - 1])})})]
  BY <1>1 DEF Split, sum
<1>6. Drawdown(bs, limit, used) = [i \in 1 .. n |-> pool[i - 1] - pool[i]]
  BY <1>1 DEF Drawdown, pool
<1> QED BY <1>4, <1>5, <1>6

\* What a step of a tariff leaves of x seconds.
LeftBy(x, e) == IF e.iter = 0 THEN 0 ELSE Max({0, x - e.iter * e.delta})

\* A step leaves what its blocks do not reach.
LEMMA LeftByIs ==
  ASSUME NEW x \in Nat, NEW e \in TariffSteps
  PROVE  /\ LeftBy(x, e) \in Nat
         /\ LeftBy(x, e) = IF e.iter = 0 \/ x <= e.iter * e.delta THEN 0 ELSE x - e.iter * e.delta
<1> DEFINE k == e.iter * e.delta
<1>1. k \in Nat /\ x - k \in Int BY DEF TariffSteps
<1>2. LeftBy(x, e) = IF e.iter = 0 THEN 0 ELSE Max({0, x - k}) BY DEF LeftBy
<1> HIDE DEF k
<1>3. Max({0, x - k}) = IF 0 >= x - k THEN 0 ELSE x - k BY <1>1, MaxPair
<1>4. LeftBy(x, e) \in Nat /\ LeftBy(x, e) = IF e.iter = 0 \/ x <= k THEN 0 ELSE x - k
  BY <1>1, <1>2, <1>3
<1> QED BY <1>4 DEF k

\* The seconds that the steps of a tariff leave.
LEMMA LeftIs ==
  ASSUME NEW t \in Tariffs, NEW n \in Nat, Len(t) = n, NEW b \in Nat
  PROVE  /\ Left(t, b) \in [0 .. n -> Nat]
         /\ Left(t, b)[0] = b
         /\ \A p \in 1 .. n : Left(t, b)[p] = LeftBy(Left(t, b)[p - 1], t[p])
<1> DEFINE S == Nat
           a == b
           H(w) == [p \in 0 .. n |-> IF p = 0 THEN a ELSE LeftBy(w[p - 1], t[p])]
           F == [x \in (1 .. n) \X S |-> LeftBy(x[2], t[x[1]])]
           h == CHOOSE w : w = H(w)
<1>1. F \in [(1 .. n) \X S -> S]
  <2>1. ASSUME NEW p \in 1 .. n, NEW s \in S PROVE LeftBy(s, t[p]) \in S
    <3>1. t[p] \in TariffSteps BY DEF Tariffs
    <3> QED BY <3>1, LeftByIs
  <2> HIDE DEF S
  <2> QED BY <2>1
<1>2. \A p \in 1 .. n, s \in S : F[<<p, s>>] = LeftBy(s, t[p]) OBVIOUS
<1>3. a \in S OBVIOUS
<1> HIDE DEF a
<1>4. \E f : f = H(f)
  <2> HIDE DEF F, S
  <2>1. PICK f \in [0 .. n -> S] : f[0] = a /\ \A p \in 1 .. n : f[p] = F[<<p, f[p - 1]>>]
    BY <1>1, <1>3, Iterates, Z3T(40)
  <2>2. ASSUME NEW p \in 1 .. n PROVE f[p] = LeftBy(f[p - 1], t[p])
    <3>1. f[p - 1] \in S BY <2>1
    <3> QED BY <1>2, <2>1, <3>1
  <2>3. f = H(f) BY <2>1, <2>2
  <2> HIDE DEF H
  <2> QED BY <2>3
<1>5. h = H(h)
  <2> HIDE DEF H
  <2> QED BY <1>4
<1>6. Left(t, b) = h BY DEF Left, LeftBy, a
<1> HIDE DEF h, F
<1>7. /\ h = [p \in 0 .. n |-> h[p]] /\ h[0] = a
      /\ \A p \in 1 .. n : h[p] = LeftBy(h[p - 1], t[p])
  <2>1. DOMAIN h = 0 .. n /\ h = [p \in 0 .. n |-> h[p]] BY <1>5
  <2>2. ASSUME NEW p \in 0 .. n PROVE h[p] = IF p = 0 THEN a ELSE LeftBy(h[p - 1], t[p])
    BY <1>5
  <2>3. h[0] = a BY <2>2
  <2>4. ASSUME NEW p \in 1 .. n PROVE h[p] = LeftBy(h[p - 1], t[p])
    <3>1. p \in 0 .. n /\ p # 0 OBVIOUS
    <3> QED BY <2>2, <3>1
  <2> QED BY <2>1, <2>3, <2>4
<1>8. h \in [0 .. n -> S]
  <2> HIDE DEF S
  <2>1. \A p \in 1 .. n : h[p - 1] \in S => h[p] = F[<<p, h[p - 1]>>] BY <1>2, <1>7
  <2>2. h[0] \in S BY <1>3, <1>7
  <2>3. h = [p \in 0 .. n |-> h[p]] BY <1>7
  <2> QED BY <1>1, <2>1, <2>2, <2>3, StaysTyped
<1> QED BY <1>6, <1>7, <1>8 DEF a

\* Seconds that are used up start no block, also some that were billed in advance.
LEMMA NoBlocks ==
  ASSUME NEW x \in Int, NEW d \in Nat \ {0}, x <= 0, -d < x
  PROVE  CeilDiv(x, d) = 0
<1> DEFINE u == CeilDiv(x, d)
<1>1. u \in Int /\ x <= u * d /\ u * d < x + d BY CeilDivFacts
<1> HIDE DEF u
<1>2. ~ (u >= 1)
  <2> SUFFICES ASSUME 1 <= u PROVE FALSE BY <1>1
  <2>1. 1 * d <= u * d /\ 1 * d = d /\ u * d \in Int BY <1>1, TimesMonotone
  <2> QED BY <1>1, <2>1
<1>3. ~ (u <= -1)
  <2> SUFFICES ASSUME u <= -1 PROVE FALSE BY <1>1
  <2>1. u * d <= (-1) * d /\ (-1) * d = -d /\ u * d \in Int BY <1>1, TimesMonotone
  <2> QED BY <1>1, <2>1
<1> QED BY <1>1, <1>2, <1>3 DEF u

\* What a step of a tariff charges for seconds that are left.
LEMMA SomeBlocks ==
  ASSUME NEW x \in Nat, x > 0, NEW e \in TariffSteps, NEW u, u = CeilDiv(x, e.delta),
         NEW k, k = Taken(x, e)
  PROVE  /\ u \in Int /\ u >= 1 /\ k \in Nat
         /\ e.iter # 0 /\ u <= e.iter =>
              k = u /\ x <= e.iter * e.delta /\ x - k * e.delta <= 0 /\ -e.delta < x - k * e.delta
         /\ e.iter # 0 /\ ~ (u <= e.iter) => k = e.iter /\ e.iter * e.delta < x
         /\ e.iter = 0 => k = u
<1> DEFINE d == e.delta
           i == e.iter
<1>1. d \in Nat \ {0} /\ i \in Nat BY DEF TariffSteps
<1>2. u \in Int /\ x <= u * d /\ u * d < x + d /\ u * d \in Int
  <2>1. u = CeilDiv(x, d) /\ x \in Int OBVIOUS
  <2> HIDE DEF d
  <2>2. u \in Int /\ x <= u * d /\ u * d < x + d BY <1>1, <2>1, CeilDivFacts
  <2> QED BY <1>1, <2>2
<1>3. k = IF i = 0 \/ u <= i THEN u ELSE i BY DEF Taken, DuckCharge
<1>4. i * d \in Int BY <1>1
<1> SUFFICES /\ u \in Int /\ u >= 1 /\ k \in Nat
             /\ i # 0 /\ u <= i => k = u /\ x <= i * d /\ x - k * d <= 0 /\ -d < x - k * d
             /\ i # 0 /\ ~ (u <= i) => k = i /\ i * d < x
             /\ i = 0 => k = u
  OBVIOUS
<1> HIDE DEF d, i
<1>5. u >= 1
  <2> SUFFICES ASSUME u <= 0 PROVE FALSE BY <1>2
  <2>1. u * d <= 0 * d /\ 0 * d = 0 BY <1>1, <1>2, TimesMonotone
  <2> QED BY <1>2, <2>1
<1>6. k \in Nat BY <1>1, <1>2, <1>3, <1>5
<1>7. ASSUME i # 0, u <= i PROVE k = u /\ x <= i * d /\ x - k * d <= 0 /\ -d < x - k * d
  <2>1. u * d <= i * d BY <1>1, <1>2, <1>7, TimesMonotone
  <2>2. k = u BY <1>3, <1>7
  <2>3. x <= i * d /\ x - u * d <= 0 /\ -d < x - u * d BY <1>1, <1>2, <1>4, <2>1
  <2> QED BY <2>2, <2>3
<1>8. ASSUME i # 0, ~ (u <= i) PROVE k = i /\ i * d < x
  <2>1. i <= u - 1 /\ u - 1 \in Int BY <1>1, <1>2, <1>8
  <2>2. i * d <= (u - 1) * d BY <1>1, <2>1, TimesMonotone
  <2>3. (u - 1) * d = u * d - d BY <1>1, <1>2
  <2>4. i * d < x BY <1>1, <1>2, <1>4, <2>2, <2>3
  <2> QED BY <1>3, <1>8, <2>4
<1> QED BY <1>2, <1>3, <1>5, <1>6, <1>7, <1>8

------------------------------------------------------------------------------
(* The price is that of the started blocks *)

\* The cost and the seconds of the started blocks, step after step.
Cost(t, b) == SumTo([p \in 1 .. Len(t) |-> Blocks(t, b, p) * t[p].fee])
Secs(t, b) == SumTo([p \in 1 .. Len(t) |-> Blocks(t, b, p) * t[p].delta])

\* The reference charges for the seconds that are left what a step takes.
LEMMA SumsAre ==
  ASSUME NEW t \in Tariffs, NEW n \in Nat, Len(t) = n, NEW b \in Nat
  PROVE  /\ Cost(t, b) \in [0 .. n -> Int] /\ Cost(t, b)[0] = 0
         /\ Secs(t, b) \in [0 .. n -> Int] /\ Secs(t, b)[0] = 0
         /\ \A p \in 1 .. n :
              /\ Cost(t, b)[p] = Cost(t, b)[p - 1] + Taken(Left(t, b)[p - 1], t[p]) * t[p].fee
              /\ Secs(t, b)[p] = Secs(t, b)[p - 1] + Taken(Left(t, b)[p - 1], t[p]) * t[p].delta
<1> DEFINE fees == [p \in 1 .. n |-> Blocks(t, b, p) * t[p].fee]
           secs == [p \in 1 .. n |-> Blocks(t, b, p) * t[p].delta]
<1>1. ASSUME NEW p \in 1 .. n
      PROVE  /\ Blocks(t, b, p) = Taken(Left(t, b)[p - 1], t[p])
             /\ Blocks(t, b, p) * t[p].fee \in Int /\ Blocks(t, b, p) * t[p].delta \in Int
  <2> DEFINE e == t[p]
             x == Left(t, b)[p - 1]
             u == CeilDiv(x, e.delta)
  <2>1. e \in TariffSteps BY DEF Tariffs
  <2>2. x \in Int
    <3>1. Left(t, b) \in [0 .. n -> Nat] BY LeftIs
    <3>2. p - 1 \in 0 .. n OBVIOUS
    <3> QED BY <3>1, <3>2
  <2> HIDE DEF e, x
  <2>3. e.delta \in Nat \ {0} /\ e.iter \in Nat BY <2>1 DEF TariffSteps
  <2>4. u \in Int BY <2>2, <2>3, CeilDivFacts
  <2>5. Blocks(t, b, p) = IF e.iter = 0 THEN u ELSE Min({u, e.iter}) BY DEF Blocks, e, x
  <2> HIDE DEF u
  <2>6. Min({u, e.iter}) = IF u <= e.iter THEN u ELSE e.iter BY <2>3, <2>4, MinPair
  <2>7. Blocks(t, b, p) = Taken(x, e) BY <2>5, <2>6 DEF Taken, DuckCharge, u
  <2>8. Taken(x, e) * e.fee \in Int /\ Taken(x, e) * e.delta \in Int BY <2>1, <2>2, TakenIs
  <2> QED BY <2>7, <2>8 DEF e, x
<1>2. fees \in Seq(Int) /\ Len(fees) = n /\ secs \in Seq(Int) /\ Len(secs) = n BY <1>1
<1>3. Cost(t, b) = SumTo(fees) /\ Secs(t, b) = SumTo(secs) BY DEF Cost, Secs
<1>4. \A p \in 1 .. n : /\ fees[p] = Taken(Left(t, b)[p - 1], t[p]) * t[p].fee /\ fees[p] \in Int
                        /\ secs[p] = Taken(Left(t, b)[p - 1], t[p]) * t[p].delta /\ secs[p] \in Int
  BY <1>1
<1> HIDE DEF fees, secs
<1>5. SumTo(fees) \in [0 .. n -> Int] /\ SumTo(fees)[0] = 0
      /\ \A p \in 1 .. n : SumTo(fees)[p] = SumTo(fees)[p - 1] + fees[p]
  BY <1>2, <1>4, SumIs
<1>6. SumTo(secs) \in [0 .. n -> Int] /\ SumTo(secs)[0] = 0
      /\ \A p \in 1 .. n : SumTo(secs)[p] = SumTo(secs)[p - 1] + secs[p]
  BY <1>2, <1>4, SumIs
<1> QED BY <1>3, <1>4, <1>5, <1>6

\* After p steps the walk has charged for the started blocks of these steps. Either
\* nothing is left and no later step charges or takes back, or the walk goes on
\* with the seconds that are left.
PricedTo(t, b, p) ==
  LET w == Walk(t, b)[p]
      left == Left(t, b)[p]
  IN  /\ w.cprice = Cost(t, b)[p]
      /\ w.billsec = Secs(t, b)[p]
      /\ w.billsec + w.checksec = b
      /\ \/ /\ left = 0
            /\ \/ w.done
               \/ w.checksec <= 0 /\ \A q \in 1 .. Len(t) : p < q => -t[q].delta < w.checksec
         \/ ~w.done /\ w.checksec = left /\ left > 0

\* A step of the walk keeps the price that of the started blocks.
LEMMA PriceStep ==
  ASSUME NEW t \in Tariffs, NEW n \in Nat, Len(t) = n, NEW b \in Nat, Steady(t),
         NEW p \in 1 .. n, PricedTo(t, b, p - 1)
  PROVE  PricedTo(t, b, p)
<1> DEFINE e == t[p]
           v == Walk(t, b)[p - 1]
           w == Walk(t, b)[p]
           x == Left(t, b)[p - 1]
           y == Left(t, b)[p]
           c == v.checksec
           k == Taken(c, e)
           u == CeilDiv(c, e.delta)
           cost == Cost(t, b)
           secs == Secs(t, b)
<1>1. p - 1 \in 0 .. n /\ p \in 0 .. n OBVIOUS
<1>2. e \in TariffSteps BY DEF Tariffs
<1>3. e.delta \in Nat \ {0} /\ e.fee \in Nat /\ e.iter \in Nat BY <1>2 DEF TariffSteps
<1>4. v \in Walks /\ w \in Walks /\ w = Step(v, e)
  <2>1. Walk(t, b) \in [0 .. n -> Walks] BY WalkIs
  <2>2. Walk(t, b)[p] = Step(v, e) BY WalkIs
  <2> QED BY <1>1, <2>1, <2>2
<1>5. x \in Nat /\ y = LeftBy(x, e)
  <2>1. Left(t, b) \in [0 .. n -> Nat] BY LeftIs
  <2>2. Left(t, b)[p] = LeftBy(x, e) BY LeftIs
  <2> QED BY <1>1, <2>1, <2>2
<1>6. /\ cost[p] = cost[p - 1] + Taken(x, e) * e.fee /\ cost[p - 1] \in Int
      /\ secs[p] = secs[p - 1] + Taken(x, e) * e.delta /\ secs[p - 1] \in Int
  <2>1. cost \in [0 .. n -> Int] /\ secs \in [0 .. n -> Int] BY SumsAre
  <2>2. /\ cost[p] = cost[p - 1] + Taken(x, e) * e.fee
        /\ secs[p] = secs[p - 1] + Taken(x, e) * e.delta
    BY SumsAre
  <2> QED BY <1>1, <2>1, <2>2
<1>7. /\ v.cprice = cost[p - 1] /\ v.billsec = secs[p - 1] /\ v.billsec + c = b
      /\ \/ /\ x = 0
            /\ \/ v.done
               \/ c <= 0 /\ \A q \in 1 .. n : p - 1 < q => -t[q].delta < c
         \/ ~v.done /\ c = x /\ x > 0
  BY DEF PricedTo
<1>8. \A q \in 1 .. n : t[q].delta \in Nat
  <2>1. \A q \in 1 .. n : t[q] \in TariffSteps BY DEF Tariffs
  <2> QED BY <2>1 DEF TariffSteps
<1>9. v.cprice \in Int /\ v.billsec \in Int /\ c \in Int /\ v.done \in BOOLEAN BY <1>4 DEF Walks
<1>10. PricedTo(t, b, p) <=>
        /\ w.cprice = cost[p] /\ w.billsec = secs[p] /\ w.billsec + w.checksec = b
        /\ \/ /\ y = 0
              /\ \/ w.done
                 \/ w.checksec <= 0 /\ \A q \in 1 .. n : p < q => -t[q].delta < w.checksec
           \/ ~w.done /\ w.checksec = y /\ y > 0
  BY DEF PricedTo
<1>11. /\ v.done => w = v
       /\ ~v.done => /\ w.cprice = v.cprice + k * e.fee
                     /\ w.billsec = v.billsec + k * e.delta
                     /\ w.checksec = c - k * e.delta
                     /\ w.done <=> e.iter = 0 \/ u = 1
  BY <1>2, <1>4, StepIs
<1>12. \A q \in 1 .. n : p < q => e.iter = 0 \/ e.iter = 1 \/ e.delta <= t[q].delta BY DEF Steady
<1> HIDE DEF v, w, x, y, cost, secs, c, u, k, e
<1>13. CASE x = 0
  <2>1. CeilDiv(0, e.delta) = 0 BY <1>3, NoBlocks
  <2>2. Taken(x, e) = 0 BY <1>3, <1>13, <2>1 DEF Taken, DuckCharge
  <2>3. 0 * e.fee = 0 /\ 0 * e.delta = 0 BY <1>3
  <2>4. cost[p] = cost[p - 1] /\ secs[p] = secs[p - 1] BY <1>6, <2>2, <2>3
  <2>5. y = 0
    <3>1. e.iter * e.delta \in Nat BY <1>3
    <3>2. y = IF e.iter = 0 \/ x <= e.iter * e.delta THEN 0 ELSE x - e.iter * e.delta
      BY <1>2, <1>5, LeftByIs
    <3> QED BY <1>13, <3>1, <3>2
  <2>6. CASE v.done
    <3>1. w = v /\ w.checksec = c BY <1>11, <2>6 DEF c
    <3> QED BY <1>7, <1>10, <2>4, <2>5, <2>6, <3>1
  <2>7. CASE ~v.done
    <3>1. c <= 0 /\ \A q \in 1 .. n : p - 1 < q => -t[q].delta < c BY <1>7, <1>13, <2>7
    <3>2. -e.delta < c BY <3>1 DEF e
    <3>3. u = 0 BY <1>3, <1>9, <3>1, <3>2, NoBlocks DEF u
    <3>4. k = 0 BY <1>3, <3>3 DEF k, Taken, DuckCharge, u
    <3>5. w.cprice = v.cprice /\ w.billsec = v.billsec /\ w.checksec = c
      BY <1>9, <1>11, <2>3, <2>7, <3>4
    <3>6. \A q \in 1 .. n : p < q => -t[q].delta < c BY <3>1
    <3> QED BY <1>7, <1>10, <2>4, <2>5, <3>1, <3>5, <3>6
  <2> QED BY <2>6, <2>7
<1>14. CASE ~v.done /\ c = x /\ x > 0
  <2>1. k = Taken(x, e) /\ u = CeilDiv(x, e.delta) BY <1>14 DEF k, u
  <2>2. k * e.fee \in Int /\ k * e.delta \in Int BY <1>2, <1>9, TakenIs DEF k
  <2>3. w.cprice = cost[p] /\ w.billsec = secs[p] /\ w.billsec + w.checksec = b
    BY <1>6, <1>7, <1>9, <1>11, <1>14, <2>1, <2>2
  <2>4. /\ u \in Int /\ u >= 1 /\ k \in Nat
        /\ e.iter # 0 /\ u <= e.iter =>
             k = u /\ x <= e.iter * e.delta /\ x - k * e.delta <= 0 /\ -e.delta < x - k * e.delta
        /\ e.iter # 0 /\ ~ (u <= e.iter) => k = e.iter /\ e.iter * e.delta < x
    BY <1>2, <1>5, <1>14, <2>1, SomeBlocks
  <2>5. y = IF e.iter = 0 \/ x <= e.iter * e.delta THEN 0 ELSE x - e.iter * e.delta
    BY <1>2, <1>5, LeftByIs
  <2>6. e.iter * e.delta \in Int BY <1>3
  <2>7. w.checksec = x - k * e.delta BY <1>11, <1>14
  <2>8. CASE e.iter = 0 BY <1>10, <1>11, <1>14, <2>3, <2>5, <2>8
  <2>9. CASE e.iter # 0 /\ u <= e.iter
    <3>1. y = 0 BY <2>4, <2>5, <2>9
    <3>2. CASE u = 1 BY <1>10, <1>11, <1>14, <2>3, <3>1, <3>2
    <3>3. CASE u # 1
      <4>1. e.iter # 1 BY <1>3, <2>4, <2>9, <3>3
      <4>2. \A q \in 1 .. n : p < q => e.delta <= t[q].delta BY <1>12, <2>9, <4>1
      <4>3. -e.delta < w.checksec /\ w.checksec <= 0 BY <2>4, <2>7, <2>9
      <4>4. w.checksec \in Int BY <1>5, <2>2, <2>7
      <4>5. ASSUME NEW q \in 1 .. n, p < q PROVE -t[q].delta < w.checksec
        <5>1. t[q].delta \in Nat /\ e.delta <= t[q].delta BY <1>8, <4>2, <4>5
        <5> QED BY <1>3, <4>3, <4>4, <5>1
      <4> QED BY <1>10, <2>3, <3>1, <4>3, <4>5
    <3> QED BY <3>2, <3>3
  <2>10. CASE e.iter # 0 /\ ~ (u <= e.iter)
    <3>1. k = e.iter /\ e.iter * e.delta < x BY <2>4, <2>10
    <3>2. y = x - e.iter * e.delta /\ y > 0 BY <1>5, <2>5, <2>6, <2>10, <3>1
    <3>3. w.checksec = y BY <2>7, <3>1, <3>2
    <3>4. ~w.done
      <4>1. u # 1 BY <1>3, <2>10
      <4> QED BY <1>11, <1>14, <2>10, <4>1
    <3> QED BY <1>10, <2>3, <3>2, <3>3, <3>4
  <2> QED BY <2>8, <2>9, <2>10
<1> QED BY <1>7, <1>13, <1>14

\* calc_cprice_2 charges for the started blocks of every steady tariff.
LEMMA PriceWhole ==
  ASSUME NEW t \in Tariffs, NEW n \in Nat, Len(t) = n, NEW b \in Nat, Steady(t)
  PROVE  \A p \in 0 .. n : PricedTo(t, b, p)
<1> DEFINE T == {p \in 0 .. n : PricedTo(t, b, p)}
<1>1. PricedTo(t, b, 0)
  <2>1. Walk(t, b)[0] = Walk0(b) BY WalkIs
  <2>2. Left(t, b)[0] = b BY LeftIs
  <2>3. Cost(t, b)[0] = 0 /\ Secs(t, b)[0] = 0 BY SumsAre
  <2>4. Walk0(b).cprice = 0 /\ Walk0(b).billsec = 0 /\ Walk0(b).checksec = b /\ ~Walk0(b).done
    BY DEF Walk0
  <2>5. \A q \in 1 .. n : 0 < t[q].delta /\ t[q].delta \in Nat
    <3>1. \A q \in 1 .. n : t[q] \in TariffSteps BY DEF Tariffs
    <3> QED BY <3>1 DEF TariffSteps
  <2>6. b = 0 => \A q \in 1 .. n : -t[q].delta < b BY <2>5
  <2> QED BY <2>1, <2>2, <2>3, <2>4, <2>6 DEF PricedTo
<1>2. 0 \in T BY <1>1
<1>3. ASSUME NEW p \in 1 .. n, p - 1 \in T PROVE p \in T
  <2>1. PricedTo(t, b, p - 1) /\ p \in 0 .. n BY <1>3
  <2> QED BY <2>1, PriceStep
<1>4. \A p \in 0 .. n : p \in T
  <2> HIDE DEF T
  <2> QED BY <1>2, <1>3, UpTo
<1> QED BY <1>4

\* The price and the seconds of a call are those of the reference.
LEMMA PriceIsRef ==
  ASSUME NEW t \in Tariffs, NEW b \in Nat, Steady(t)
  PROVE  /\ CalcCprice2(t, b).cprice = RefPrice(t, b).cprice
         /\ CalcCprice2(t, b).billsec = RefPrice(t, b).billsec
         /\ CalcCprice2(t, b).ok <=> CalcCprice2(t, b).billsec >= b
<1> DEFINE n == Len(t)
           w == Walk(t, b)[n]
<1>1. n \in Nat /\ n \in 0 .. n BY DEF Tariffs
<1>2. PricedTo(t, b, n)
  <2> HIDE DEF n
  <2>1. Len(t) = n BY DEF n
  <2> QED BY <1>1, <2>1, PriceWhole
<1>3. w.cprice = Cost(t, b)[n] /\ w.billsec = Secs(t, b)[n] /\ w.billsec + w.checksec = b
  BY <1>2 DEF PricedTo
<1>4. w \in Walks
  <2> HIDE DEF n
  <2>1. Len(t) = n BY DEF n
  <2>2. Walk(t, b) \in [0 .. n -> Walks] BY <1>1, <2>1, WalkIs
  <2> QED BY <1>1, <2>2
<1>5. w.billsec \in Int /\ w.checksec \in Int BY <1>4 DEF Walks
<1>6. RefPrice(t, b).cprice = Cost(t, b)[n] /\ RefPrice(t, b).billsec = Secs(t, b)[n]
  BY DEF RefPrice, Cost, Secs
<1>7. /\ CalcCprice2(t, b).cprice = w.cprice /\ CalcCprice2(t, b).billsec = w.billsec
      /\ CalcCprice2(t, b).ok <=> w.checksec <= 0
  BY DEF CalcCprice2
<1> HIDE DEF w
<1>8. w.checksec <= 0 <=> w.billsec >= b BY <1>3, <1>5
<1> QED BY <1>3, <1>6, <1>7, <1>8

------------------------------------------------------------------------------
(* The credit covers the seconds it allows *)

Credits == [maxsec : Nat, limit : Nat, done : BOOLEAN]

\* The blocks that calc_maxsec grants for a credit of l.
Granted(l, e) == DuckCharge(Affordable(l, e), e)

\* The blocks that are granted can be paid, and one more cannot unless it is free.
LEMMA GrantedIs ==
  ASSUME NEW l \in Nat, NEW e \in TariffSteps, NEW a, a = Affordable(l, e), NEW k, k = Granted(l, e)
  PROVE  /\ a \in Nat /\ k \in Nat
         /\ k = IF e.iter = 0 \/ a <= e.iter THEN a ELSE e.iter
         /\ k * e.fee \in Nat /\ k * e.fee <= l
         /\ e.fee = 0 => a = 1
         /\ e.fee > 0 => l < a * e.fee + e.fee
         /\ l < e.fee => a = 0
<1> DEFINE f == e.fee
           i == e.iter
<1>1. f \in Nat /\ i \in Nat BY DEF TariffSteps
<1>2. a = IF f > 0 THEN l \div f ELSE 1 BY DEF Affordable
<1>3. k = IF i = 0 \/ a <= i THEN a ELSE i BY DEF Granted, DuckCharge
<1> SUFFICES /\ a \in Nat /\ k \in Nat /\ k * f \in Nat /\ k * f <= l
             /\ f = 0 => a = 1
             /\ f > 0 => l < a * f + f
             /\ l < f => a = 0
  BY <1>3
<1> HIDE DEF f, i
<1>4. CASE f = 0
  <2>1. a = 1 /\ k \in Nat BY <1>1, <1>2, <1>3, <1>4
  <2>2. k * 0 = 0 BY <2>1
  <2> QED BY <1>1, <1>4, <2>1, <2>2
<1>5. CASE f > 0
  <2> DEFINE m == l % f
  <2>1. a = l \div f BY <1>2, <1>5
  <2>2. l \div f \in Nat /\ m \in 0 .. f - 1 BY <1>1, <1>5
  <2>3. l = f * (l \div f) + m BY <1>1, <1>5
  <2>4. a \in Nat /\ l = f * a + m /\ f * a = a * f /\ a * f \in Nat BY <1>1, <2>1, <2>2, <2>3
  <2> HIDE DEF m
  <2>5. k \in Nat /\ k <= a BY <1>1, <1>3, <2>4
  <2>6. k * f <= a * f BY <1>1, <2>4, <2>5, TimesMonotone
  <2>7. k * f \in Nat BY <1>1, <2>5
  <2>8. k * f <= l /\ l < a * f + f BY <1>1, <2>2, <2>4, <2>6, <2>7
  <2>9. l < f => a = 0
    <3> SUFFICES ASSUME l < f, 1 <= a PROVE FALSE BY <2>4
    <3>1. 1 * f <= a * f /\ 1 * f = f BY <1>1, <2>4, TimesMonotone
    <3> QED BY <1>1, <2>2, <2>4, <3>1
  <2> QED BY <1>5, <2>4, <2>5, <2>7, <2>8, <2>9
<1> QED BY <1>1, <1>4, <1>5

\* A step of calc_maxsec without free seconds.
LEMMA MaxsecStepIs ==
  ASSUME NEW s \in Credits, NEW e \in TariffSteps, NEW free \in Int, free <= 0,
         NEW r, r = MaxsecStep(s, e, free)
  PROVE  /\ r \in Credits
         /\ s.done => r = s
         /\ ~s.done /\ s.limit = 0 => r.maxsec = s.maxsec /\ r.limit = s.limit /\ r.done
         /\ ~s.done /\ s.limit > 0 =>
              /\ r.maxsec = s.maxsec + Granted(s.limit, e) * e.delta
              /\ r.limit = s.limit - Granted(s.limit, e) * e.fee
              /\ r.done <=> e.iter = 0
<1> DEFINE u == Affordable(s.limit, e)
           k == Granted(s.limit, e)
           x == k * e.delta
           y == k * e.fee
           d == e.iter = 0
<1>1. s.maxsec \in Nat /\ s.limit \in Nat /\ s.done \in BOOLEAN BY DEF Credits
<1>2. e.delta \in Nat /\ e.iter \in Nat BY DEF TariffSteps
<1>3. u \in Nat /\ k \in Nat /\ y \in Nat /\ y <= s.limit BY <1>1, GrantedIs
<1>4. x \in Nat BY <1>2, <1>3
<1>5. (IF e.iter = 0 THEN u ELSE Min({u, e.iter})) = k
  <2> HIDE DEF u
  <2>1. Min({u, e.iter}) = IF u <= e.iter THEN u ELSE e.iter BY <1>2, <1>3, MinPair
  <2> QED BY <2>1 DEF Granted, DuckCharge, u
<1>6. r = CASE s.done -> s
            [] ~s.done /\ s.limit <= 0 -> [s EXCEPT !.maxsec = s.maxsec, !.done = TRUE]
            [] OTHER -> [maxsec |-> s.maxsec + x, limit |-> s.limit - y, done |-> d]
  <2>1. (IF free > 0 /\ s.maxsec < e.delta THEN 0 ELSE s.maxsec) = s.maxsec OBVIOUS
  <2> HIDE DEF u, k
  <2> QED BY <1>5, <2>1 DEF MaxsecStep, u
<1> HIDE DEF x, y, k
<1>7. d \in BOOLEAN OBVIOUS
<1> HIDE DEF d
<1>8. CASE s.done BY <1>6, <1>8
<1>9. CASE ~s.done /\ s.limit = 0
  <2>1. r = [s EXCEPT !.maxsec = s.maxsec, !.done = TRUE] BY <1>6, <1>9
  <2>2. r = [maxsec |-> s.maxsec, limit |-> s.limit, done |-> TRUE] BY <2>1 DEF Credits
  <2>3. r \in Credits /\ r.maxsec = s.maxsec /\ r.limit = s.limit /\ r.done = TRUE
    BY <1>1, <2>2 DEF Credits
  <2> QED BY <1>9, <2>3
<1>10. CASE ~s.done /\ s.limit > 0
  <2>1. r = [maxsec |-> s.maxsec + x, limit |-> s.limit - y, done |-> d] BY <1>1, <1>6, <1>10
  <2>2. s.maxsec + x \in Nat /\ s.limit - y \in Nat BY <1>1, <1>3, <1>4
  <2>3. r \in Credits BY <1>7, <2>1, <2>2 DEF Credits
  <2>4. r.maxsec = s.maxsec + x /\ r.limit = s.limit - y /\ r.done = d BY <2>1
  <2>5. r.done <=> e.iter = 0 BY <2>4 DEF d
  <2>6. r.maxsec = s.maxsec + k * e.delta /\ r.limit = s.limit - k * e.fee BY <2>4 DEF x, y
  <2> QED BY <1>10, <2>3, <2>5, <2>6 DEF k
<1> QED BY <1>1, <1>8, <1>9, <1>10

\* A walk of calc_maxsec without free seconds.
MaxsecWalked(t, w, free) ==
  /\ free \in Int /\ free <= 0
  /\ w \in [0 .. Len(t) -> Credits]
  /\ \A p \in 1 .. Len(t) : w[p] = MaxsecStep(w[p - 1], t[p], free)

\* calc_maxsec is such a walk, from the whole credit.
LEMMA MaxsecIs ==
  ASSUME NEW t \in Tariffs, NEW n \in Nat, Len(t) = n,
         NEW limit \in Nat, NEW free \in Int, free <= 0, NEW cap \in Nat
  PROVE  /\ MaxsecWalked(t, MaxsecWalk(t, limit, free, cap), free)
         /\ MaxsecWalk(t, limit, free, cap)[0] = Maxsec0(limit, free, cap)
<1> DEFINE S == Credits
           a == Maxsec0(limit, free, cap)
           H(w) == [p \in 0 .. n |-> IF p = 0 THEN a ELSE MaxsecStep(w[p - 1], t[p], free)]
           F == [x \in (1 .. n) \X S |-> MaxsecStep(x[2], t[x[1]], free)]
           h == CHOOSE w : w = H(w)
<1>1. F \in [(1 .. n) \X S -> S]
  <2>1. ASSUME NEW p \in 1 .. n, NEW s \in S PROVE MaxsecStep(s, t[p], free) \in S
    <3>1. t[p] \in TariffSteps BY DEF Tariffs
    <3> QED BY <3>1, MaxsecStepIs
  <2> HIDE DEF S
  <2> QED BY <2>1
<1>2. \A p \in 1 .. n, s \in S : F[<<p, s>>] = MaxsecStep(s, t[p], free) OBVIOUS
<1>3. a \in S
  <2>1. Max({free, 0}) = 0 BY MaxPair
  <2> QED BY <2>1 DEF Maxsec0, Credits
<1> HIDE DEF a
<1>4. \E f : f = H(f)
  <2> HIDE DEF F, S
  <2>1. PICK f \in [0 .. n -> S] : f[0] = a /\ \A p \in 1 .. n : f[p] = F[<<p, f[p - 1]>>]
    BY <1>1, <1>3, Iterates
  <2>2. ASSUME NEW p \in 1 .. n PROVE f[p] = MaxsecStep(f[p - 1], t[p], free)
    <3>1. f[p - 1] \in S BY <2>1
    <3> QED BY <1>2, <2>1, <3>1
  <2>3. f = H(f) BY <2>1, <2>2
  <2> HIDE DEF H
  <2> QED BY <2>3
<1>5. h = H(h)
  <2> HIDE DEF H
  <2> QED BY <1>4
<1>6. MaxsecWalk(t, limit, free, cap) = h BY DEF MaxsecWalk, a
<1> HIDE DEF h, F
<1>7. /\ h = [p \in 0 .. n |-> h[p]] /\ h[0] = a
      /\ \A p \in 1 .. n : h[p] = MaxsecStep(h[p - 1], t[p], free)
  <2>1. DOMAIN h = 0 .. n /\ h = [p \in 0 .. n |-> h[p]] BY <1>5
  <2>2. ASSUME NEW p \in 0 .. n PROVE h[p] = IF p = 0 THEN a ELSE MaxsecStep(h[p - 1], t[p], free)
    BY <1>5
  <2>3. h[0] = a BY <2>2
  <2>4. ASSUME NEW p \in 1 .. n PROVE h[p] = MaxsecStep(h[p - 1], t[p], free)
    <3>1. p \in 0 .. n /\ p # 0 OBVIOUS
    <3> QED BY <2>2, <3>1
  <2> QED BY <2>1, <2>3, <2>4
<1>8. h \in [0 .. n -> S]
  <2> HIDE DEF S
  <2>1. \A p \in 1 .. n : h[p - 1] \in S => h[p] = F[<<p, h[p - 1]>>] BY <1>2, <1>7
  <2>2. h[0] \in S BY <1>3, <1>7
  <2>3. h = [p \in 0 .. n |-> h[p]] BY <1>7
  <2> QED BY <1>1, <2>1, <2>2, <2>3, StaysTyped
<1>9. MaxsecWalked(t, h, free) BY <1>7, <1>8 DEF MaxsecWalked
<1> QED BY <1>6, <1>7, <1>9 DEF a

\* Later steps grant nothing: the walk has ended or the credit pays no later block.
Quiet(t, s, p) == s.done \/ s.limit = 0 \/ \A q \in 1 .. Len(t) : p < q => s.limit < t[q].fee

\* The fees rise over any number of steps.
LEMMA FeesRise ==
  ASSUME NEW t \in Tariffs, NEW n \in Nat, Len(t) = n, Rising(t)
  PROVE  \A p, q \in 1 .. n : p <= q => t[p].fee <= t[q].fee
<1> DEFINE T == {q \in 0 .. n : \A p \in 1 .. n : p <= q => t[p].fee <= t[q].fee}
<1>1. \A p \in 1 .. n : t[p].fee \in Nat
  <2>1. \A p \in 1 .. n : t[p] \in TariffSteps BY DEF Tariffs
  <2> QED BY <2>1 DEF TariffSteps
<1>2. 0 \in T OBVIOUS
<1>3. ASSUME NEW q \in 1 .. n, q - 1 \in T PROVE q \in T
  <2>1. ASSUME NEW p \in 1 .. n, p <= q PROVE t[p].fee <= t[q].fee
    <3>1. CASE p = q BY <1>1, <3>1
    <3>2. CASE p # q
      <4>1. p <= q - 1 /\ q - 1 \in 1 .. n - 1 /\ q - 1 \in 1 .. n BY <2>1, <3>2
      <4>2. t[p].fee <= t[q - 1].fee BY <1>3, <4>1
      <4>3. t[q - 1].fee <= t[(q - 1) + 1].fee /\ (q - 1) + 1 = q BY <4>1 DEF Rising
      <4> QED BY <1>1, <4>1, <4>2, <4>3
    <3> QED BY <3>1, <3>2
  <2> QED BY <2>1
<1>4. \A q \in 0 .. n : q \in T
  <2> HIDE DEF T
  <2> QED BY <1>2, <1>3, UpTo
<1> QED BY <1>4

\* A step of calc_maxsec never takes seconds back, and grants none once it is quiet.
LEMMA MaxsecGrows ==
  ASSUME NEW t \in Tariffs, NEW n \in Nat, Len(t) = n, NEW w, NEW free, MaxsecWalked(t, w, free),
         NEW p \in 1 .. n
  PROVE  /\ w[p - 1].maxsec <= w[p].maxsec
         /\ Quiet(t, w[p - 1], p - 1) => Quiet(t, w[p], p) /\ w[p].maxsec = w[p - 1].maxsec
<1> DEFINE s == w[p - 1]
           r == w[p]
           e == t[p]
           k == Granted(s.limit, e)
<1>1. s \in Credits /\ r = MaxsecStep(s, e, free) /\ free \in Int /\ free <= 0
  <2>1. p - 1 \in 0 .. n OBVIOUS
  <2> QED BY <2>1 DEF MaxsecWalked
<1>2. e \in TariffSteps BY DEF Tariffs
<1>3. Quiet(t, s, p - 1) <=> s.done \/ s.limit = 0 \/ \A q \in 1 .. n : p - 1 < q => s.limit < t[q].fee
  BY DEF Quiet
<1>4. Quiet(t, r, p) <=> r.done \/ r.limit = 0 \/ \A q \in 1 .. n : p < q => r.limit < t[q].fee
  BY DEF Quiet
<1>5. Quiet(t, s, p - 1) => s.done \/ s.limit = 0 \/ s.limit < e.fee BY <1>3
<1>6. \A q \in 1 .. n : p < q => p - 1 < q OBVIOUS
<1> HIDE DEF s, r, e, k
<1>7. s.limit \in Nat /\ s.maxsec \in Nat /\ s.done \in BOOLEAN BY <1>1 DEF Credits
<1>8. e.delta \in Nat /\ e.fee \in Nat /\ e.iter \in Nat BY <1>2 DEF TariffSteps
<1>9. /\ s.done => r = s
      /\ ~s.done /\ s.limit = 0 => r.maxsec = s.maxsec /\ r.limit = s.limit /\ r.done
      /\ ~s.done /\ s.limit > 0 => /\ r.maxsec = s.maxsec + k * e.delta
                                   /\ r.limit = s.limit - k * e.fee
  BY <1>1, <1>2, MaxsecStepIs DEF k
<1>10. k \in Nat /\ (s.limit < e.fee => k = 0)
  <2> DEFINE a == Affordable(s.limit, e)
  <2>1. a \in Nat /\ k \in Nat /\ (k = IF e.iter = 0 \/ a <= e.iter THEN a ELSE e.iter)
        /\ (s.limit < e.fee => a = 0)
    <3> DEFINE l == s.limit
    <3>1. l \in Nat /\ a = Affordable(l, e) /\ k = Granted(l, e) BY <1>7 DEF k
    <3> HIDE DEF a, l
    <3>2. /\ a \in Nat /\ k \in Nat /\ (k = IF e.iter = 0 \/ a <= e.iter THEN a ELSE e.iter)
          /\ l < e.fee => a = 0
      BY <1>2, <3>1, GrantedIs
    <3> QED BY <3>2 DEF l
  <2> HIDE DEF a
  <2> QED BY <1>8, <2>1
<1>11. k * e.delta \in Nat BY <1>8, <1>10
<1>12. s.maxsec <= r.maxsec
  <2>1. CASE s.done BY <1>7, <1>9, <2>1
  <2>2. CASE ~s.done /\ s.limit = 0 BY <1>7, <1>9, <2>2
  <2>3. CASE ~s.done /\ s.limit > 0 BY <1>7, <1>9, <1>11, <2>3
  <2> QED BY <1>7, <2>1, <2>2, <2>3
<1>13. ASSUME Quiet(t, s, p - 1) PROVE Quiet(t, r, p) /\ r.maxsec = s.maxsec
  <2>1. CASE s.done BY <1>4, <1>9, <2>1
  <2>2. CASE ~s.done /\ s.limit = 0 BY <1>4, <1>9, <2>2
  <2>3. CASE ~s.done /\ s.limit > 0
    <3>1. s.limit < e.fee /\ \A q \in 1 .. n : p - 1 < q => s.limit < t[q].fee
      BY <1>3, <1>5, <1>7, <1>13, <2>3
    <3>2. k = 0 BY <1>10, <3>1
    <3>3. 0 * e.delta = 0 /\ 0 * e.fee = 0 BY <1>8
    <3>4. r.maxsec = s.maxsec /\ r.limit = s.limit BY <1>7, <1>9, <2>3, <3>2, <3>3
    <3> QED BY <1>4, <1>6, <3>1, <3>4
  <2> QED BY <1>7, <2>1, <2>2, <2>3
<1> QED BY <1>12, <1>13 DEF s, r

\* From a quiet step on the seconds stay, and from any step on they do not shrink.
LEMMA MaxsecEnds ==
  ASSUME NEW t \in Tariffs, NEW n \in Nat, Len(t) = n, NEW w, NEW free, MaxsecWalked(t, w, free),
         NEW p \in 0 .. n
  PROVE  /\ w[p].maxsec <= w[n].maxsec
         /\ Quiet(t, w[p], p) => w[n].maxsec = w[p].maxsec
<1> DEFINE Far(q) == /\ w[p].maxsec <= w[q].maxsec
                     /\ Quiet(t, w[p], p) => Quiet(t, w[q], q) /\ w[q].maxsec = w[p].maxsec
           T == {q \in 0 .. n : p <= q => Far(q)}
<1>1. \A q \in 0 .. n : w[q].maxsec \in Nat
  <2>1. \A q \in 0 .. n : w[q] \in Credits BY DEF MaxsecWalked
  <2> QED BY <2>1 DEF Credits
<1>2. Far(p) BY <1>1
<1>3. 0 \in T
  <2> HIDE DEF Far
  <2> QED BY <1>2
<1>4. ASSUME NEW q \in 1 .. n, q - 1 \in T PROVE q \in T
  <2>1. /\ w[q - 1].maxsec <= w[q].maxsec
        /\ Quiet(t, w[q - 1], q - 1) => Quiet(t, w[q], q) /\ w[q].maxsec = w[q - 1].maxsec
    BY MaxsecGrows
  <2>2. Far(q - 1) => Far(q)
    <3>1. q - 1 \in 0 .. n /\ q \in 0 .. n OBVIOUS
    <3>2. w[p].maxsec \in Nat /\ w[q - 1].maxsec \in Nat /\ w[q].maxsec \in Nat BY <1>1, <3>1
    <3> QED BY <2>1, <3>2
  <2> HIDE DEF Far
  <2>3. p <= q => p = q \/ p <= q - 1 OBVIOUS
  <2> QED BY <1>2, <1>4, <2>2, <2>3
<1>5. \A q \in 0 .. n : q \in T
  <2> HIDE DEF T
  <2> QED BY <1>3, <1>4, UpTo
<1>6. Far(n)
  <2> HIDE DEF Far
  <2> QED BY <1>5
<1> QED BY <1>6

\* A step charges no more blocks than it covers, and than reach over the seconds.
LEMMA TakenBound ==
  ASSUME NEW z \in Nat, NEW e \in TariffSteps, NEW g, g = Taken(z, e)
  PROVE  /\ g \in Int
         /\ e.iter # 0 => g <= e.iter
         /\ \A k \in Nat : z <= k * e.delta => g <= k
         /\ z = 0 => g = 0
<1> DEFINE u == CeilDiv(z, e.delta)
           d == e.delta
<1>1. d \in Nat \ {0} /\ e.iter \in Nat BY DEF TariffSteps
<1>2. u \in Int /\ u * d < z + d
  <2>1. u = CeilDiv(z, d) /\ z \in Int OBVIOUS
  <2> HIDE DEF d, u
  <2> QED BY <1>1, <2>1, CeilDivFacts
<1>3. g = IF e.iter = 0 \/ u <= e.iter THEN u ELSE e.iter BY DEF Taken, DuckCharge
<1>4. z = 0 => u = 0 BY <1>1, NoBlocks
<1> SUFFICES /\ g \in Int
             /\ e.iter # 0 => g <= e.iter
             /\ \A k \in Nat : z <= k * d => g <= k
             /\ z = 0 => g = 0
  OBVIOUS
<1> HIDE DEF u, d
<1>5. ASSUME NEW k \in Nat, z <= k * d PROVE u <= k
  <2> SUFFICES ASSUME k + 1 <= u PROVE FALSE BY <1>2
  <2>1. (k + 1) * d <= u * d /\ u * d \in Int BY <1>1, <1>2, TimesMonotone
  <2>2. (k + 1) * d = k * d + d /\ k * d \in Int BY <1>1
  <2> QED BY <1>1, <1>2, <1>5, <2>1, <2>2
<1>6. g \in Int /\ g <= u /\ (e.iter # 0 => g <= e.iter) BY <1>1, <1>2, <1>3
<1>7. \A k \in Nat : z <= k * d => g <= k
  <2> SUFFICES ASSUME NEW k \in Nat, z <= k * d PROVE g <= k OBVIOUS
  <2>1. u <= k BY <1>5
  <2> QED BY <1>2, <1>6, <2>1
<1>8. z = 0 => g = 0 BY <1>1, <1>3, <1>4
<1> QED BY <1>6, <1>7, <1>8

\* After p steps a call of x seconds has no more left than calc_maxsec still grants,
\* and has cost no more than calc_maxsec has spent.
Within(t, w, x, p) ==
  /\ Left(t, x)[p] + w[p].maxsec <= w[Len(t)].maxsec
  /\ Cost(t, x)[p] + w[p].limit <= w[0].limit

\* A step keeps the call within the credit.
LEMMA CreditStep ==
  ASSUME NEW t \in Tariffs, NEW n \in Nat, Len(t) = n, Rising(t), NEW x \in Nat,
         NEW w, NEW free, MaxsecWalked(t, w, free), NEW p \in 1 .. n, Within(t, w, x, p - 1)
  PROVE  Within(t, w, x, p)
<1> DEFINE s == w[p - 1]
           r == w[p]
           e == t[p]
           k == Granted(s.limit, e)
           z == Left(t, x)[p - 1]
           y == Left(t, x)[p]
           g == Taken(z, e)
           c == Cost(t, x)[p - 1]
           b == Cost(t, x)[p]
           M == w[n].maxsec
           l0 == w[0].limit
<1>1. p - 1 \in 0 .. n /\ p \in 0 .. n /\ n \in 0 .. n /\ 0 \in 0 .. n OBVIOUS
<1>2. /\ s \in Credits /\ r \in Credits /\ w[n] \in Credits /\ w[0] \in Credits
      /\ r = MaxsecStep(s, e, free) /\ free \in Int /\ free <= 0
  BY <1>1 DEF MaxsecWalked
<1>3. e \in TariffSteps BY DEF Tariffs
<1>4. z \in Nat /\ y = LeftBy(z, e)
  <2>1. Left(t, x) \in [0 .. n -> Nat] BY LeftIs
  <2>2. Left(t, x)[p] = LeftBy(z, e) BY LeftIs
  <2> QED BY <1>1, <2>1, <2>2
<1>5. c \in Int /\ b = c + g * e.fee
  <2>1. Cost(t, x) \in [0 .. n -> Int] BY SumsAre
  <2>2. b = c + g * e.fee BY SumsAre
  <2> QED BY <1>1, <2>1, <2>2
<1>6. z + s.maxsec <= M /\ c + s.limit <= l0 BY DEF Within
<1>7. r.maxsec <= M /\ (Quiet(t, s, p - 1) => M = s.maxsec) /\ (Quiet(t, r, p) => M = r.maxsec)
  BY <1>1, MaxsecEnds
<1>8. s.done \/ s.limit = 0 => Quiet(t, s, p - 1) BY DEF Quiet
<1>9. r.limit < e.fee => Quiet(t, r, p)
  <2> SUFFICES ASSUME r.limit < e.fee, NEW q \in 1 .. n, p < q PROVE r.limit < t[q].fee
    BY DEF Quiet
  <2>1. e.fee <= t[q].fee BY FeesRise
  <2>2. e.fee \in Nat /\ t[q] \in TariffSteps /\ r.limit \in Nat
    <3>1. t[q] \in TariffSteps BY DEF Tariffs
    <3>2. e.fee \in Nat BY <1>3 DEF TariffSteps
    <3>3. r.limit \in Nat BY <1>2 DEF Credits
    <3> QED BY <3>1, <3>2, <3>3
  <2>3. t[q].fee \in Nat BY <2>2 DEF TariffSteps
  <2> QED BY <2>1, <2>2, <2>3
<1> SUFFICES y + r.maxsec <= M /\ b + r.limit <= l0
  BY DEF Within
<1> HIDE DEF s, r, e, k, z, y, g, c, b, M, l0
<1>10. /\ s.limit \in Nat /\ s.maxsec \in Nat /\ s.done \in BOOLEAN
       /\ r.limit \in Nat /\ r.maxsec \in Nat
       /\ M \in Nat /\ l0 \in Nat
  BY <1>2 DEF Credits, M, l0
<1>11. e.delta \in Nat \ {0} /\ e.fee \in Nat /\ e.iter \in Nat BY <1>3 DEF TariffSteps
<1>12. /\ s.done => r = s
       /\ ~s.done /\ s.limit = 0 => r.maxsec = s.maxsec /\ r.limit = s.limit /\ r.done
       /\ ~s.done /\ s.limit > 0 => /\ r.maxsec = s.maxsec + k * e.delta
                                    /\ r.limit = s.limit - k * e.fee
                                    /\ r.done <=> e.iter = 0
  BY <1>2, <1>3, MaxsecStepIs DEF k
<1>13. y = (IF e.iter = 0 \/ z <= e.iter * e.delta THEN 0 ELSE z - e.iter * e.delta)
       /\ y \in Nat
  BY <1>3, <1>4, LeftByIs
<1>14. /\ g \in Int
       /\ e.iter # 0 => g <= e.iter
       /\ \A j \in Nat : z <= j * e.delta => g <= j
       /\ z = 0 => g = 0
  BY <1>3, <1>4, TakenBound DEF g
<1>15. g * e.fee \in Int /\ e.iter * e.delta \in Nat BY <1>11, <1>14
<1>16. CASE s.done \/ s.limit = 0
  <2>1. z = 0 BY <1>4, <1>6, <1>7, <1>8, <1>10, <1>16
  <2>2. y = 0 BY <1>13, <1>15, <2>1
  <2>3. 0 * e.fee = 0 BY <1>11
  <2>4. b = c BY <1>5, <1>14, <2>1, <2>3
  <2>5. r.maxsec = s.maxsec /\ r.limit = s.limit BY <1>12, <1>16
  <2> QED BY <1>6, <1>7, <1>10, <2>2, <2>4, <2>5
<1>17. CASE ~s.done /\ s.limit > 0
  <2> DEFINE a == Affordable(s.limit, e)
  <2>1. /\ a \in Nat /\ k \in Nat /\ (k = IF e.iter = 0 \/ a <= e.iter THEN a ELSE e.iter)
        /\ (e.fee > 0 => s.limit < a * e.fee + e.fee)
    <3> DEFINE l == s.limit
    <3>1. l \in Nat /\ a = Affordable(l, e) /\ k = Granted(l, e) BY <1>10 DEF k
    <3> HIDE DEF a, l
    <3>2. /\ a \in Nat /\ k \in Nat /\ (k = IF e.iter = 0 \/ a <= e.iter THEN a ELSE e.iter)
          /\ (e.fee > 0 => l < a * e.fee + e.fee)
      BY <1>3, <3>1, GrantedIs
    <3> QED BY <3>2 DEF l
  <2> HIDE DEF a
  <2>2. r.maxsec = s.maxsec + k * e.delta /\ r.limit = s.limit - k * e.fee BY <1>12, <1>17
  <2>3. k * e.delta \in Nat /\ k * e.fee \in Nat BY <1>11, <2>1
  <2>4. y + r.maxsec <= M
    <3>1. CASE y = 0 BY <1>7, <1>10, <3>1
    <3>2. CASE y # 0
      <4> DEFINE kd == k * e.delta
                 id == e.iter * e.delta
      <4>1. e.iter # 0 /\ y = z - id BY <1>13, <3>2
      <4>2. k <= e.iter BY <1>11, <2>1, <4>1
      <4>3. kd <= id
        <5> DEFINE d == e.delta
                   i == e.iter
        <5>1. d \in Nat /\ i \in Int /\ k \in Int /\ k <= i BY <1>11, <2>1, <4>2
        <5> HIDE DEF d, i
        <5>2. k * d <= i * d BY <5>1, TimesMonotone
        <5> QED BY <5>2 DEF d, i
      <4>4. kd \in Nat /\ id \in Nat /\ r.maxsec = s.maxsec + kd BY <1>15, <2>2, <2>3
      <4> HIDE DEF kd, id
      <4> QED BY <1>4, <1>6, <1>10, <4>1, <4>3, <4>4
    <3> QED BY <3>1, <3>2
  <2>5. g <= k => g * e.fee <= k * e.fee
    <3> DEFINE f == e.fee
    <3>1. f \in Nat /\ g \in Int /\ k \in Int BY <1>11, <1>14, <2>1
    <3> HIDE DEF f
    <3>2. g <= k => g * f <= k * f BY <3>1, TimesMonotone
    <3> QED BY <3>2 DEF f
  <2>6. g * e.fee <= k * e.fee
    <3>1. CASE e.fee = 0
      <4>1. g * 0 = 0 /\ k * 0 = 0 BY <1>14, <2>1
      <4> QED BY <3>1, <4>1
    <3>2. CASE e.fee > 0
      <4>1. CASE e.iter # 0 /\ ~ (a <= e.iter)
        <5>1. g <= k BY <1>14, <2>1, <4>1
        <5> QED BY <2>5, <5>1
      <4>2. CASE e.iter = 0 \/ a <= e.iter
        <5>1. k = a BY <2>1, <4>2
        <5>2. s.limit < k * e.fee + e.fee BY <2>1, <3>2, <5>1
        <5>3. r.limit < e.fee BY <1>10, <1>11, <2>2, <2>3, <5>2
        <5>4. M = s.maxsec + k * e.delta BY <1>7, <1>9, <2>2, <5>3
        <5>5. z <= k * e.delta BY <1>4, <1>6, <1>10, <2>3, <5>4
        <5>6. g <= k BY <1>14, <2>1, <5>5
        <5> QED BY <2>5, <5>6
      <4> QED BY <4>1, <4>2
    <3> QED BY <1>11, <3>1, <3>2
  <2>7. b + r.limit <= l0
    <3> DEFINE gf == g * e.fee
               kf == k * e.fee
    <3>1. gf \in Int /\ kf \in Nat /\ gf <= kf /\ b = c + gf /\ r.limit = s.limit - kf
      BY <1>5, <1>15, <2>2, <2>3, <2>6
    <3> HIDE DEF gf, kf
    <3> QED BY <1>5, <1>6, <1>10, <3>1
  <2> QED BY <2>4, <2>7
<1> QED BY <1>10, <1>16, <1>17

\* The price of a call of at most the granted seconds is within the credit.
LEMMA CreditCovers ==
  ASSUME NEW t \in Tariffs, NEW limit \in Nat, NEW free \in Int, free <= 0, NEW cap \in Nat,
         Steady(t), Rising(t), NEW x, x = CalcMaxsec(t, limit, free, cap)
  PROVE  CalcCprice2(t, x).cprice <= limit
<1> DEFINE n == Len(t)
           w == MaxsecWalk(t, limit, free, cap)
           m == w[n].maxsec
           T == {p \in 0 .. n : Within(t, w, x, p)}
<1>1. n \in Nat BY DEF Tariffs
<1>2. Len(t) = n OBVIOUS
<1>3. x = Min({cap, m}) BY DEF CalcMaxsec
<1> HIDE DEF n
<1>4. w[0] = Maxsec0(limit, free, cap) BY <1>1, <1>2, MaxsecIs
<1>5. MaxsecWalked(t, w, free) BY <1>1, <1>2, MaxsecIs
<1> HIDE DEF w
<1>6. w[0].maxsec = 0 /\ w[0].limit = limit
  <2>1. Max({free, 0}) = 0 BY MaxPair
  <2> QED BY <1>4, <2>1 DEF Maxsec0
<1>7. n \in 0 .. n /\ 0 \in 0 .. n BY <1>1
<1>8. m \in Nat /\ w[n].limit \in Nat
  <2>1. w[n] \in Credits BY <1>2, <1>5, <1>7 DEF MaxsecWalked
  <2> QED BY <2>1 DEF Credits
<1> HIDE DEF m
<1>9. x \in Nat /\ x <= m
  <2>1. Min({cap, m}) = IF cap <= m THEN cap ELSE m BY <1>8, MinPair
  <2> QED BY <1>3, <1>8, <2>1
<1>10. 0 \in T
  <2>1. Left(t, x)[0] = x BY <1>1, <1>2, <1>9, LeftIs
  <2>2. Cost(t, x)[0] = 0 BY <1>1, <1>2, <1>9, SumsAre
  <2>3. Within(t, w, x, 0) BY <1>2, <1>6, <1>9, <2>1, <2>2 DEF Within, m
  <2> QED BY <1>7, <2>3
<1>11. ASSUME NEW p \in 1 .. n, p - 1 \in T PROVE p \in T
  <2>1. Within(t, w, x, p - 1) BY <1>11
  <2>2. Within(t, w, x, p) BY <1>1, <1>2, <1>5, <1>9, <2>1, CreditStep
  <2> QED BY <1>1, <2>2
<1>12. n \in T
  <2> HIDE DEF T
  <2> QED BY <1>1, <1>7, <1>10, <1>11, UpTo
<1>13. Cost(t, x)[n] + w[n].limit <= limit BY <1>6, <1>12 DEF Within
<1>14. Cost(t, x)[n] \in Int
  <2>1. Cost(t, x) \in [0 .. n -> Int] BY <1>1, <1>2, <1>9, SumsAre
  <2> QED BY <1>7, <2>1
<1>15. CalcCprice2(t, x).cprice = Cost(t, x)[n]
  <2>1. CalcCprice2(t, x).cprice = RefPrice(t, x).cprice BY <1>9, PriceIsRef
  <2>2. RefPrice(t, x).cprice = Cost(t, x)[n] BY <1>2 DEF RefPrice, Cost
  <2> QED BY <2>1, <2>2
<1> QED BY <1>8, <1>13, <1>14, <1>15

------------------------------------------------------------------------------
(* The selection *)

\* The longest of the prefixes of a number comes first in the order of the select.
LEMMA LongerFirst ==
  ASSUME NEW r, NEW q, NEW n \in Seq(Digits),
         r.prefix \in RatePrefixes, q.prefix \in RatePrefixes, PrefixFits(r, n), PrefixFits(q, n),
         PrefixLen(r) < PrefixLen(q)
  PROVE  InOrder(q, r)
<1> DEFINE a == r.prefix
           b == q.prefix
<1>1. b # Wildcard
  <2>1. PrefixLen(r) \in Nat
    <3>1. a = Wildcard \/ Len(a) \in Nat BY DEF RatePrefixes
    <3> QED BY <3>1 DEF PrefixLen
  <2>2. b = Wildcard => PrefixLen(q) = 0 BY DEF PrefixLen
  <2> QED BY <2>1, <2>2
<1>2. b \in Seq(Digits) /\ IsPrefix(b, n) /\ PrefixLen(q) = Len(b)
  BY <1>1 DEF RatePrefixes, PrefixFits, PrefixLen
<1>3. CASE a = Wildcard
  <2>1. Len(b) > 0 BY <1>2, <1>3 DEF PrefixLen
  <2>2. 1 \in DOMAIN b /\ b[1] \in Digits BY <1>2, <2>1
  <2>3. 1 \in DOMAIN a /\ a[1] = -1 BY <1>3 DEF Wildcard
  <2>4. a[1] < b[1] BY <2>2, <2>3 DEF Digits
  <2>5. \A j \in 1 .. 1 - 1 : a[j] = b[j] OBVIOUS
  <2>6. 1 \in DOMAIN a \cap DOMAIN b BY <2>2, <2>3
  <2>7. LexLess(a, b) BY <2>4, <2>5, <2>6 DEF LexLess
  <2> QED BY <2>7 DEF InOrder
<1>4. CASE a # Wildcard
  <2>1. a \in Seq(Digits) /\ IsPrefix(a, n) /\ Len(a) < Len(b)
    BY <1>2, <1>4 DEF RatePrefixes, PrefixFits, PrefixLen
  <2>2. a # b BY <1>2, <2>1
  <2>3. IsPrefix(a, b)
    <3>1. Len(b) <= Len(n) /\ SubSeq(b, 1, Len(b)) = SubSeq(n, 1, Len(b)) BY <1>2 DEF IsPrefix
    <3>2. Len(a) <= Len(n) /\ SubSeq(a, 1, Len(a)) = SubSeq(n, 1, Len(a)) BY <2>1 DEF IsPrefix
    <3>3. \A j \in 1 .. Len(b) : b[j] = n[j]
      <4>1. \A j \in 1 .. Len(b) : SubSeq(b, 1, Len(b))[j] = b[j] BY <1>2
      <4>2. \A j \in 1 .. Len(b) : SubSeq(n, 1, Len(b))[j] = n[j] BY <1>2, <3>1
      <4> QED BY <3>1, <4>1, <4>2
    <3>4. SubSeq(n, 1, Len(a)) = SubSeq(b, 1, Len(a))
      <4>1. \A j \in 1 .. Len(a) : n[j] = b[j] BY <1>2, <2>1, <3>3
      <4>2. SubSeq(n, 1, Len(a)) = [j \in 1 .. Len(a) |-> n[j]] BY <2>1, <3>2
      <4>3. SubSeq(b, 1, Len(a)) = [j \in 1 .. Len(a) |-> b[j]] BY <1>2, <2>1
      <4> QED BY <4>1, <4>2, <4>3
    <3> QED BY <1>2, <2>1, <3>2, <3>4 DEF IsPrefix
  <2> QED BY <2>2, <2>3 DEF LexLess, InOrder
<1> QED BY <1>3, <1>4

\* The place of a rate among those that fit a number: the empty prefix, "&", digits.
Rank(r) == IF r.prefix = Wildcard THEN 1 ELSE IF Len(r.prefix) = 0 THEN 0 ELSE Len(r.prefix) + 1

\* A rate of no smaller rank does not come later.
LEMMA HighestFirst ==
  ASSUME NEW r, NEW q, NEW n \in Seq(Digits),
         r.prefix \in RatePrefixes, q.prefix \in RatePrefixes, PrefixFits(r, n), PrefixFits(q, n),
         Rank(q) <= Rank(r)
  PROVE  ~InOrder(q, r)
<1> DEFINE a == r.prefix
           b == q.prefix
<1> SUFFICES ASSUME LexLess(a, b) PROVE FALSE BY DEF InOrder
<1>1. \/ a # b /\ IsPrefix(a, b)
      \/ \E i \in DOMAIN a \cap DOMAIN b : a[i] < b[i]
  BY DEF LexLess
<1>2. ASSUME NEW s, s \in RatePrefixes, s # Wildcard, s = Wildcard \/ IsPrefix(s, n)
      PROVE  s \in Seq(Digits) /\ Len(s) <= Len(n) /\ \A j \in 1 .. Len(s) : s[j] = n[j]
  <2>1. s \in Seq(Digits) /\ Len(s) <= Len(n) /\ SubSeq(s, 1, Len(s)) = SubSeq(n, 1, Len(s))
    BY <1>2 DEF RatePrefixes, IsPrefix
  <2>2. \A j \in 1 .. Len(s) : SubSeq(s, 1, Len(s))[j] = s[j] BY <2>1
  <2>3. \A j \in 1 .. Len(s) : SubSeq(n, 1, Len(s))[j] = n[j] BY <2>1
  <2> QED BY <2>1, <2>2, <2>3
<1>3. Wildcard \in Seq({-1}) /\ Len(Wildcard) = 1 /\ Wildcard[1] = -1 BY DEF Wildcard
<1>4. a = Wildcard \/ IsPrefix(a, n) BY DEF PrefixFits
<1>5. b = Wildcard \/ IsPrefix(b, n) BY DEF PrefixFits
<1>6. Rank(r) = IF a = Wildcard THEN 1 ELSE IF Len(a) = 0 THEN 0 ELSE Len(a) + 1 BY DEF Rank
<1>7. Rank(q) = IF b = Wildcard THEN 1 ELSE IF Len(b) = 0 THEN 0 ELSE Len(b) + 1 BY DEF Rank
<1>8. a \in RatePrefixes /\ b \in RatePrefixes OBVIOUS
<1> HIDE DEF a, b
<1>9. CASE a = Wildcard /\ b = Wildcard
  <2>1. DOMAIN a \cap DOMAIN b = {1} BY <1>3, <1>9
  <2>2. ~ (a[1] < b[1]) BY <1>3, <1>9
  <2> QED BY <1>1, <1>9, <2>1, <2>2
<1>10. CASE a = Wildcard /\ b # Wildcard
  <2>1. b \in Seq(Digits) BY <1>2, <1>5, <1>8, <1>10
  <2>2. Len(b) = 0
    <3>1. Len(b) \in Nat /\ Rank(r) = 1 BY <1>6, <1>10, <2>1
    <3> QED BY <1>7, <1>10, <3>1
  <2>3. ~IsPrefix(a, b) BY <1>3, <1>10, <2>2 DEF IsPrefix
  <2>4. DOMAIN b = {} BY <2>1, <2>2
  <2> QED BY <1>1, <2>3, <2>4
<1>11. CASE a # Wildcard /\ b = Wildcard
  <2>1. a \in Seq(Digits) BY <1>2, <1>4, <1>8, <1>11
  <2>2. Len(a) \in Nat /\ Len(a) > 0
    <3>1. Len(a) \in Nat /\ Rank(q) = 1 BY <1>7, <1>11, <2>1
    <3> QED BY <1>6, <1>11, <3>1
  <2>3. 1 \in DOMAIN a /\ a[1] \in 0 .. 9 BY <2>1, <2>2 DEF Digits
  <2>4. ~IsPrefix(a, b)
    <3> SUFFICES ASSUME IsPrefix(a, b) PROVE FALSE OBVIOUS
    <3>1. Len(a) = 1 /\ SubSeq(a, 1, 1) = SubSeq(b, 1, 1)
      <4>1. SubSeq(a, 1, Len(a)) = SubSeq(b, 1, Len(a)) BY DEF IsPrefix
      <4>2. Len(a) <= Len(b) BY DEF IsPrefix
      <4>3. Len(b) = 1 BY <1>3, <1>11
      <4>4. Len(a) = 1
        <5> DEFINE l == Len(a)
        <5>1. l \in Nat /\ l > 0 /\ l <= 1 BY <2>2, <4>2, <4>3
        <5> HIDE DEF l
        <5>2. l = 1 BY <5>1
        <5> QED BY <5>2 DEF l
      <4> QED BY <4>1, <4>4
    <3>2. SubSeq(a, 1, 1)[1] = a[1] BY <2>1, <3>1
    <3>3. SubSeq(b, 1, 1)[1] = -1 BY <1>3, <1>11
    <3> QED BY <2>3, <3>1, <3>2, <3>3
  <2>5. DOMAIN a \cap DOMAIN b = {1} BY <1>3, <1>11, <2>3
  <2>6. ~ (a[1] < b[1]) BY <1>3, <1>11, <2>3
  <2> QED BY <1>1, <2>4, <2>5, <2>6
<1>12. CASE a # Wildcard /\ b # Wildcard
  <2>1. a \in Seq(Digits) /\ \A j \in 1 .. Len(a) : a[j] = n[j] BY <1>2, <1>4, <1>8, <1>12
  <2>2. b \in Seq(Digits) /\ \A j \in 1 .. Len(b) : b[j] = n[j] BY <1>2, <1>5, <1>8, <1>12
  <2>3. Len(a) \in Nat /\ Len(b) \in Nat /\ Len(b) <= Len(a)
    <3>1. Len(a) \in Nat /\ Len(b) \in Nat BY <2>1, <2>2
    <3> QED BY <1>6, <1>7, <1>12, <3>1
  <2>4. ASSUME NEW i \in DOMAIN a \cap DOMAIN b PROVE ~ (a[i] < b[i])
    <3>1. i \in 1 .. Len(a) /\ i \in 1 .. Len(b) BY <2>1, <2>2
    <3>2. a[i] = b[i] /\ a[i] \in 0 .. 9 BY <2>1, <2>2, <3>1 DEF Digits
    <3> QED BY <3>2
  <2>5. a # b /\ IsPrefix(a, b) BY <1>1, <2>4
  <2>6. Len(a) = Len(b) BY <2>3, <2>5 DEF IsPrefix
  <2>7. a = b BY <2>1, <2>2, <2>6
  <2> QED BY <2>5, <2>7
<1> QED BY <1>9, <1>10, <1>11, <1>12

\* The first fitting rate of the select has the longest prefix.
LEMMA FirstIsLongest ==
  ASSUME NEW n \in Seq(Digits), NEW hits, hits # {},
         \A r \in hits : r.prefix \in RatePrefixes /\ PrefixFits(r, n),
         NEW first, first = CHOOSE r \in hits : \A q \in hits : ~InOrder(q, r)
  PROVE  first \in hits /\ \A r \in hits : PrefixLen(r) <= PrefixLen(first)
<1>1. \A r \in hits : Rank(r) \in Nat /\ Rank(r) <= Len(n) + 1 /\ PrefixLen(r) \in Nat
  <2> SUFFICES ASSUME NEW r \in hits
               PROVE  Rank(r) \in Nat /\ Rank(r) <= Len(n) + 1 /\ PrefixLen(r) \in Nat
    OBVIOUS
  <2>1. r.prefix = Wildcard \/ (r.prefix \in Seq(Digits) /\ Len(r.prefix) <= Len(n))
    BY DEF RatePrefixes, PrefixFits, IsPrefix
  <2>2. Len(n) \in Nat OBVIOUS
  <2>3. CASE r.prefix = Wildcard BY <2>2, <2>3 DEF Rank, PrefixLen
  <2>4. CASE r.prefix # Wildcard /\ r.prefix \in Seq(Digits) /\ Len(r.prefix) <= Len(n)
    <3>1. Len(r.prefix) \in Nat BY <2>4
    <3> QED BY <2>2, <2>4, <3>1 DEF Rank, PrefixLen
  <2> QED BY <2>1, <2>3, <2>4
<1> DEFINE top == Len(n) + 1
           T == {top - Rank(r) : r \in hits}
<1>2. top \in Nat OBVIOUS
<1>3. \A r \in hits : top - Rank(r) \in Nat
  <2> HIDE DEF top
  <2>1. \A r \in hits : Rank(r) \in Nat /\ Rank(r) <= top BY <1>1 DEF top
  <2> QED BY <1>2, <2>1
<1> HIDE DEF top
<1>4. T \in SUBSET Nat /\ T # {} BY <1>3
<1>5. PICK m \in T : \A y \in T : m <= y
  <2> HIDE DEF T
  <2> QED BY <1>4, LeastNat
<1>6. PICK r \in hits : m = top - Rank(r) BY <1>5
<1>7. \A q \in hits : Rank(q) <= Rank(r)
  <2> SUFFICES ASSUME NEW q \in hits PROVE Rank(q) <= Rank(r) OBVIOUS
  <2>1. top - Rank(r) <= top - Rank(q) BY <1>5, <1>6
  <2> QED BY <1>1, <1>2, <2>1
<1>8. \A q \in hits : ~InOrder(q, r) BY <1>7, HighestFirst
<1>9. first \in hits /\ \A q \in hits : ~InOrder(q, first) BY <1>8
<1>10. ASSUME NEW q \in hits PROVE PrefixLen(q) <= PrefixLen(first)
  <2>1. ~ (PrefixLen(first) < PrefixLen(q)) BY <1>9, LongerFirst
  <2> QED BY <1>1, <1>9, <2>1
<1> QED BY <1>9, <1>10

\* A filtered number is a number.
LEMMA CalledTyped ==
  ASSUME NEW x \in FilterInputs
  PROVE  CalledNumber(x.filters, x.number) \in Seq(Digits)
<1> DEFINE n == x.number
           hits == {i \in DOMAIN x.filters : CutiReplace(x.filters[i], n) # <<>>}
<1>1. n \in Seq(Digits) BY FilterAssumption
<1>2. ASSUME NEW i \in DOMAIN x.filters PROVE CutiReplace(x.filters[i], n) \in Seq(Digits)
  <2> DEFINE f == x.filters[i]
  <2>1. f.replace \in Seq(Digits) /\ f.cut \in Nat
    <3>1. f \in Filters BY FilterAssumption
    <3> HIDE DEF f
    <3> QED BY <3>1 DEF Filters
  <2> HIDE DEF f
  <2>2. SubSeq(n, f.cut + 1, Len(n)) \in Seq(Digits)
    <3> DEFINE c == f.cut + 1
               l == Len(n)
    <3>1. c \in Int /\ l \in Int BY <1>1, <2>1
    <3>2. \A j \in c .. l : n[j] \in Digits BY <1>1, <2>1
    <3> HIDE DEF c, l
    <3>3. SubSeq(n, c, l) \in Seq(Digits) BY <3>1, <3>2, SubSeqProperties
    <3> QED BY <3>3 DEF c, l
  <2>3. f.replace \o SubSeq(n, f.cut + 1, Len(n)) \in Seq(Digits) BY <2>1, <2>2
  <2>4. <<>> \in Seq(Digits) OBVIOUS
  <2> QED BY <2>3, <2>4 DEF CutiReplace, f
<1>3. CASE hits = {} BY <1>1, <1>3 DEF CalledNumber
<1>4. CASE hits # {}
  <2>1. CalledNumber(x.filters, x.number) = CutiReplace(x.filters[Min(hits)], n)
    BY <1>4 DEF CalledNumber
  <2>2. Min(hits) \in DOMAIN x.filters
    <3>1. hits \in SUBSET Nat
      <4>1. DOMAIN x.filters \in SUBSET Nat BY FilterAssumption
      <4> QED BY <4>1
    <3> HIDE DEF hits
    <3>2. PICK m \in hits : \A k \in hits : m <= k BY <1>4, <3>1, LeastNat
    <3>3. Min(hits) \in hits BY <3>2 DEF Min
    <3> QED BY <3>3 DEF hits
  <2> QED BY <1>2, <2>1, <2>2
<1> QED BY <1>3, <1>4

\* The days and months of a year have their place in the order of the dates.
LEMMA DateIs ==
  ASSUME NEW y \in Int, NEW m \in Int, NEW d \in Int
  PROVE  Date(y, m, d) = 416 * y + 32 * m + d
BY DEF Date

\* A day lies in its period, and the next day in it or at the start of the next.
LEMMA PeriodsTile ==
  ASSUME NEW y \in Nat, NEW m \in 1 .. 12, NEW d \in 1 .. 31, NEW bday \in 0 .. 31,
         NEW c, c = Cycle(y, m, d, bday)
  PROVE  /\ c.start <= Date(y, m, d) /\ Date(y, m, d) < c.end
         /\ \A t \in Tomorrows(y, m, d) :
              \/ Cycle(t[1], t[2], t[3], bday) = c
              \/ Cycle(t[1], t[2], t[3], bday).start = c.end
<1> DEFINE b == IF bday > 0 THEN bday ELSE 1
           Opens(yy, mm, dd) == IF dd >= b THEN 416 * yy + 32 * mm + b
                                ELSE IF mm = 1 THEN 416 * (yy - 1) + 384 + b
                                ELSE 416 * yy + 32 * (mm - 1) + b
           Closes(yy, mm, dd) == IF dd < b THEN 416 * yy + 32 * mm + b
                               ELSE IF mm = 12 THEN 416 * (yy + 1) + 32 + b
                               ELSE 416 * yy + 32 * (mm + 1) + b
<1>1. b \in 1 .. 31 OBVIOUS
<1>2. ASSUME NEW yy \in Nat, NEW mm \in 1 .. 12, NEW dd \in 1 .. 31
      PROVE  /\ Cycle(yy, mm, dd, bday).start = Opens(yy, mm, dd)
             /\ Cycle(yy, mm, dd, bday).end = Closes(yy, mm, dd)
             /\ Cycle(yy, mm, dd, bday) = [start |-> Opens(yy, mm, dd), end |-> Closes(yy, mm, dd)]
  <2> DEFINE s == Opens(yy, mm, dd)
             e == Closes(yy, mm, dd)
             k == Cycle(yy, mm, dd, bday)
  <2>1. k = IF dd >= b
            THEN [start |-> Date(yy, mm, b),
                  end |-> IF mm = 12 THEN Date(yy + 1, 1, b) ELSE Date(yy, mm + 1, b)]
            ELSE [start |-> IF mm = 1 THEN Date(yy - 1, 12, b) ELSE Date(yy, mm - 1, b),
                  end |-> Date(yy, mm, b)]
    BY DEF Cycle
  <2> HIDE DEF b, k
  <2>2. /\ Date(yy, mm, b) = 416 * yy + 32 * mm + b
        /\ Date(yy + 1, 1, b) = 416 * (yy + 1) + 32 + b
        /\ Date(yy, mm + 1, b) = 416 * yy + 32 * (mm + 1) + b
        /\ Date(yy - 1, 12, b) = 416 * (yy - 1) + 384 + b
        /\ Date(yy, mm - 1, b) = 416 * yy + 32 * (mm - 1) + b
    <3>1. b \in Int /\ yy \in Int /\ mm \in Int BY <1>1
    <3>2. Date(yy, mm, b) = 416 * yy + 32 * mm + b BY <3>1, DateIs
    <3>3. Date(yy + 1, 1, b) = 416 * (yy + 1) + 32 + b BY <3>1, DateIs
    <3>4. Date(yy, mm + 1, b) = 416 * yy + 32 * (mm + 1) + b BY <3>1, DateIs
    <3>5. Date(yy - 1, 12, b) = 416 * (yy - 1) + 384 + b BY <3>1, DateIs
    <3>6. Date(yy, mm - 1, b) = 416 * yy + 32 * (mm - 1) + b BY <3>1, DateIs
    <3> QED BY <3>2, <3>3, <3>4, <3>5, <3>6
  <2>3. k.start = s /\ k.end = e /\ k = [start |-> k.start, end |-> k.end]
    <3>1. CASE dd >= b
      <4>1. ~ (dd < b) BY <1>1, <3>1
      <4> QED BY <2>1, <2>2, <3>1, <4>1
    <3>2. CASE ~ (dd >= b)
      <4>1. dd < b BY <1>1, <3>2
      <4> QED BY <2>1, <2>2, <3>2, <4>1
    <3> QED BY <3>1, <3>2
  <2> HIDE DEF s, e
  <2>4. k.start = s /\ k.end = e /\ k = [start |-> s, end |-> e] BY <2>3
  <2> QED BY <2>4 DEF k, s, e
<1> HIDE DEF b
<1>3. Date(y, m, d) = 416 * y + 32 * m + d BY DateIs
<1>4. c.start = Opens(y, m, d) /\ c.end = Closes(y, m, d)
      /\ c = [start |-> Opens(y, m, d), end |-> Closes(y, m, d)]
  <2> HIDE DEF Opens, Closes
  <2> QED BY <1>2
<1>5. c.start <= Date(y, m, d) /\ Date(y, m, d) < c.end BY <1>1, <1>3, <1>4
<1>6. ASSUME NEW t \in Tomorrows(y, m, d)
      PROVE  \/ Cycle(t[1], t[2], t[3], bday) = c
             \/ Cycle(t[1], t[2], t[3], bday).start = c.end
  <2>1. \/ d < 31 /\ t = <<y, m, d + 1>>
        \/ m < 12 /\ t = <<y, m + 1, 1>>
        \/ m = 12 /\ t = <<y + 1, 1, 1>>
    BY DEF Tomorrows
  <2> DEFINE yy == t[1]
             mm == t[2]
             dd == t[3]
  <2>2. yy \in Nat /\ mm \in 1 .. 12 /\ dd \in 1 .. 31
        /\ (\/ yy = y /\ mm = m /\ dd = d + 1
            \/ yy = y /\ mm = m + 1 /\ dd = 1
            \/ m = 12 /\ yy = y + 1 /\ mm = 1 /\ dd = 1)
    BY <2>1
  <2> HIDE DEF yy, mm, dd
  <2>3. /\ Cycle(yy, mm, dd, bday).start = Opens(yy, mm, dd)
        /\ Cycle(yy, mm, dd, bday) = [start |-> Opens(yy, mm, dd), end |-> Closes(yy, mm, dd)]
    <3> HIDE DEF Opens, Closes
    <3> QED BY <1>2, <2>2
  <2>4. \/ Opens(yy, mm, dd) = Opens(y, m, d) /\ Closes(yy, mm, dd) = Closes(y, m, d)
        \/ Opens(yy, mm, dd) = Closes(y, m, d)
    BY <1>1, <2>2
  <2> HIDE DEF Opens, Closes
  <2>5. Cycle(yy, mm, dd, bday) = c \/ Cycle(yy, mm, dd, bday).start = c.end
    BY <1>4, <2>3, <2>4
  <2> QED BY <2>5 DEF yy, mm, dd
<1> QED BY <1>5, <1>6

------------------------------------------------------------------------------
(* The way of a call *)

\* What a step of the way decides is decided by the action of its name.
LEMMA DecidedBy ==
  ASSUME [PricingNext]_pricingVars
  PROVE  /\ did' = "card" => PcardSearch \/ UNCHANGED pricingVars
         /\ did' = "rate" => RateSearching \/ UNCHANGED pricingVars
         /\ did' = "price" => CalcCprice \/ UNCHANGED pricingVars
         /\ did' = "maxsec" => Maxsec \/ UNCHANGED pricingVars
         /\ did' = "batch" => DuckBatch \/ UNCHANGED pricingVars
<1>1. CASE Return BY <1>1 DEF Return
<1>2. CASE FilteringMatch BY <1>2 DEF FilteringMatch, Decide
<1>3. CASE RaccSearch BY <1>3 DEF RaccSearch, Decide
<1>4. CASE PcardSearch BY <1>4 DEF PcardSearch, Decide
<1>5. CASE RateSearching BY <1>5 DEF RateSearching, Decide
<1>6. CASE CalcCprice BY <1>6 DEF CalcCprice, Decide
<1>7. CASE Maxsec BY <1>7 DEF Maxsec, Decide
<1>8. CASE DuckBatch BY <1>8 DEF DuckBatch, Decide
<1>9. CASE UNCHANGED pricingVars BY <1>9
<1> QED BY <1>1, <1>2, <1>3, <1>4, <1>5, <1>6, <1>7, <1>8, <1>9 DEF PricingNext

\* Every day has its billing period and the periods follow each other without gap
\* or overlap, for every date and every billing day (pcard_manager).
THEOREM PeriodsMeet == PricingSpec => []CyclesTile
<1>1. ASSUME PricingInit PROVE CyclesTile BY <1>1 DEF PricingInit, CyclesTile
<1>2. ASSUME CyclesTile, [PricingNext]_pricingVars PROVE CyclesTile'
  <2> SUFFICES ASSUME did' = "card" PROVE CyclesTile' BY DEF CyclesTile
  <2>1. CASE UNCHANGED pricingVars BY <1>2, <2>1 DEF CyclesTile, pricingVars
  <2>2. CASE PcardSearch
    <3>1. PICK x \in CardInputs : in' = x BY <2>2 DEF PcardSearch, Decide
    <3>2. x.y \in Nat /\ x.m \in 1 .. 12 /\ x.d \in 1 .. 31 /\ x.bday \in 0 .. 31
      BY CardAssumption
    <3> DEFINE c == Cycle(x.y, x.m, x.d, x.bday)
    <3>3. /\ c.start <= Date(x.y, x.m, x.d) /\ Date(x.y, x.m, x.d) < c.end
          /\ \A t \in Tomorrows(x.y, x.m, x.d) :
               \/ Cycle(t[1], t[2], t[3], x.bday) = c
               \/ Cycle(t[1], t[2], t[3], x.bday).start = c.end
      <4> DEFINE y == x.y
                 m == x.m
                 d == x.d
                 b == x.bday
      <4>1. y \in Nat /\ m \in 1 .. 12 /\ d \in 1 .. 31 /\ b \in 0 .. 31 BY <3>2
      <4>2. c = Cycle(y, m, d, b) OBVIOUS
      <4> HIDE DEF c, y, m, d, b
      <4>3. /\ c.start <= Date(y, m, d) /\ Date(y, m, d) < c.end
            /\ \A t \in Tomorrows(y, m, d) :
                 Cycle(t[1], t[2], t[3], b) = c \/ Cycle(t[1], t[2], t[3], b).start = c.end
        BY <4>1, <4>2, PeriodsTile
      <4> QED BY <4>3 DEF y, m, d, b
    <3> QED BY <3>1, <3>3 DEF CyclesTile
  <2> QED BY <1>2, <2>1, <2>2, DecidedBy
<1> QED BY <1>1, <1>2, PTL DEF PricingSpec

\* The seconds of a call after the rounding.
LEMMA RoundedTyped ==
  ASSUME NEW mode \in Nat, NEW billsec \in Nat, NEW dur \in Nat
  PROVE  Rounded(mode, billsec, dur, PerSec) \in Nat
<1> DEFINE u == CeilDiv(dur, PerSec)
           f == dur \div PerSec
<1>1. f \in Nat BY PerSecAssumption
<1>2. u \in Nat
  <2>1. u \in Int /\ dur <= u * PerSec BY PerSecAssumption, CeilDivFacts
  <2> HIDE DEF u
  <2>2. ~ (u <= -1)
    <3> SUFFICES ASSUME u <= -1 PROVE FALSE OBVIOUS
    <3>1. u * PerSec <= (-1) * PerSec /\ (-1) * PerSec = -PerSec /\ u * PerSec \in Int
      BY <2>1, PerSecAssumption, TimesMonotone
    <3> QED BY <2>1, <3>1, PerSecAssumption
  <2> QED BY <2>1, <2>2
<1> HIDE DEF u, f
<1> QED BY <1>1, <1>2 DEF Rounded, u, f

\* What calc_cprice_2 was given and what it gave.
LEMMA PriceDecides ==
  ASSUME CalcCprice
  PROVE  /\ in'.tariff \in Tariffs /\ in'.billsec \in Nat
         /\ out' = CalcCprice2(in'.tariff, in'.billsec)
<1>1. PICK x \in PriceInputs :
        LET billsec == Rounded(x.mode, x.billsec, x.dur, PerSec)
        IN  in' = [x EXCEPT !.billsec = billsec] /\ out' = CalcCprice2(x.tariff, billsec)
  BY DEF CalcCprice, Decide
<1> DEFINE b == Rounded(x.mode, x.billsec, x.dur, PerSec)
<1>2. x \in [tariff : Tariffs, billsec : Nat, mode : Nat, dur : Nat] BY TariffAssumption
<1>3. b \in Nat BY <1>2, RoundedTyped
<1>4. in' = [x EXCEPT !.billsec = b] /\ out' = CalcCprice2(x.tariff, b) BY <1>1
<1> HIDE DEF b
<1>5. in'.tariff = x.tariff /\ in'.billsec = b BY <1>2, <1>4
<1> QED BY <1>2, <1>3, <1>4, <1>5

\* The price and the seconds billed are those of the started blocks, for every tariff
\* that calc_cprice_2 walks without taking seconds back, of any number of steps.
THEOREM PricesRight == PricingSpec => []PriceIsReference
<1>1. ASSUME PricingInit PROVE PriceIsReference BY <1>1 DEF PricingInit, PriceIsReference
<1>2. ASSUME PriceIsReference, [PricingNext]_pricingVars PROVE PriceIsReference'
  <2> SUFFICES ASSUME did' = "price" PROVE PriceIsReference' BY DEF PriceIsReference
  <2>1. CASE UNCHANGED pricingVars BY <1>2, <2>1 DEF PriceIsReference, pricingVars
  <2>2. CASE CalcCprice
    <3> DEFINE t == in'.tariff
               b == in'.billsec
    <3>1. t \in Tariffs /\ b \in Nat /\ out' = CalcCprice2(t, b) BY <2>2, PriceDecides
    <3> HIDE DEF t, b
    <3>2. Steady(t) => /\ out'.cprice = RefPrice(t, b).cprice
                       /\ out'.billsec = RefPrice(t, b).billsec
                       /\ out'.ok <=> out'.billsec >= b
      BY <3>1, PriceIsRef
    <3> QED BY <3>2 DEF PriceIsReference, t, b
  <2> QED BY <1>2, <2>1, <2>2, DecidedBy
<1> QED BY <1>1, <1>2, PTL DEF PricingSpec

\* RatingDuckDB charges what the Rating module charges, for every tariff, and gives
\* the free seconds of a batch as the pool is consumed, for any number of calls.
THEOREM DuckAgrees == PricingSpec => []DuckParity
<1>1. ASSUME PricingInit PROVE DuckParity BY <1>1 DEF PricingInit, DuckParity
<1>2. ASSUME DuckParity, [PricingNext]_pricingVars PROVE DuckParity'
  <2>1. CASE UNCHANGED pricingVars BY <1>2, <2>1 DEF DuckParity, pricingVars
  <2>2. ASSUME CalcCprice
        PROVE  PriceWalk(in'.tariff, in'.billsec) = [cprice |-> out'.cprice, billsec |-> out'.billsec]
    <3> DEFINE t == in'.tariff
               b == in'.billsec
               n == Len(t)
               w == Walk(t, b)[n]
    <3>1. t \in Tariffs /\ b \in Nat /\ out' = CalcCprice2(t, b) BY <2>2, PriceDecides
    <3> HIDE DEF t, b
    <3>2. n \in Nat /\ n \in 0 .. n BY <3>1 DEF Tariffs
    <3>3. DuckWalk(t, b)[n] = DuckOf(w)
      <4> HIDE DEF n
      <4>1. Len(t) = n BY DEF n
      <4> QED BY <3>1, <3>2, <4>1, DuckWalkIs
    <3>4. PriceWalk(t, b) = [cprice |-> w.cprice, billsec |-> w.billsec]
      BY <3>3 DEF PriceWalk, DuckOf
    <3>5. out'.cprice = w.cprice /\ out'.billsec = w.billsec BY <3>1 DEF CalcCprice2
    <3> QED BY <3>4, <3>5 DEF t, b
  <2>3. ASSUME DuckBatch PROVE out' = Drawdown(in'.calls, in'.limit, in'.used)
    <3>1. PICK x \in BatchInputs : in' = x /\ out' = Split(x.calls, x.limit, x.used)
      BY <2>3 DEF DuckBatch, Decide
    <3>2. x.calls \in Seq(Nat) /\ x.limit \in Nat /\ x.used \in Nat BY TariffAssumption
    <3>3. Split(x.calls, x.limit, x.used) = Drawdown(x.calls, x.limit, x.used)
      BY <3>2, SplitIsDrawdown
    <3> QED BY <3>1, <3>3
  <2> QED BY <1>2, <2>1, <2>2, <2>3, DecidedBy DEF DuckParity
<1> QED BY <1>1, <1>2, PTL DEF PricingSpec

\* A call of the granted seconds costs no more than the credit, for every tariff
\* with rising fees that calc_cprice_2 walks without taking seconds back.
THEOREM CreditSuffices == PricingSpec => []CreditHolds
<1>1. ASSUME PricingInit PROVE CreditHolds BY <1>1 DEF PricingInit, CreditHolds
<1>2. ASSUME CreditHolds, [PricingNext]_pricingVars PROVE CreditHolds'
  <2> SUFFICES ASSUME did' = "maxsec" PROVE CreditHolds' BY DEF CreditHolds
  <2>1. CASE UNCHANGED pricingVars BY <1>2, <2>1 DEF CreditHolds, pricingVars
  <2>2. CASE Maxsec
    <3>1. PICK x \in CreditInputs : in' = x /\ out' = CalcMaxsec(x.tariff, x.limit, x.free, x.cap)
      BY <2>2 DEF Maxsec, Decide
    <3>2. x.tariff \in Tariffs /\ x.limit \in Nat /\ x.free \in Int /\ x.cap \in Nat
      BY TariffAssumption
    <3>3. x.free <= 0 /\ Steady(x.tariff) /\ Rising(x.tariff) =>
            CalcCprice2(x.tariff, out').cprice <= x.limit
      BY <3>1, <3>2, CreditCovers
    <3> QED BY <3>1, <3>3 DEF CreditHolds
  <2> QED BY <1>2, <2>1, <2>2, DecidedBy
<1> QED BY <1>1, <1>2, PTL DEF PricingSpec

\* A call is rated with the longest of the prefixes of its number that are valid and
\* apply at its time, for any rates and numbers (rt_data_q_prefix_sql).
THEOREM RatesLongest == PricingSpec => []LongestPrefix
<1> DEFINE Inv == cld \in Seq(Digits) /\ LongestPrefix
<1>1. ASSUME PricingInit PROVE Inv
  <2>1. <<>> \in Seq(Digits) OBVIOUS
  <2> QED BY <1>1, <2>1 DEF PricingInit, LongestPrefix
<1>2. ASSUME Inv, [PricingNext]_pricingVars PROVE Inv'
  <2>1. cld' \in Seq(Digits)
    <3>1. <<>> \in Seq(Digits) OBVIOUS
    <3>2. CASE FilteringMatch BY <3>2, CalledTyped DEF FilteringMatch
    <3>3. CASE ~FilteringMatch
      BY <1>2, <3>1, <3>3 DEF PricingNext, pricingVars, Return, RaccSearch, PcardSearch,
         RateSearching, CalcCprice, Maxsec, DuckBatch
    <3> QED BY <3>2, <3>3
  <2>2. LongestPrefix'
    <3> SUFFICES ASSUME did' = "rate" PROVE LongestPrefix' BY DEF LongestPrefix
    <3>1. CASE UNCHANGED pricingVars
      BY <1>2, <3>1 DEF LongestPrefix, Usable, pricingVars
    <3>2. CASE RateSearching
      <4>1. PICK x \in RateInputs, wild \in Wilds, raw \in BOOLEAN :
              /\ in' = [x EXCEPT !.usable = {r \in x.rates :
                          /\ ChkRatePeriods(r, x.now)
                          /\ TariffApplies(r.conds, x.ts, wild, raw)}]
              /\ out' = PrefixSql(x.rates, cld, x.now, x.ts, wild, raw)
              /\ cld' = cld
        BY <3>2 DEF RateSearching, Decide
      <4> DEFINE may == {r \in x.rates : /\ ChkRatePeriods(r, x.now)
                                         /\ TariffApplies(r.conds, x.ts, wild, raw)}
                 hits == {r \in may : PrefixFits(r, cld)}
      <4>2. in'.usable = may BY <4>1, RateAssumption
      <4>3. Usable' = hits BY <4>1, <4>2 DEF Usable
      <4>4. out' = IF hits = {} THEN NoRate ELSE CHOOSE r \in hits : \A q \in hits : ~InOrder(q, r)
        <5>1. hits = {r \in x.rates : /\ ChkRatePeriods(r, x.now)
                                      /\ PrefixFits(r, cld)
                                      /\ TariffApplies(r.conds, x.ts, wild, raw)}
          OBVIOUS
        <5> HIDE DEF hits, may
        <5> QED BY <4>1, <5>1 DEF PrefixSql
      <4>5. \A r \in hits : r.prefix \in RatePrefixes /\ PrefixFits(r, cld) BY RateAssumption
      <4>6. cld \in Seq(Digits) BY <1>2
      <4> HIDE DEF hits, may
      <4>7. CASE hits = {} BY <4>3, <4>4, <4>7 DEF LongestPrefix
      <4>8. CASE hits # {}
        <5>1. out' \in hits /\ \A r \in hits : PrefixLen(r) <= PrefixLen(out')
          BY <4>4, <4>5, <4>6, <4>8, FirstIsLongest
        <5> QED BY <4>3, <4>8, <5>1 DEF LongestPrefix
      <4> QED BY <4>7, <4>8
    <3> QED BY <1>2, <3>1, <3>2, DecidedBy
  <2> QED BY <2>1, <2>2
<1> QED BY <1>1, <1>2, PTL DEF PricingSpec

------------------------------------------------------------------------------
(* The cache of the reference data *)

\* The states of a rating thread.
Thread == [pc : Pcs, l : Lookups \cup {NoLookup}, val : Answers \cup {Freed}, at : Int]
\* The states of the preload.
Preloader == [pc : PrePcs, todo : SUBSET Lookups, need : SUBSET Lookups,
              rows : [Lookups -> Answers], at : Int]
\* The states of an entry.
CacheEntry == [val : Answers \cup {Freed}, ts : Int]

\* The types, with what a thread that is not idle looks up.
IType ==
  /\ asked \subseteq Lookups /\ now \in Nat
  /\ db \in [Lookups -> Answers] /\ gone \in [Lookups -> [Answers -> Int]]
  /\ cache \in [Slots -> CacheEntry]
  /\ readers \subseteq Workers /\ writer \in Workers \cup {NoThread}
  /\ th \in [Workers -> Thread] /\ pre \in Preloader
  /\ \A t \in Workers : th[t].pc # "idle" => th[t].l \in Lookups

\* The lock is held where the code says so, never for reading and writing at
\* once, and a freed array is in the entry that the writer is about to store.
LockInv ==
  /\ \A t \in Workers : /\ t \in readers <=> th[t].pc = "copy"
                        /\ writer = t <=> th[t].pc \in {"free", "store"}
  /\ writer # NoThread => readers = {}
  /\ \A s \in Slots : cache[s].val = Freed =>
       \E t \in Workers : th[t].pc = "store" /\ Slot(th[t].l) = s
  /\ CopiesLive

\* The select of lookup l had the answer v at time T or later.
Was(l, v, T) == v \in Answers /\ (v = db[l] \/ gone[l][v] >= T)
\* So had one of the selects that fill the entry of l.
Held(l, v, T) == \E m \in Sharing(l) : Was(m, v, T)

\* An answer in the hands of a thread is as young as its clock says.
InHand(t) ==
  th[t].pc \in {"put", "free", "store"} =>
    Held(th[t].l, th[t].val, th[t].at) /\ th[t].at <= now /\ now - th[t].at <= Slow
\* An answer in use is within the bound.
InUse(t) == th[t].pc = "use" => Held(th[t].l, th[t].val, now - (TTL + Slow))
\* An answer that the preload holds.
Preloaded(l) ==
  pre.pc \in {"raccs", "pcards"} /\ l \in pre.need =>
    Held(l, pre.rows[l], pre.at) /\ pre.at <= now /\ now - pre.at <= Slow
\* An answer in the cache.
Entered(l) ==
  Entry(l) # NoEntry =>
    /\ Entry(l).ts <= now
    /\ Entry(l).val # Freed => Held(l, Entry(l).val, Entry(l).ts - Slow)

\* Rows on their way into the cache are at most Slow old, those in an entry at
\* most Slow older than its time stamp, those in use at most TTL + Slow.
AgeInv ==
  /\ \A l \in Lookups, v \in Answers : gone[l][v] <= now
  /\ \A t \in Workers : InHand(t) /\ InUse(t)
  /\ \A l \in Lookups : Preloaded(l) /\ Entered(l)

\* The inductive invariant.
IInv == IType /\ LockInv /\ AgeInv

------------------------------------------------------------------------------
(* What the steps have in common *)

\* Thread t becomes r, and no other thread moves.
Move(t, r) == th' = [th EXCEPT ![t] = r]

\* A move changes one thread.
LEMMA MoveIs ==
  ASSUME IType, NEW t \in Workers, NEW r \in Thread, Move(t, r)
  PROVE /\ th' \in [Workers -> Thread] /\ th'[t] = r
        /\ \A u \in Workers : u # t => th'[u] = th[u]
BY DEF IType, Move

\* The fields of a thread.
LEMMA FieldsOf ==
  ASSUME IType, NEW t \in Workers
  PROVE /\ th[t] \in Thread
        /\ th[t].pc \in Pcs /\ th[t].l \in Lookups \cup {NoLookup}
        /\ th[t].val \in Answers \cup {Freed} /\ th[t].at \in Int
<1>1. th[t] \in Thread BY DEF IType
<1> QED BY <1>1 DEF Thread

\* A step that only leads a thread to another place.
LEMMA GotoIs ==
  ASSUME IType, NEW t \in Workers, NEW p \in Pcs, Goto(t, p)
  PROVE /\ th' \in [Workers -> Thread] /\ \A u \in Workers : u # t => th'[u] = th[u]
        /\ th'[t].pc = p /\ th'[t].l = th[t].l
        /\ th'[t].val = th[t].val /\ th'[t].at = th[t].at
<1> DEFINE r == [th[t] EXCEPT !.pc = p]
<1>1. r \in Thread /\ r.pc = p /\ r.l = th[t].l /\ r.val = th[t].val /\ r.at = th[t].at
  BY FieldsOf DEF Thread
<1>2. Move(t, r) BY DEF Move, Goto
<1> HIDE DEF r
<1> QED BY <1>1, <1>2, MoveIs

\* The entry of a lookup.
LEMMA EntryOf ==
  ASSUME IType, NEW l \in Lookups
  PROVE /\ Slot(l) \in Slots /\ Entry(l) \in CacheEntry
        /\ Entry(l).val \in Answers \cup {Freed} /\ Entry(l).ts \in Int
<1>1. Slot(l) \in Slots BY DEF Slots
<1>2. Entry(l) \in CacheEntry BY <1>1 DEF IType, Entry
<1> QED BY <1>1, <1>2 DEF CacheEntry

\* A stamped entry holds the rows and the time; the others stay.
LEMMA StampedIs ==
  ASSUME IType, NEW l \in Lookups, NEW v \in Answers \cup {Freed}, Stamped(l, v)
  PROVE /\ cache' \in [Slots -> CacheEntry]
        /\ cache'[Slot(l)] = [val |-> v, ts |-> now]
        /\ \A s \in Slots : s # Slot(l) => cache'[s] = cache[s]
<1> DEFINE e == [val |-> v, ts |-> now]
<1>1. e \in CacheEntry BY DEF CacheEntry, IType
<1>2. Slot(l) \in Slots BY DEF Slots
<1>3. cache' = [cache EXCEPT ![Slot(l)] = e] BY DEF Stamped
<1> HIDE DEF e
<1>4. /\ cache' \in [Slots -> CacheEntry] /\ cache'[Slot(l)] = e
      /\ \A s \in Slots : s # Slot(l) => cache'[s] = cache[s]
  BY <1>1, <1>2, <1>3 DEF IType
<1> QED BY <1>4 DEF e

\* The history notes when an answer was last true.
LEMMA GoneIs ==
  ASSUME IType, NEW l \in Lookups, NEW v \in Answers, gone' = [gone EXCEPT ![l][v] = now]
  PROVE /\ gone' \in [Lookups -> [Answers -> Int]] /\ gone'[l][v] = now
        /\ \A m \in Lookups, w \in Answers : m # l \/ w # v => gone'[m][w] = gone[m][w]
<1> DEFINE g == [gone[l] EXCEPT ![v] = now]
<1>1. gone[l] \in [Answers -> Int] /\ now \in Int BY DEF IType
<1>2. g \in [Answers -> Int] /\ g[v] = now /\ \A w \in Answers : w # v => g[w] = gone[l][w]
  BY <1>1
<1>3. gone' = [gone EXCEPT ![l] = g] OBVIOUS
<1> HIDE DEF g
<1> QED BY <1>2, <1>3 DEF IType

\* Lookups of one entry share their answers.
LEMMA Shared ==
  ASSUME NEW l, NEW m, Slot(l) = Slot(m), NEW v, NEW T, Held(l, v, T)
  PROVE Held(m, v, T)
BY DEF Held, Sharing

\* The answer of a select is one for its entry.
LEMMA OwnAnswered ==
  ASSUME NEW l \in Lookups, NEW v, NEW T, Was(l, v, T)
  PROVE Held(l, v, T)
BY DEF Held, Sharing

\* An answer that is young enough for one time is so for an earlier one.
LEMMA Earlier ==
  ASSUME IType, NEW l, NEW v, NEW T \in Int, NEW U \in Int, U <= T, Held(l, v, T)
  PROVE Held(l, v, U)
<1>1. PICK m \in Sharing(l) : Was(m, v, T) BY DEF Held
<1>2. m \in Lookups BY DEF Sharing
<1>3. v \in Answers BY <1>1 DEF Was
<1>4. gone[m][v] \in Int BY <1>2, <1>3 DEF IType
<1>5. Was(m, v, U) BY <1>1, <1>4 DEF Was
<1> QED BY <1>5 DEF Held

\* A move that touches neither tables, entries nor preload: the age is kept
\* when it is right for the thread that moved.
LEMMA AgeMove ==
  ASSUME IType, AgeInv, NEW t \in Workers, \A u \in Workers : u # t => th'[u] = th[u],
         UNCHANGED <<now, db, gone, cache, pre>>, InHand(t)', InUse(t)'
  PROVE AgeInv'
<1>1. \A u \in Workers : u # t => InHand(u)' /\ InUse(u)'
  BY DEF AgeInv, InHand, InUse, Held, Was
<1>2. \A l \in Lookups : Preloaded(l)' /\ Entered(l)'
  BY DEF AgeInv, Preloaded, Entered, Entry, Held, Was
<1> QED BY <1>1, <1>2 DEF AgeInv

\* No answer that held at some time is forgotten.
Lasting == \A l \in Lookups, v \in Answers, T \in Int : T <= now /\ Was(l, v, T) => Was(l, v, T)'

\* The same of an entry.
LEMMA HeldOn ==
  ASSUME Lasting
  PROVE \A l, v : \A T \in Int : T <= now /\ Held(l, v, T) => Held(l, v, T)'
<1> SUFFICES ASSUME NEW l, NEW v, NEW T \in Int, T <= now, Held(l, v, T) PROVE Held(l, v, T)'
  OBVIOUS
<1>1. PICK m \in Sharing(l) : Was(m, v, T) BY DEF Held
<1>2. m \in Lookups /\ v \in Answers BY <1>1 DEF Sharing, Was
<1>3. Was(m, v, T)' BY <1>1, <1>2 DEF Lasting
<1> QED BY <1>1, <1>3 DEF Held, Sharing

\* Then what a step leaves alone keeps its age.
LEMMA AgeKept ==
  ASSUME IType, AgeInv, Lasting, now' = now
  PROVE /\ \A u \in Workers : th'[u] = th[u] => InHand(u)' /\ InUse(u)'
        /\ \A l \in Lookups : pre' = pre => Preloaded(l)'
        /\ \A l \in Lookups : cache'[Slot(l)] = cache[Slot(l)] => Entered(l)'
<1>1. ASSUME NEW u \in Workers, th'[u] = th[u] PROVE InHand(u)' /\ InUse(u)'
  <2>1. th[u].pc \in {"put", "free", "store", "use"} => th[u].l \in Lookups BY DEF IType
  <2>2. th[u].at \in Int BY FieldsOf
  <2>3. now \in Int /\ now - (TTL + Slow) \in Int /\ now - (TTL + Slow) <= now
    BY CacheAssumption DEF IType
  <2>4. InHand(u) /\ InUse(u) BY DEF AgeInv
  <2>5. InHand(u)' BY <1>1, <2>1, <2>2, <2>4, HeldOn DEF InHand
  <2>6. InUse(u)' BY <1>1, <2>1, <2>3, <2>4, HeldOn DEF InUse
  <2> QED BY <2>5, <2>6
<1>2. ASSUME NEW l \in Lookups, pre' = pre PROVE Preloaded(l)'
  <2>1. pre.at \in Int BY DEF IType, Preloader
  <2> QED BY <1>2, <2>1, HeldOn DEF AgeInv, Preloaded
<1>3. ASSUME NEW l \in Lookups, cache'[Slot(l)] = cache[Slot(l)] PROVE Entered(l)'
  <2>1. Entry(l).ts \in Int /\ now \in Int /\ Entry(l).ts - Slow \in Int
    BY EntryOf, CacheAssumption DEF IType
  <2>2. Entry(l).ts <= now => Entry(l).ts - Slow <= now BY <2>1, CacheAssumption
  <2>3. Entry(l)' = Entry(l) BY <1>3 DEF Entry, Slot
  <2>4. Entered(l) BY DEF AgeInv
  <2> QED BY <1>3, <2>1, <2>2, <2>3, <2>4, HeldOn DEF Entered
<1> QED BY <1>1, <1>2, <1>3

------------------------------------------------------------------------------
(* The workers *)

\* A lookup begins.
LEMMA StepAsk == ASSUME IInv, NEW t \in Workers, Ask(t) PROVE IInv'
<1>0. IType BY DEF IInv
<1>1. PICK l \in asked : Move(t, [Idle EXCEPT !.pc = "get", !.l = l]) BY DEF Ask, Move
<1>2. l \in Lookups /\ UNCHANGED <<asked, now, db, gone, cache, readers, writer, pre>> /\ th[t].pc = "idle"
  BY <1>0 DEF IType, Ask, Worked, DbUnchanged
<1>3. /\ th' \in [Workers -> Thread] /\ \A u \in Workers : u # t => th'[u] = th[u]
      /\ th'[t].pc = "get" /\ th'[t].l = l /\ th'[t].val = None
  <2> DEFINE r == [Idle EXCEPT !.pc = "get", !.l = l]
  <2>1. Idle \in Thread /\ Idle.val = None BY DEF Idle, Thread, Pcs, Answers
  <2>2. r \in Thread /\ r.pc = "get" /\ r.l = l /\ r.val = None
    BY <1>2, <2>1 DEF Thread, Pcs
  <2>3. Move(t, r) BY <1>1
  <2> HIDE DEF r
  <2> QED BY <1>0, <2>2, <2>3, MoveIs
<1>4. IType' BY <1>2, <1>3 DEF IInv, IType
<1>5. LockInv' BY <1>2, <1>3, CacheAssumption DEF IInv, LockInv, CopiesLive
<1>6. ASSUME AgeInv PROVE AgeInv'
  <2>1. InHand(t)' /\ InUse(t)' BY <1>3 DEF InHand, InUse
  <2> QED BY <1>0, <1>2, <1>3, <1>6, <2>1, AgeMove
<1> QED BY <1>4, <1>5, <1>6 DEF IInv

\* The read lock.
LEMMA StepRdLock == ASSUME IInv, NEW t \in Workers, RdLock(t) PROVE IInv'
<1>0. IType BY DEF IInv
<1>2. /\ UNCHANGED <<asked, now, db, gone, cache, writer, pre>> /\ readers' = readers \cup {t}
      /\ th[t].pc = "get" /\ writer = NoThread
  BY DEF RdLock, Worked, DbUnchanged
<1>3. /\ th' \in [Workers -> Thread] /\ \A u \in Workers : u # t => th'[u] = th[u]
      /\ th'[t].pc = "copy" /\ th'[t].l = th[t].l /\ th'[t].val = th[t].val
  <2>1. "copy" \in Pcs /\ Goto(t, "copy") BY DEF Pcs, RdLock
  <2> QED BY <1>0, <2>1, GotoIs
<1>4. IType' BY <1>2, <1>3 DEF IInv, IType
<1>5. LockInv' BY <1>2, <1>3, CacheAssumption DEF IInv, IType, LockInv, CopiesLive
<1>6. ASSUME AgeInv PROVE AgeInv'
  <2>1. InHand(t)' /\ InUse(t)' BY <1>3 DEF InHand, InUse
  <2> QED BY <1>0, <1>2, <1>3, <1>6, <2>1, AgeMove
<1> QED BY <1>4, <1>5, <1>6 DEF IInv

\* The copy of an entry: not freed, as no writer is in, and fresh.
LEMMA StepCopy == ASSUME IInv, NEW t \in Workers, NEW k, Copy(t, k) PROVE IInv'
<1>0. IType BY DEF IInv
<1>1. /\ UNCHANGED <<asked, now, db, gone, cache, writer, pre>> /\ readers' = readers \ {t}
      /\ th[t].pc = "copy" /\ th[t].l \in Lookups
  BY <1>0 DEF IType, Copy, Worked, DbUnchanged
<1>2. Entry(th[t].l).val \in Answers
  <2>1. writer = NoThread BY <1>1 DEF IInv, LockInv
  <2>2. \A u \in Workers : th[u].pc # "store" BY <2>1, CacheAssumption DEF IInv, LockInv
  <2>3. Slot(th[t].l) \in Slots /\ Entry(th[t].l).val \in Answers \cup {Freed}
    BY <1>0, <1>1, EntryOf
  <2> QED BY <2>2, <2>3 DEF IInv, LockInv, Entry
<1>4. /\ th' \in [Workers -> Thread] /\ \A u \in Workers : u # t => th'[u] = th[u]
      /\ th'[t].l = th[t].l /\ th'[t].pc \in {"use", "select"}
      /\ \/ th'[t].pc = "use" /\ th'[t].val = Entry(th[t].l).val /\ Fresh(th[t].l)
         \/ th'[t].pc = "select" /\ th'[t].val = th[t].val
  <2> DEFINE hit == [th[t] EXCEPT !.pc = "use", !.val = Entry(th[t].l).val]
             miss == [th[t] EXCEPT !.pc = "select"]
  <2>1. hit \in Thread /\ hit.l = th[t].l /\ hit.pc = "use" /\ hit.val = Entry(th[t].l).val
    BY <1>0, <1>2, FieldsOf DEF Thread, Pcs
  <2>2. miss \in Thread /\ miss.l = th[t].l /\ miss.pc = "select" /\ miss.val = th[t].val
    BY <1>0, FieldsOf DEF Thread, Pcs
  <2>3. (Fresh(th[t].l) /\ Move(t, hit)) \/ Move(t, miss) BY DEF Copy, Move
  <2> HIDE DEF hit, miss
  <2> QED BY <1>0, <2>1, <2>2, <2>3, MoveIs
<1>5. IType' BY <1>1, <1>4 DEF IInv, IType
<1>6. th'[t].val # Freed BY <1>2, <1>4, CacheAssumption DEF IInv, LockInv, CopiesLive, Answers
<1>7. LockInv' BY <1>1, <1>4, <1>6 DEF IInv, LockInv, CopiesLive
<1>8. ASSUME AgeInv PROVE AgeInv'
  <2>1. ASSUME th'[t].pc = "use" PROVE Held(th[t].l, Entry(th[t].l).val, now - (TTL + Slow))
    <3>1. Fresh(th[t].l) BY <1>4, <2>1
    <3>2. Held(th[t].l, Entry(th[t].l).val, Entry(th[t].l).ts - Slow)
      BY <1>1, <1>2, <1>8, <3>1, CacheAssumption DEF AgeInv, Entered, Fresh, Answers
    <3>3. Entry(th[t].l).ts \in Int /\ now \in Int BY <1>0, <1>1, EntryOf DEF IType
    <3>4. /\ Entry(th[t].l).ts - Slow \in Int /\ now - (TTL + Slow) \in Int
          /\ now - (TTL + Slow) <= Entry(th[t].l).ts - Slow
      BY <3>1, <3>3, CacheAssumption DEF Fresh
    <3> QED BY <1>0, <3>2, <3>4, Earlier
  <2>2. InUse(t)' BY <1>1, <1>4, <2>1 DEF InUse, Held, Was
  <2>3. InHand(t)' BY <1>4 DEF InHand
  <2> QED BY <1>0, <1>1, <1>4, <1>8, <2>2, <2>3, AgeMove
<1> QED BY <1>5, <1>7, <1>8 DEF IInv

\* The select: its rows are the table's at this time, or none.
LEMMA StepQuery ==
  ASSUME IInv, NEW t \in Workers, NEW k, NEW f \in BOOLEAN, Query(t, k, f) PROVE IInv'
<1>0. IType BY DEF IInv
<1>1. /\ UNCHANGED <<asked, now, db, cache, readers, writer, pre>>
      /\ th[t].pc = "select" /\ th[t].l \in Lookups
  BY <1>0 DEF IType, Query, Worked, DbUnchanged
<1>2. PICK v \in Answers :
        /\ \/ v = db[th[t].l] /\ UNCHANGED <<gone, faults>>
           \/ v = None /\ FailedSelect(th[t].l)
        /\ Move(t, [th[t] EXCEPT !.pc = IF v = None /\ ~f THEN "use" ELSE "put",
                                 !.val = v, !.at = now])
  BY DEF Query, Move
<1>3. /\ th' \in [Workers -> Thread] /\ \A u \in Workers : u # t => th'[u] = th[u]
      /\ th'[t].pc \in {"use", "put"} /\ th'[t].l = th[t].l /\ th'[t].val = v /\ th'[t].at = now
  <2> DEFINE p == IF v = None /\ ~f THEN "use" ELSE "put"
             r == [th[t] EXCEPT !.pc = p, !.val = v, !.at = now]
  <2>0. p \in {"use", "put"} OBVIOUS
  <2>1. Move(t, r) BY <1>2
  <2> HIDE DEF p
  <2>2. now \in Int /\ p \in Pcs /\ th[t] \in Thread BY <1>0, <2>0, FieldsOf DEF IType, Pcs
  <2>3. r \in Thread /\ r.pc = p /\ r.l = th[t].l /\ r.val = v /\ r.at = now
    BY <2>2 DEF Thread
  <2> HIDE DEF r
  <2> QED BY <1>0, <2>0, <2>1, <2>3, MoveIs
<1>4. /\ gone' \in [Lookups -> [Answers -> Int]]
      /\ \A l \in Lookups, w \in Answers :
           gone'[l][w] = gone[l][w] \/ (l = th[t].l /\ w = None /\ gone'[l][w] = now)
      /\ v = db[th[t].l] \/ (v = None /\ gone'[th[t].l][v] = now)
  <2>1. CASE v = db[th[t].l] /\ UNCHANGED gone BY <1>0, <2>1 DEF IType
  <2>2. CASE v = None /\ FailedSelect(th[t].l)
    BY <1>0, <1>1, <2>2, GoneIs DEF FailedSelect, Answers
  <2> QED BY <1>2, <2>1, <2>2
<1>5. IType' BY <1>1, <1>3, <1>4 DEF IInv, IType
<1>6. v # Freed BY CacheAssumption DEF Answers
<1>7. LockInv' BY <1>1, <1>3, <1>6 DEF IInv, LockInv, CopiesLive
<1>8. ASSUME AgeInv PROVE AgeInv'
  <2>1. Lasting BY <1>0, <1>1, <1>4 DEF Lasting, Was, IType
  <2>2. \A l \in Lookups, w \in Answers : gone'[l][w] <= now'
    BY <1>0, <1>1, <1>4, <1>8 DEF AgeInv, IType
  <2>3. now \in Int BY <1>0 DEF IType
  <2>8. ASSUME NEW T \in Int, T <= now PROVE Held(th[t].l, v, T)'
    <3>1. db' = db /\ v \in Answers BY <1>1
    <3>2. v = db[th[t].l] \/ gone'[th[t].l][v] >= T BY <1>4, <2>8
    <3>3. Was(th[t].l, v, T)' BY <1>1, <1>3, <3>1, <3>2 DEF Was
    <3>4. th[t].l \in Sharing(th[t].l) BY <1>1 DEF Sharing
    <3>5. th'[t].l = th[t].l BY <1>3
    <3> QED BY <3>3, <3>4, <3>5 DEF Held, Sharing
  <2>4. InHand(t)' BY <1>1, <1>3, <2>3, <2>8, CacheAssumption DEF InHand
  <2>5. InUse(t)'
    <3>1. now - (TTL + Slow) \in Int /\ now - (TTL + Slow) <= now BY <2>3, CacheAssumption
    <3> QED BY <1>1, <1>3, <2>8, <3>1 DEF InUse
  <2>6. \A u \in Workers : InHand(u)' /\ InUse(u)'
    BY <1>0, <1>1, <1>3, <1>8, <2>1, <2>4, <2>5, AgeKept
  <2>7. \A l \in Lookups : Preloaded(l)' /\ Entered(l)' BY <1>0, <1>1, <1>8, <2>1, AgeKept
  <2> QED BY <2>2, <2>6, <2>7 DEF AgeInv
<1> QED BY <1>5, <1>7, <1>8 DEF IInv

\* The write lock: no reader is in.
LEMMA StepWrLock == ASSUME IInv, NEW t \in Workers, WrLock(t) PROVE IInv'
<1>0. IType BY DEF IInv
<1>1. /\ UNCHANGED <<asked, now, db, gone, cache, readers, pre>> /\ writer' = t
      /\ th[t].pc = "put" /\ readers = {} /\ writer = NoThread
  BY DEF WrLock, Worked, DbUnchanged
<1>2. /\ th' \in [Workers -> Thread] /\ \A u \in Workers : u # t => th'[u] = th[u]
      /\ th'[t].pc \in {"free", "store"} /\ th'[t].l = th[t].l
      /\ th'[t].val = th[t].val /\ th'[t].at = th[t].at
  <2>1. PICK p \in {"free", "store"} : Goto(t, p) BY DEF WrLock
  <2>2. p \in Pcs BY DEF Pcs
  <2> QED BY <1>0, <2>1, <2>2, GotoIs
<1>3. IType' BY <1>1, <1>2 DEF IInv, IType
<1>4. LockInv' BY <1>1, <1>2, CacheAssumption DEF IInv, LockInv, CopiesLive
<1>5. ASSUME AgeInv PROVE AgeInv'
  <2>1. InHand(t)' /\ InUse(t)' BY <1>1, <1>2, <1>5 DEF InHand, InUse, Held, Was, AgeInv
  <2> QED BY <1>0, <1>1, <1>2, <1>5, <2>1, AgeMove
<1> QED BY <1>3, <1>4, <1>5 DEF IInv

\* The old array is freed under the write lock.
LEMMA StepFreeOld == ASSUME IInv, NEW t \in Workers, FreeOld(t) PROVE IInv'
<1>0. IType BY DEF IInv
<1>1. /\ UNCHANGED <<asked, now, db, gone, readers, writer, pre>>
      /\ th[t].pc = "free" /\ th[t].l \in Lookups
  BY <1>0 DEF IType, FreeOld, Worked, DbUnchanged
<1>2. /\ th' \in [Workers -> Thread] /\ \A u \in Workers : u # t => th'[u] = th[u]
      /\ th'[t].pc = "store" /\ th'[t].l = th[t].l
      /\ th'[t].val = th[t].val /\ th'[t].at = th[t].at
  <2>1. "store" \in Pcs /\ Goto(t, "store") BY DEF Pcs, FreeOld
  <2> QED BY <1>0, <2>1, GotoIs
<1>3. /\ cache' \in [Slots -> CacheEntry]
      /\ Entry(th[t].l)'.val = Freed
      /\ cache'[Slot(th[t].l)].val = Freed
      /\ cache'[Slot(th[t].l)].ts = Entry(th[t].l).ts
      /\ \A s \in Slots : s # Slot(th[t].l) => cache'[s] = cache[s]
  <2> DEFINE e == [Entry(th[t].l) EXCEPT !.val = Freed]
  <2>1. Slot(th[t].l) \in Slots /\ Entry(th[t].l) \in CacheEntry BY <1>0, <1>1, EntryOf
  <2>2. e \in CacheEntry /\ e.val = Freed /\ e.ts = Entry(th[t].l).ts BY <2>1 DEF CacheEntry
  <2>3. cache' = [cache EXCEPT ![Slot(th[t].l)] = e] BY DEF FreeOld, Entry
  <2> HIDE DEF e
  <2> QED BY <1>0, <1>2, <2>1, <2>2, <2>3 DEF IType, Entry
<1>4. IType' BY <1>1, <1>2, <1>3 DEF IInv, IType
<1>5. LockInv' BY <1>1, <1>2, <1>3 DEF IInv, LockInv, CopiesLive
<1>6. ASSUME AgeInv PROVE AgeInv'
  <2>1. Lasting BY <1>1 DEF Lasting, Was
  <2>2. \A u \in Workers : u # t => InHand(u)' /\ InUse(u)' BY <1>0, <1>1, <1>2, <1>6, <2>1, AgeKept
  <2>3. InHand(t)' /\ InUse(t)' BY <1>1, <1>2, <1>6 DEF InHand, InUse, Held, Was, AgeInv
  <2>4. ASSUME NEW l \in Lookups PROVE Entered(l)'
    <3>1. Slot(l) \in Slots BY DEF Slots
    <3>2. CASE Slot(l) # Slot(th[t].l) BY <1>0, <1>1, <1>3, <1>6, <2>1, <3>1, <3>2, AgeKept
    <3>3. CASE Slot(l) = Slot(th[t].l)
      <4>1. Entry(th[t].l).ts <= now
        <5>1. Entered(th[t].l) BY <1>1, <1>6 DEF AgeInv
        <5>2. CASE Entry(th[t].l) # NoEntry BY <5>1, <5>2 DEF Entered
        <5>3. CASE Entry(th[t].l) = NoEntry BY <1>0, <5>3 DEF NoEntry, IType
        <5> QED BY <5>2, <5>3
      <4> QED BY <1>1, <1>3, <3>3, <4>1 DEF Entered, Entry
    <3> QED BY <3>2, <3>3
  <2>5. \A l \in Lookups : Preloaded(l)' BY <1>0, <1>1, <1>6, <2>1, AgeKept
  <2> QED BY <1>1, <1>6, <2>2, <2>3, <2>4, <2>5 DEF AgeInv
<1> QED BY <1>4, <1>5, <1>6 DEF IInv

\* The store: the rows are at most Slow older than the stamp of the entry.
LEMMA StepStore == ASSUME IInv, NEW t \in Workers, NEW k, Store(t, k) PROVE IInv'
<1>0. IType BY DEF IInv
<1>1. /\ UNCHANGED <<asked, now, db, gone, readers, pre>> /\ writer' = NoThread
      /\ th[t].pc = "store" /\ th[t].l \in Lookups
  BY <1>0 DEF IType, Store, Worked, DbUnchanged
<1>2. /\ th' \in [Workers -> Thread] /\ \A u \in Workers : u # t => th'[u] = th[u]
      /\ th'[t].pc = "use" /\ th'[t].l = th[t].l /\ th'[t].val = th[t].val
  <2> DEFINE r == [th[t] EXCEPT !.pc = "use", !.at = 0]
  <2>1. th[t] \in Thread /\ "use" \in Pcs /\ 0 \in Int BY <1>0, FieldsOf DEF Pcs
  <2>2. r \in Thread /\ r.pc = "use" /\ r.l = th[t].l /\ r.val = th[t].val
    BY <2>1 DEF Thread
  <2>3. Move(t, r) BY <1>0 DEF Move, Store, IType
  <2> HIDE DEF r
  <2> QED BY <1>0, <2>2, <2>3, MoveIs
<1>3. th[t].val \in Answers BY <1>0, FieldsOf DEF IInv, LockInv, CopiesLive
<1>4. /\ cache' \in [Slots -> CacheEntry]
      /\ \A s \in Slots : s # Slot(th[t].l) => cache'[s] = cache[s]
      /\ \/ cache'[Slot(th[t].l)] = [val |-> th[t].val, ts |-> now]
         \/ Entry(th[t].l) = NoEntry /\ cache' = cache
  <2>1. CASE Stamped(th[t].l, th[t].val) BY <1>0, <1>1, <1>3, <2>1, StampedIs
  <2>2. CASE Entry(th[t].l) = NoEntry /\ UNCHANGED cache BY <1>0, <2>2 DEF IType
  <2> QED BY <2>1, <2>2 DEF Store
<1>5. IType' BY <1>1, <1>2, <1>4 DEF IInv, IType
<1>6. LockInv'
  <2>1. writer = t /\ \A u \in Workers : u # t => th[u].pc # "store" /\ th[u].pc # "free"
    BY <1>1 DEF IInv, LockInv
  <2>2. readers = {} BY <2>1, CacheAssumption DEF IInv, LockInv
  <2>3. ASSUME NEW s \in Slots PROVE cache'[s].val # Freed
    <3>1. CASE s # Slot(th[t].l) BY <1>1, <1>4, <2>1, <3>1 DEF IInv, LockInv
    <3>2. CASE s = Slot(th[t].l) /\ cache'[s] = [val |-> th[t].val, ts |-> now]
      BY <1>3, <3>2, CacheAssumption DEF Answers
    <3>3. CASE s = Slot(th[t].l) /\ Entry(th[t].l) = NoEntry /\ cache' = cache
      BY <3>3, CacheAssumption DEF Entry, NoEntry
    <3> QED BY <1>4, <3>1, <3>2, <3>3
  <2> QED BY <1>1, <1>2, <2>1, <2>2, <2>3, CacheAssumption DEF IInv, LockInv, CopiesLive
<1>7. ASSUME AgeInv PROVE AgeInv'
  <2>0. now \in Int /\ th[t].at \in Int /\ TTL \in Nat /\ Slow \in Nat
    BY <1>0, FieldsOf, CacheAssumption DEF IType
  <2>1. Lasting BY <1>1 DEF Lasting, Was
  <2>2. Held(th[t].l, th[t].val, th[t].at) /\ now - th[t].at <= Slow
    BY <1>1, <1>7 DEF AgeInv, InHand
  <2>3. Held(th[t].l, th[t].val, now - Slow) /\ Held(th[t].l, th[t].val, now - (TTL + Slow))
    <3>1. now - Slow \in Int /\ now - (TTL + Slow) \in Int /\ now - Slow <= th[t].at
          /\ now - (TTL + Slow) <= th[t].at
      BY <2>0, <2>2
    <3> QED BY <1>0, <2>0, <2>2, <3>1, Earlier
  <2>4. InHand(t)' /\ InUse(t)' BY <1>1, <1>2, <2>3 DEF InHand, InUse, Held, Was
  <2>5. \A u \in Workers : InHand(u)' /\ InUse(u)' BY <1>0, <1>1, <1>2, <1>7, <2>1, <2>4, AgeKept
  <2>6. \A l \in Lookups : Preloaded(l)' BY <1>0, <1>1, <1>7, <2>1, AgeKept
  <2>7. ASSUME NEW l \in Lookups PROVE Entered(l)'
    <3>1. Slot(l) \in Slots BY DEF Slots
    <3>2. CASE cache'[Slot(l)] = cache[Slot(l)] BY <1>0, <1>1, <1>7, <2>1, <3>2, AgeKept
    <3>3. CASE Slot(l) = Slot(th[t].l) /\ cache'[Slot(l)] = [val |-> th[t].val, ts |-> now]
      <4>1. cache'[Slot(l)].val = th[t].val /\ cache'[Slot(l)].ts = now BY <3>3
      <4>2. Held(l, th[t].val, now - Slow) BY <2>3, <3>3, Shared
      <4> QED BY <1>1, <2>0, <4>1, <4>2 DEF Entered, Entry, Held, Was
    <3> QED BY <1>1, <1>4, <1>7, <3>1, <3>2, <3>3
  <2> QED BY <1>1, <1>7, <2>5, <2>6, <2>7 DEF AgeInv
<1> QED BY <1>5, <1>6, <1>7 DEF IInv

\* The rating has used its copy.
LEMMA StepUse == ASSUME IInv, NEW t \in Workers, Use(t) PROVE IInv'
<1>0. IType BY DEF IInv
<1>1. /\ UNCHANGED <<asked, now, db, gone, cache, readers, writer, pre>> /\ th[t].pc = "use"
  BY DEF Use, Worked, DbUnchanged
<1>2. /\ th' \in [Workers -> Thread] /\ \A u \in Workers : u # t => th'[u] = th[u]
      /\ th'[t] = Idle
  <2>1. Idle \in Thread BY DEF Idle, Thread, Pcs, Answers
  <2>2. Move(t, Idle) BY DEF Use, Move
  <2> QED BY <1>0, <2>1, <2>2, MoveIs
<1>3. th'[t].pc = "idle" /\ th'[t].val = None BY <1>2 DEF Idle
<1>4. IType' BY <1>1, <1>2, <1>3 DEF IInv, IType
<1>5. LockInv' BY <1>1, <1>2, <1>3, CacheAssumption DEF IInv, LockInv, CopiesLive
<1>6. ASSUME AgeInv PROVE AgeInv'
  <2>1. InHand(t)' /\ InUse(t)' BY <1>3 DEF InHand, InUse
  <2> QED BY <1>0, <1>1, <1>2, <1>6, <2>1, AgeMove
<1> QED BY <1>4, <1>5, <1>6 DEF IInv

------------------------------------------------------------------------------
(* The preloader *)

\* A step of the preloader that leaves the entries alone.
LEMMA StepPre ==
  ASSUME IInv, PreOnly, UNCHANGED <<gone, cache>>, pre' \in Preloader,
         AgeInv => \A l \in Lookups : Preloaded(l)'
  PROVE IInv'
<1>0. IType /\ UNCHANGED <<asked, now, db, gone, cache, readers, writer, th>>
  BY DEF IInv, PreOnly, DbUnchanged
<1>1. IType' BY <1>0 DEF IType
<1>2. LockInv' BY <1>0 DEF IInv, LockInv, CopiesLive
<1>3. ASSUME AgeInv PROVE AgeInv'
  <2>1. Lasting BY <1>0 DEF Lasting, Was
  <2>2. \A u \in Workers : InHand(u)' /\ InUse(u)' BY <1>0, <1>3, <2>1, AgeKept
  <2>3. \A l \in Lookups : Entered(l)' BY <1>0, <1>3, <2>1, AgeKept
  <2> QED BY <1>0, <1>3, <2>2, <2>3 DEF AgeInv
<1> QED BY <1>1, <1>2, <1>3 DEF IInv

\* The fields of the preloader.
LEMMA PreOf ==
  ASSUME IType
  PROVE /\ pre \in Preloader /\ pre.pc \in PrePcs /\ pre.todo \in SUBSET Lookups
        /\ pre.need \in SUBSET Lookups /\ pre.rows \in [Lookups -> Answers] /\ pre.at \in Int
BY DEF IType, Preloader

\* The preload starts.
LEMMA StepPreloadStart == ASSUME IInv, PreloadStart PROVE IInv'
<1>0. IType BY DEF IInv
<1>1. PICK first \in OfKind("racc") :
        pre' = [pre EXCEPT !.pc = "racc", !.todo = Batch(first), !.need = {}]
  BY DEF PreloadStart
<1> DEFINE k == Batch(first)
           r == [pre EXCEPT !.pc = "racc", !.todo = k, !.need = {}]
<1>2. k \in SUBSET Lookups /\ {} \in SUBSET Lookups /\ "racc" \in PrePcs /\ pre \in Preloader
  BY <1>0 DEF Batch, PrePcs, IType
<1>3. pre' = r /\ PreOnly /\ UNCHANGED <<gone, cache>> BY <1>1 DEF PreloadStart
<1> HIDE DEF k
<1>4. r \in Preloader /\ r.pc = "racc" BY <1>2 DEF Preloader
<1> HIDE DEF r
<1> QED BY <1>3, <1>4, StepPre DEF Preloaded

\* The preload finds an entry there.
LEMMA StepPreloadSeen == ASSUME IInv, NEW l \in Lookups, PreloadSeen(l) PROVE IInv'
<1>0. IType BY DEF IInv
<1> DEFINE n == IF Fresh(l) THEN pre.need ELSE pre.need \cup {l}
           d == pre.todo \ {l}
           r == [pre EXCEPT !.todo = d, !.need = n]
<1>1. d \in SUBSET Lookups /\ n \in SUBSET Lookups /\ pre \in Preloader BY <1>0, PreOf
<1>2. pre' = r /\ PreOnly /\ UNCHANGED <<gone, cache>> /\ pre.pc = "racc" BY DEF PreloadSeen
<1> HIDE DEF n, d
<1>3. r \in Preloader /\ r.pc = pre.pc BY <1>1 DEF Preloader
<1> HIDE DEF r
<1> QED BY <1>2, <1>3, StepPre DEF Preloaded

\* The select of the preload: its rows are the tables' at this time.
LEMMA StepPreloadSelect ==
  ASSUME IInv, NEW p, NEW n \in PrePcs, PreloadSelect(p, n) PROVE IInv'
<1>0. IType /\ PreOnly /\ UNCHANGED <<gone, cache>> BY DEF IInv, PreloadSelect
<1>1. pre \in Preloader /\ pre.need \in SUBSET Lookups /\ pre.rows \in [Lookups -> Answers]
      /\ now \in Int /\ db \in [Lookups -> Answers]
  BY <1>0, PreOf DEF IType
<1> DEFINE R == [l \in Lookups |-> IF l \in pre.need THEN db[l] ELSE pre.rows[l]]
           N == {l \in pre.need : db[l] # None}
           full == [pre EXCEPT !.pc = n, !.at = now, !.rows = R, !.need = N]
           none == [pre EXCEPT !.pc = n, !.need = {}]
<1>2. pre' = full \/ pre' = none BY DEF PreloadSelect
<1>3. R \in [Lookups -> Answers] /\ N \in SUBSET Lookups
      /\ \A l \in N : R[l] = db[l] /\ db[l] \in Answers
  BY <1>1
<1> HIDE DEF R, N
<1>4. full \in Preloader /\ full.need = N /\ full.rows = R /\ full.at = now
  BY <1>1, <1>3 DEF Preloader
<1>5. none \in Preloader /\ none.need = {} BY <1>1 DEF Preloader
<1> HIDE DEF full, none
<1>6. CASE pre' = full
  <2>1. \A l \in Lookups : Preloaded(l)'
    <3>1. \A l \in N : Held(l, R[l], now)
      BY <1>1, <1>3, OwnAnswered DEF Was
    <3> QED BY <1>0, <1>1, <1>4, <1>6, <3>1, CacheAssumption
            DEF Preloaded, Held, Was, PreOnly, DbUnchanged
  <2> QED BY <1>0, <1>4, <1>6, <2>1, StepPre
<1>7. CASE pre' = none BY <1>0, <1>5, <1>7, StepPre DEF Preloaded
<1> QED BY <1>2, <1>6, <1>7

\* The put of the preload.
LEMMA StepPreloadPut == ASSUME IInv, NEW l \in Lookups, PreloadPut(l) PROVE IInv'
<1>0. IType BY DEF IInv
<1>1. /\ UNCHANGED <<asked, now, db, gone, readers, writer, th>>
      /\ pre.pc \in {"raccs", "pcards"} /\ l \in pre.need /\ readers = {} /\ writer = NoThread
  BY DEF PreloadPut, PreOnly, DbUnchanged
<1>2. pre' \in Preloader /\ pre'.pc = pre.pc /\ pre'.need = pre.need \ {l}
      /\ pre'.rows = pre.rows /\ pre'.at = pre.at
  <2> DEFINE d == pre.need \ {l}
             r == [pre EXCEPT !.need = d]
  <2>1. d \in SUBSET Lookups /\ pre \in Preloader BY <1>0, PreOf
  <2>2. pre' = r BY DEF PreloadPut
  <2> HIDE DEF d
  <2>3. r \in Preloader /\ r.pc = pre.pc /\ r.need = d /\ r.rows = pre.rows /\ r.at = pre.at
    BY <2>1 DEF Preloader
  <2> QED BY <2>2, <2>3 DEF d
<1>3. pre.rows[l] \in Answers /\ pre.at \in Int BY <1>0, PreOf
<1>4. /\ cache' \in [Slots -> CacheEntry]
      /\ cache'[Slot(l)] = [val |-> pre.rows[l], ts |-> now]
      /\ \A s \in Slots : s # Slot(l) => cache'[s] = cache[s]
  BY <1>0, <1>3, StampedIs DEF PreloadPut
<1>5. IType' BY <1>0, <1>1, <1>2, <1>4 DEF IType
<1>6. LockInv'
  <2>1. cache'[Slot(l)].val # Freed BY <1>3, <1>4, CacheAssumption DEF Answers
  <2> QED BY <1>1, <1>4, <2>1 DEF IInv, LockInv, CopiesLive
<1>7. ASSUME AgeInv PROVE AgeInv'
  <2>0. now \in Int /\ Slow \in Nat BY <1>0, CacheAssumption DEF IType
  <2>1. Lasting BY <1>1 DEF Lasting, Was
  <2>2. \A u \in Workers : InHand(u)' /\ InUse(u)' BY <1>0, <1>1, <1>7, <2>1, AgeKept
  <2>3. \A m \in Lookups : Preloaded(m)' BY <1>1, <1>2, <1>7 DEF AgeInv, Preloaded, Held, Was
  <2>4. Held(l, pre.rows[l], now - Slow)
    <3>1. Preloaded(l) BY <1>7 DEF AgeInv
    <3>2. Held(l, pre.rows[l], pre.at) /\ now - pre.at <= Slow BY <1>1, <3>1 DEF Preloaded
    <3>3. now - Slow \in Int /\ now - Slow <= pre.at BY <1>3, <2>0, <3>2
    <3> QED BY <1>0, <1>3, <3>2, <3>3, Earlier
  <2>5. ASSUME NEW m \in Lookups PROVE Entered(m)'
    <3>1. Slot(m) \in Slots BY DEF Slots
    <3>2. CASE Slot(m) # Slot(l) BY <1>0, <1>1, <1>4, <1>7, <2>1, <3>1, <3>2, AgeKept
    <3>3. CASE Slot(m) = Slot(l)
      <4>1. cache'[Slot(m)].val = pre.rows[l] /\ cache'[Slot(m)].ts = now BY <1>4, <3>3
      <4>2. Held(m, pre.rows[l], now - Slow) BY <2>4, <3>3, Shared
      <4> QED BY <1>1, <2>0, <4>1, <4>2 DEF Entered, Entry, Held, Was
    <3> QED BY <3>2, <3>3
  <2> QED BY <1>1, <1>7, <2>2, <2>3, <2>5 DEF AgeInv
<1> QED BY <1>5, <1>6, <1>7 DEF IInv

\* The idle preloader.
LEMMA PreIdleOf ==
  PreIdle \in Preloader /\ PreIdle.pc = "idle" /\ PreIdle.need = {}
BY DEF PreIdle, Preloader, PrePcs, Answers

\* The preload has walked the accounts.
LEMMA StepPreloadWalk == ASSUME IInv, PreloadWalk PROVE IInv'
<1>0. IType BY DEF IInv
<1> DEFINE n == IF CachedAccounts THEN OfKind("pcard") ELSE {}
           r == [PreIdle EXCEPT !.pc = "pcard", !.need = n]
<1>1. n \in SUBSET Lookups /\ "pcard" \in PrePcs BY <1>0 DEF OfKind, PrePcs, IType
<1>2. pre' = r /\ PreOnly /\ UNCHANGED <<gone, cache>> BY DEF PreloadWalk
<1> HIDE DEF n
<1>3. r \in Preloader /\ r.pc = "pcard" BY <1>1, PreIdleOf DEF Preloader
<1> HIDE DEF r
<1> QED BY <1>2, <1>3, StepPre DEF Preloaded

\* The preload is over.
LEMMA StepPreloadEnd == ASSUME IInv, PreloadEnd PROVE IInv'
BY StepPre, PreIdleOf DEF PreloadEnd, Preloaded

------------------------------------------------------------------------------
(* The database and the clock *)

\* A change of a table ends what the lookup answered; it was true until now.
LEMMA StepChange == ASSUME IInv, NEW l \in Lookups, Change(l) PROVE IInv'
<1>0. IType BY DEF IInv
<1>1. UNCHANGED <<asked, now, cache, readers, writer, th, pre>> BY DEF Change
<1>2. PICK v \in Answers : db' = [db EXCEPT ![l] = v] BY DEF Change
<1>3. db' \in [Lookups -> Answers] /\ \A m \in Lookups : m # l => db'[m] = db[m]
  BY <1>0, <1>2 DEF IType
<1>4. /\ gone' \in [Lookups -> [Answers -> Int]] /\ gone'[l][db[l]] = now /\ db[l] \in Answers
      /\ \A m \in Lookups, w \in Answers : m # l \/ w # db[l] => gone'[m][w] = gone[m][w]
  <2>1. db[l] \in Answers BY <1>0 DEF IType
  <2> QED BY <1>0, <2>1, GoneIs DEF Change
<1>5. IType' BY <1>0, <1>1, <1>3, <1>4 DEF IType
<1>6. LockInv' BY <1>1 DEF IInv, LockInv, CopiesLive
<1>7. ASSUME AgeInv PROVE AgeInv'
  <2>1. now \in Int /\ gone \in [Lookups -> [Answers -> Int]] BY <1>0 DEF IType
  <2>2. Lasting BY <1>3, <1>4, <2>1 DEF Lasting, Was
  <2>3. \A m \in Lookups, w \in Answers : gone'[m][w] <= now'
    BY <1>1, <1>4, <1>7, <2>1 DEF AgeInv
  <2>4. \A u \in Workers : InHand(u)' /\ InUse(u)' BY <1>0, <1>1, <1>7, <2>2, AgeKept
  <2>5. \A m \in Lookups : Preloaded(m)' /\ Entered(m)' BY <1>0, <1>1, <1>7, <2>2, AgeKept
  <2> QED BY <2>3, <2>4, <2>5 DEF AgeInv
<1> QED BY <1>5, <1>6, <1>7 DEF IInv

\* A second passes: nothing is in use and no put is overdue.
LEMMA StepTick == ASSUME IInv, Tick PROVE IInv'
<1>0. IType BY DEF IInv
<1>1. UNCHANGED <<asked, db, gone, cache, readers, writer, th, pre>> /\ now' = now + 1 BY DEF Tick
<1>2. IType' BY <1>0, <1>1 DEF IType
<1>3. LockInv' BY <1>1 DEF IInv, LockInv, CopiesLive
<1>4. ASSUME AgeInv PROVE AgeInv'
  <2>0. now \in Nat /\ Slow \in Nat BY <1>0, CacheAssumption DEF IType
  <2>1. ASSUME NEW u \in Workers PROVE InHand(u)' /\ InUse(u)'
    <3>1. th[u].at \in Int /\ th[u].pc # "use" /\ InTime(th[u].pc, th[u].at)
      BY <1>0, FieldsOf DEF Tick
    <3>2. InHand(u) BY <1>4 DEF AgeInv
    <3> QED BY <1>1, <2>0, <3>1, <3>2 DEF InHand, InUse, InTime, Held, Was
  <2>2. ASSUME NEW l \in Lookups PROVE Preloaded(l)'
    <3>1. pre.at \in Int /\ InTime(pre.pc, pre.at) BY <1>0, PreOf DEF Tick
    <3>2. Preloaded(l) BY <1>4 DEF AgeInv
    <3> QED BY <1>1, <2>0, <3>1, <3>2 DEF Preloaded, InTime, Held, Was
  <2>3. ASSUME NEW l \in Lookups PROVE Entered(l)'
    <3>1. Entry(l).ts \in Int /\ Entered(l) BY <1>0, <1>4, EntryOf DEF AgeInv
    <3> QED BY <1>1, <2>0, <3>1 DEF Entered, Entry, Held, Was
  <2>4. \A l \in Lookups, v \in Answers : gone'[l][v] <= now'
    BY <1>0, <1>1, <1>4, <2>0 DEF AgeInv, IType
  <2> QED BY <2>1, <2>2, <2>3, <2>4 DEF AgeInv
<1> QED BY <1>2, <1>3, <1>4 DEF IInv

------------------------------------------------------------------------------
(* The theorems *)

\* The invariant holds on the empty cache.
LEMMA InitIInv == ASSUME Init PROVE IInv
<1>1. asked \subseteq Lookups
  <2>1. PICK n \in Needs : asked = n.lookups BY DEF Init
  <2> QED BY <2>1, CacheAssumption
<1>2. NoEntry \in CacheEntry /\ NoEntry.val = None BY DEF NoEntry, CacheEntry, Answers
<1>3. Idle \in Thread /\ Idle.pc = "idle" /\ Idle.val = None BY DEF Idle, Thread, Pcs, Answers
<1>4. /\ cache \in [Slots -> CacheEntry] /\ \A s \in Slots : cache[s] = NoEntry
      /\ th \in [Workers -> Thread] /\ \A t \in Workers : th[t] = Idle
  BY <1>2, <1>3 DEF Init
<1>5. db \in [Lookups -> Answers] BY DEF Init, Answers
<1>6. gone \in [Lookups -> [Answers -> Int]] /\ \A l \in Lookups, v \in Answers : gone[l][v] = -1
  BY DEF Init
<1>7. IType BY <1>1, <1>3, <1>4, <1>5, <1>6, PreIdleOf DEF Init, IType
<1>8. LockInv BY <1>2, <1>3, <1>4, CacheAssumption DEF Init, LockInv, CopiesLive
<1>9. AgeInv
  <2>1. \A t \in Workers : InHand(t) /\ InUse(t) BY <1>3, <1>4 DEF InHand, InUse
  <2>2. \A l \in Lookups : Preloaded(l) BY PreIdleOf DEF Init, Preloaded
  <2>3. \A l \in Lookups : Entered(l) BY <1>4 DEF Entered, Entry, Slots
  <2> QED BY <1>6, <2>1, <2>2, <2>3 DEF AgeInv, Init
<1> QED BY <1>7, <1>8, <1>9 DEF IInv

\* Every step keeps the invariant.
LEMMA StepIInv == ASSUME IInv, [Next]_vars PROVE IInv'
<1>1. ASSUME NEW t \in Workers, Ask(t) \/ Worker(t) PROVE IInv'
  <2>1. CASE Ask(t) BY <2>1, StepAsk
  <2>2. CASE RdLock(t) BY <2>2, StepRdLock
  <2>3. ASSUME NEW k, Copy(t, k) PROVE IInv' BY <2>3, StepCopy
  <2>4. ASSUME NEW k, NEW f \in BOOLEAN, Query(t, k, f) PROVE IInv' BY <2>4, StepQuery
  <2>5. CASE WrLock(t) BY <2>5, StepWrLock
  <2>6. CASE FreeOld(t) BY <2>6, StepFreeOld
  <2>7. ASSUME NEW k, Store(t, k) PROVE IInv' BY <2>7, StepStore
  <2>8. CASE Use(t) BY <2>8, StepUse
  <2> QED
    BY <1>1, <2>1, <2>2, <2>3, <2>4, <2>5, <2>6, <2>7, <2>8
    DEF Worker, RatesGet, TariffGet, RaccGet, PcardGet, TcGet, FbsGet,
        RateSql, TariffSql, RaccSql, PcardSql, TimeCondQueryId, FreeBillsecQuery,
        RatesPut, TariffPut, RaccPut, PcardPut, TcPut, FbsPut
<1>2. CASE PreloadStart BY <1>2, StepPreloadStart
<1>3. CASE Preload
  <2>1. "raccs" \in PrePcs /\ "pcards" \in PrePcs BY DEF PrePcs
  <2> QED BY <1>3, <2>1, StepPreloadSeen, StepPreloadPut, StepPreloadSelect,
             StepPreloadWalk, StepPreloadEnd DEF Preload
<1>4. ASSUME NEW l \in Lookups, Change(l) PROVE IInv' BY <1>4, StepChange
<1>5. CASE Tick BY <1>5, StepTick
<1>6. CASE UNCHANGED vars
  BY <1>6 DEF vars, IInv, IType, LockInv, CopiesLive, AgeInv, InHand, InUse, Preloaded, Entered,
              Entry, Held, Was
<1> QED BY <1>1, <1>2, <1>3, <1>4, <1>5, <1>6 DEF Next

\* No rating works with an array that a put has freed: the copies are made under
\* the lock that rt_cache_put takes for writing (rt_cache.c).
THEOREM NoCopyFreed == Spec => []CopiesLive
<1>1. IInv => CopiesLive BY DEF IInv, LockInv
<1> QED BY <1>1, InitIInv, StepIInv, PTL DEF Spec

\* A rating never works with rows that no select of the entry gave in the last
\* TTL + Slow seconds (the time stamp is that of the put, up to Slow after the
\* select); only the entries of accounts have several selects.
THEOREM AgeBounded == Spec => []StaleBounded
<1>1. IInv => StaleBounded BY DEF IInv, AgeInv, InUse, Held, Was, Recent, StaleBounded
<1> QED BY <1>1, InitIInv, StepIInv, PTL DEF Spec
==============================================================================
