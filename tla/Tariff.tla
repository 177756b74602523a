-------------------------------- MODULE Tariff --------------------------------
(***************************************************************************)
(* The price of a call: calc_functions.c and round_billsec.c of the Rating *)
(* module, and the price walk and free-seconds split that RatingDuckDB     *)
(* writes in SQL. A tariff is a sequence of steps [delta, fee, iter]: a    *)
(* block of delta seconds costs fee, the step covers iter blocks, 0 for    *)
(* any number. Prices are in the smallest unit of the currency.            *)
(***************************************************************************)
EXTENDS Integers, Sequences, SequencesExt

CeilDiv(a, b) == -((-a) \div b)

------------------------------------------------------------------------------
(* calc_cprice_2. *)

Walk0(billsec) == [cprice |-> 0, billsec |-> 0, checksec |-> billsec, done |-> FALSE]

Charge(s, e, n) ==
  [s EXCEPT !.cprice = @ + n * e.fee, !.billsec = @ + n * e.delta, !.checksec = @ - n * e.delta]

StepNoBreak(s, e) ==
  LET units == CeilDiv(s.checksec, e.delta) IN
    CASE s.done -> s
      [] ~s.done /\ e.iter = 0 -> [Charge(s, e, units) EXCEPT !.done = TRUE]
      [] OTHER -> Charge(s, e, Min({units, e.iter}))

\* A bounded step that needs exactly one block ends the walk, any other count
\* goes on with the seconds that are left, none or fewer than none included.
Step(s, e) ==
  LET units == CeilDiv(s.checksec, e.delta) IN
    CASE s.done -> s
      [] ~s.done /\ e.iter = 0 -> [Charge(s, e, units) EXCEPT !.done = TRUE]
      [] OTHER -> [Charge(s, e, Min({units, e.iter})) EXCEPT !.done = (units = 1)]

Walk(t, billsec) ==
  LET w[p \in 0 .. Len(t)] == IF p = 0 THEN Walk0(billsec) ELSE Step(w[p - 1], t[p]) IN w

\* The price and the billed seconds, and whether the tariff covers the call.
CalcCprice2(t, billsec) ==
  LET s == Walk(t, billsec)[Len(t)]
  IN  [cprice |-> s.cprice, billsec |-> s.billsec, ok |-> s.checksec <= 0]

\* round_billsec and its use: a rounded value of 0 leaves the seconds of the CDR.
\* The duration is in parts of a second, PerSec to the second.
Rounded(mode, billsec, dur, PerSec) ==
  LET r == CASE mode = 1 -> CeilDiv(dur, PerSec)
             [] mode = 2 -> dur \div PerSec
             [] OTHER -> 0
  IN  IF r = 0 THEN billsec ELSE r

------------------------------------------------------------------------------
(* calc_maxsec. *)

AffordableUp(limit, e) == IF e.fee > 0 THEN CeilDiv(limit, e.fee) ELSE 1

\* The whole blocks that the credit pays for; a free block counts once.
Affordable(limit, e) == IF e.fee > 0 THEN limit \div e.fee ELSE 1

MaxsecStep(s, e, free) ==
  LET kept == IF free > 0 /\ s.maxsec < e.delta THEN 0 ELSE s.maxsec
      units == Affordable(s.limit, e)
      n == IF e.iter = 0 THEN units ELSE Min({units, e.iter})
  IN  CASE s.done -> s
        [] ~s.done /\ s.limit <= 0 -> [s EXCEPT !.maxsec = kept, !.done = TRUE]
        [] OTHER -> [maxsec |-> kept + n * e.delta, limit |-> s.limit - n * e.fee,
                     done |-> e.iter = 0]

Maxsec0(limit, free, cap) ==
  [maxsec |-> Max({free, 0}), limit |-> limit, done |-> free > 0 /\ cap <= free]

MaxsecWalk(t, limit, free, cap) ==
  LET w[p \in 0 .. Len(t)] ==
        IF p = 0 THEN Maxsec0(limit, free, cap) ELSE MaxsecStep(w[p - 1], t[p], free)
  IN  w

CalcMaxsec(t, limit, free, cap) == Min({cap, MaxsecWalk(t, limit, free, cap)[Len(t)].maxsec})

------------------------------------------------------------------------------
(* RatingDuckDB: price_walk, and the free seconds of each call of a batch.  *)

DuckUnits(rem, e) == IF e.delta = 0 THEN 1 ELSE CeilDiv(rem, e.delta)
DuckCharge(u, e) == IF e.iter = 0 \/ u <= e.iter THEN u ELSE e.iter

DuckStep(s, e) ==
  LET u == DuckUnits(s.rem, e)
      n == DuckCharge(u, e)
  IN  IF s.done THEN s
      ELSE [rem |-> s.rem - n * e.delta, price |-> s.price + n * e.fee,
            bsec |-> s.bsec + n * e.delta,
            done |-> e.iter = 0 \/ e.delta = 0 \/ u = 1]

DuckWalk(t, sec) ==
  LET w[p \in 0 .. Len(t)] ==
        IF p = 0 THEN [rem |-> sec, price |-> 0, bsec |-> 0, done |-> FALSE]
        ELSE DuckStep(w[p - 1], t[p])
  IN  w

PriceWalk(t, sec) ==
  [cprice |-> DuckWalk(t, sec)[Len(t)].price, billsec |-> DuckWalk(t, sec)[Len(t)].bsec]

\* sum(...) over (rows unbounded preceding): of the first n calls.
SumTo(bs) == LET sum[n \in 0 .. Len(bs)] == IF n = 0 THEN 0 ELSE sum[n - 1] + bs[n] IN sum

SplitWithOwn(bs, limit, used) ==
  [i \in DOMAIN bs |-> Max({0, Min({bs[i], limit - (used + SumTo(bs)[i])})})]

\* The running sum of the calls before, over the seconds used in earlier batches.
Split(bs, limit, used) ==
  [i \in DOMAIN bs |-> Max({0, Min({bs[i], limit - (used + SumTo(bs)[i - 1])})})]

------------------------------------------------------------------------------
(* Reference definitions. *)

\* The seconds that the first p steps leave to the later ones.
Left(t, billsec) ==
  LET left[p \in 0 .. Len(t)] ==
        IF p = 0 THEN billsec
        ELSE IF t[p].iter = 0 THEN 0 ELSE Max({0, left[p - 1] - t[p].iter * t[p].delta})
  IN  left

\* Each started block costs its fee; a step that needs no more blocks is the last.
Blocks(t, billsec, p) ==
  LET n == CeilDiv(Left(t, billsec)[p - 1], t[p].delta)
  IN  IF t[p].iter = 0 THEN n ELSE Min({n, t[p].iter})

RefPrice(t, billsec) ==
  LET n == Len(t)
      cost == SumTo([p \in 1 .. n |-> Blocks(t, billsec, p) * t[p].fee])
      secs == SumTo([p \in 1 .. n |-> Blocks(t, billsec, p) * t[p].delta])
  IN  [cprice |-> cost[n], billsec |-> secs[n]]

\* Consume the pool call after call, as the batch rater does.
Pool(bs, limit, used) ==
  LET left[i \in 0 .. Len(bs)] ==
        IF i = 0 THEN Max({0, limit - used}) ELSE left[i - 1] - Min({bs[i], left[i - 1]})
  IN  left

Drawdown(bs, limit, used) ==
  [i \in DOMAIN bs |-> Pool(bs, limit, used)[i - 1] - Pool(bs, limit, used)[i]]
=============================================================================
