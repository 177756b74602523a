------------------------------- MODULE Pricing -------------------------------
(***************************************************************************)
(* The way of one call through the rating: filter the number, find the     *)
(* account, the card, the rate, then price it (rt_main, rt_exec) or tell   *)
(* the seconds its credit allows (rt_maxsec). Each step meets any content  *)
(* of its tables; did, in and out hold the last step, what it met and what *)
(* it decided. RatingDuckDB takes the batches in between.                  *)
(***************************************************************************)
EXTENDS Tariff, Selection

CONSTANTS
  FilterInputs,    \* [number, filters]
  AccountInputs,   \* [type, leg, found, long, empty]
  CardInputs,      \* [y, m, d, bday, cards]
  RateInputs,      \* [rates, now, ts]
  PriceInputs,     \* [tariff, billsec, mode, dur]
  CreditInputs,    \* [tariff, limit, free, cap]
  BatchInputs,     \* [calls, limit, used]
  Wilds,           \* what may lie before the table of the days
  PerSec           \* parts of a second in a duration

ASSUME PerSecAssumption == PerSec \in Nat \ {0}

Digits == 0 .. 9
Filters == [prefix : Seq(Digits), cut : Nat, replace : Seq(Digits), len : Nat]
RatePrefixes == {Wildcard} \cup Seq(Digits)
TariffSteps == [delta : Nat \ {0}, fee : Nat, iter : Nat]
Tariffs == Seq(TariffSteps)

\* A number and its filters are of digits.
ASSUME FilterAssumption ==
  FilterInputs \subseteq [number : Seq(Digits), filters : Seq(Filters)]

\* The days are calendar days; the billing day may be missing.
ASSUME CardAssumption ==
  \A x \in CardInputs : x.y \in Nat /\ x.m \in 1 .. 12 /\ x.d \in 1 .. 31 /\ x.bday \in 0 .. 31

\* A prefix is of digits or the catch-all; a step finds what it may use.
ASSUME RateAssumption ==
  \A x \in RateInputs : "usable" \in DOMAIN x /\ \A r \in x.rates : r.prefix \in RatePrefixes

\* tariff_pricing.c asks for blocks of a positive length.
ASSUME TariffAssumption ==
  /\ PriceInputs \subseteq [tariff : Tariffs, billsec : Nat, mode : Nat, dur : Nat]
  /\ CreditInputs \subseteq [tariff : Tariffs, limit : Nat, free : Int, cap : Nat]
  /\ BatchInputs \subseteq [calls : Seq(Nat), limit : Nat, used : Nat]

VARIABLES step, did, in, out, cld
pricingVars == <<step, did, in, out, cld>>

PricingInit == step = "cdr" /\ did = "none" /\ in = <<>> /\ out = <<>> /\ cld = <<>>

Decide(op, input, decision, next) ==
  did = "none" /\ did' = op /\ in' = input /\ out' = decision /\ step' = next

\* cdr_called_number_filtering_match, before the CDR is stored.
FilteringMatch ==
  /\ step = "cdr"
  /\ \E x \in FilterInputs :
       /\ Decide("filter", x, CalledNumber(x.filters, x.number), "account")
       /\ cld' = CalledNumber(x.filters, x.number)

\* rt_main: without an account there is no plan and the call is refused.
RaccSearch ==
  /\ step = "account"
  /\ \E x \in AccountInputs :
       LET mode == Account(x.type, x.leg, x.found, x.long, x.empty)
       IN  Decide("account", x, mode, IF mode = "none" THEN "cdr" ELSE "card")
  /\ UNCHANGED cld

\* pcard_manager: a call without a card is priced and not charged.
PcardSearch ==
  /\ step = "card"
  /\ \E x \in CardInputs : Decide("card", x, PcardManager(x.cards, x.y, x.m, x.d, x.bday), "rate")
  /\ UNCHANGED cld

\* rt_rate_searching.
RateSearching ==
  /\ step = "rate"
  /\ \E x \in RateInputs, wild \in Wilds, raw \in BOOLEAN :
       LET rate == PrefixSql(x.rates, cld, x.now, x.ts, wild, raw)
       IN  Decide("rate", [x EXCEPT !.usable = {r \in x.rates :
                             /\ ChkRatePeriods(r, x.now)
                             /\ TariffApplies(r.conds, x.ts, wild, raw)}],
                  rate, IF rate = NoRate THEN "cdr" ELSE "price")
  /\ UNCHANGED cld

\* rt_exec: round the seconds, then calc_cprice_group.
CalcCprice ==
  /\ step = "price"
  /\ \E x \in PriceInputs :
       LET billsec == Rounded(x.mode, x.billsec, x.dur, PerSec)
       IN  Decide("price", [x EXCEPT !.billsec = billsec], CalcCprice2(x.tariff, billsec), "cdr")
  /\ UNCHANGED cld

\* rt_maxsec: the call may take out seconds.
Maxsec ==
  /\ step = "price"
  /\ \E x \in CreditInputs :
       Decide("maxsec", x, CalcMaxsec(x.tariff, x.limit, x.free, x.cap), "cdr")
  /\ UNCHANGED cld

\* The calls of one account and period in a batch of RatingDuckDB.
DuckBatch ==
  /\ step = "cdr"
  /\ \E x \in BatchInputs : Decide("batch", x, Split(x.calls, x.limit, x.used), "cdr")
  /\ UNCHANGED cld

\* The step's function returns.
Return ==
  /\ did # "none"
  /\ did' = "none" /\ in' = <<>> /\ out' = <<>>
  /\ cld' = IF step \in {"cdr", "price"} THEN <<>> ELSE cld
  /\ UNCHANGED step

PricingNext ==
  \/ Return
  \/ FilteringMatch \/ RaccSearch \/ PcardSearch \/ RateSearching
  \/ CalcCprice \/ Maxsec \/ DuckBatch

PricingSpec == PricingInit /\ [][PricingNext]_pricingVars

------------------------------------------------------------------------------
Usable == {r \in in.usable : PrefixFits(r, cld)}
PrefixLen(r) == IF r.prefix = Wildcard THEN 0 ELSE Len(r.prefix)

\* The rate of a call is that of the longest prefix of its number among the rates
\* that are valid and apply at its time; "order by prefix desc" and the first hit
\* give it, the catch-all "&" last (rt_data_q_prefix_sql).
LongestPrefix ==
  did = "rate" =>
    IF Usable = {} THEN out = NoRate
    ELSE out \in Usable /\ \A r \in Usable : PrefixLen(r) <= PrefixLen(out)

\* A month ends on its 28th to 31st.
Tomorrows(y, m, d) ==
  (IF d < 31 THEN {<<y, m, d + 1>>} ELSE {})
    \cup (IF d < 28 THEN {} ELSE IF m < 12 THEN {<<y, m + 1, 1>>} ELSE {<<y + 1, 1, 1>>})

\* Every day lies in its billing period, and tomorrow's period is today's or
\* starts where today's ends: no day falls between two balances or into two
\* (pcard_manager, for every billing day, in short months and over the new year).
CyclesTile ==
  did = "card" =>
    LET today == Cycle(in.y, in.m, in.d, in.bday) IN
      /\ today.start <= Date(in.y, in.m, in.d) /\ Date(in.y, in.m, in.d) < today.end
      /\ \A t \in Tomorrows(in.y, in.m, in.d) :
           LET next == Cycle(t[1], t[2], t[3], in.bday)
           IN  next = today \/ next.start = today.end

\* The tariffs that calc_cprice_2 can walk past without taking seconds back: a
\* step of several blocks is followed by no smaller blocks, in any later step.
Steady(t) ==
  /\ \A p, q \in 1 .. Len(t) : p < q => t[p].iter = 0 \/ t[p].iter = 1 \/ t[p].delta <= t[q].delta
  /\ \A p \in 1 .. Len(t) : t[p].delta > 0

\* The price and the billed seconds of a call are those of its started blocks, and
\* the call is refused exactly when the blocks do not cover it (calc_cprice_2).
PriceIsReference ==
  did = "price" /\ Steady(in.tariff) =>
    /\ out.cprice = RefPrice(in.tariff, in.billsec).cprice
    /\ out.billsec = RefPrice(in.tariff, in.billsec).billsec
    /\ out.ok <=> out.billsec >= in.billsec

\* RatingDuckDB prices a call as the Rating module does, for every tariff with
\* blocks of a positive length (tariff_pricing.c asks for it), and the free seconds
\* it gives to the calls of a batch from a running sum are those of the pool
\* consumed call after call.
DuckParity ==
  /\ did = "price" =>
       PriceWalk(in.tariff, in.billsec) = [cprice |-> out.cprice, billsec |-> out.billsec]
  /\ did = "batch" => out = Drawdown(in.calls, in.limit, in.used)

Rising(t) == \A p \in 1 .. Len(t) - 1 : t[p].fee <= t[p + 1].fee

\* A call that ends at its maxsec costs no more than the credit that allowed it, on
\* tariffs whose blocks never get cheaper (calc_maxsec against calc_cprice_2).
CreditHolds ==
  did = "maxsec" /\ in.free <= 0 /\ Steady(in.tariff) /\ Rising(in.tariff) =>
    CalcCprice2(in.tariff, out).cprice <= in.limit

\* The same for every tariff.
CreditHoldsAlways ==
  did = "maxsec" /\ in.free <= 0 => CalcCprice2(in.tariff, out).cprice <= in.limit

\* RatingDuckDB takes the account that the Rating module takes (rt_build_acct_union,
\* "the first that resolves an account wins").
SameAccount == did = "account" => out = DuckAccount(in.type, in.leg, in.found)

\* RatingDuckDB takes the rate that the Rating module takes.
SameRate == did = "rate" => out = DuckRate(in.rates, cld, in.ts)
=============================================================================
