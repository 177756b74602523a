------------------------------ MODULE Selection ------------------------------
(***************************************************************************)
(* What a call is rated with: the called number after the prefix filters   *)
(* (cdr.c, prefix_filter.c), the account modes (rating.c), the payment     *)
(* card and its period (pcard.c), the rate of the longest prefix           *)
(* (rt_data_q.c) and the time conditions of its tariff (time_cond.c); and  *)
(* the choices RatingDuckDB makes of the same tables in SQL.               *)
(* Numbers and prefixes are sequences of digits.                           *)
(***************************************************************************)
EXTENDS Integers, Sequences, SequencesExt

------------------------------------------------------------------------------
(* Prefix filters [prefix, cut, replace, len]. *)

FilterMatches(f, n) == (f.len > 0 => Len(n) = f.len) /\ IsPrefix(f.prefix, n)

\* prefix_filter_cuti_replace; <<>> also when nothing is left.
CutiReplace(f, n) ==
  IF FilterMatches(f, n) THEN f.replace \o SubSeq(n, f.cut + 1, Len(n)) ELSE <<>>

\* The first filter with a result rewrites the number.
CalledNumber(filters, n) ==
  LET hits == {i \in DOMAIN filters : CutiReplace(filters[i], n) # <<>>}
  IN  IF hits = {} THEN n ELSE CutiReplace(filters[Min(hits)], n)

------------------------------------------------------------------------------
(* Account modes in the order they are tried, by record type and leg.       *)

AccountModes(type, leg) ==
  CASE type = "unkn" /\ leg = "a" -> <<"clg", "acode", "srcc", "srctg">>
    [] type = "unkn" /\ leg = "b" -> <<"dstc", "dsttg">>
    [] type = "isup" /\ leg = "a" -> <<"srctg">>
    [] type = "isup" /\ leg = "b" -> <<"dsttg">>
    [] type = "sms" -> <<"sms">>
    [] type = "voip_a" -> <<"clg", "acode">>
    [] type = "voip_t" /\ leg = "a" -> <<"acode", "srcc">>
    [] type = "voip_t" /\ leg = "b" -> <<"dstc">>
    [] OTHER -> <<>>

\* The account found, or none. rt_data_q_racc gives NULL, and the next mode is
\* tried, only when the value cannot be quoted (in "long"); leg b of an unknown
\* record skips the modes whose value is empty.
Account(type, leg, found, long, empty) ==
  LET modes == AccountModes(type, leg)
      skipped(m) == m \in long \/ (type = "unkn" /\ leg = "b" /\ m \in empty)
      tried == {i \in DOMAIN modes : ~skipped(modes[i])}
  IN  IF tried = {} \/ modes[Min(tried)] \notin found THEN "none" ELSE modes[Min(tried)]

\* rt_acct_modes: the first mode that has an account.
DuckAccount(type, leg, found) ==
  LET modes == AccountModes(type, leg)
      hits == {i \in DOMAIN modes : modes[i] \in found}
  IN  IF hits = {} THEN "none" ELSE modes[Min(hits)]

------------------------------------------------------------------------------
(* Payment cards [type, start, end]. Dates compare as their strings; 0 is   *)
(* the empty string.                                                        *)

Date(y, m, d) == (y * 13 + m) * 32 + d

CycleNoWrap(y, m, d, billingDay) ==
  LET bday == IF billingDay > 0 THEN billingDay ELSE 1 IN
    IF d >= bday THEN [start |-> Date(y, m, bday), end |-> Date(y, m + 1, bday)]
    ELSE [start |-> Date(y, m - 1, bday), end |-> Date(y, m, bday)]

\* The billing period of a date.
Cycle(y, m, d, billingDay) ==
  LET bday == IF billingDay > 0 THEN billingDay ELSE 1 IN
    IF d >= bday
    THEN [start |-> Date(y, m, bday),
          end |-> IF m = 12 THEN Date(y + 1, 1, bday) ELSE Date(y, m + 1, bday)]
    ELSE [start |-> IF m = 1 THEN Date(y - 1, 12, bday) ELSE Date(y, m - 1, bday),
          end |-> Date(y, m, bday)]

\* A credit card runs within the billing period, a debit card needs its own dates.
Period(card, cycle) ==
  IF card.type = "credit"
  THEN [start |-> Max({card.start, cycle.start}),
        end |-> IF card.end = 0 THEN cycle.end ELSE card.end]
  ELSE [start |-> card.start, end |-> card.end]

CardUsable(card, cycle, today) ==
  /\ card.type \in {"credit", "debit"}
  /\ card.type = "debit" => card.start # 0 /\ card.end # 0
  /\ Period(card, cycle).start <= today /\ today < Period(card, cycle).end

\* The first usable card with its period; index 0 when there is none.
PcardManager(cards, y, m, d, billingDay) ==
  LET cycle == Cycle(y, m, d, billingDay)
      hits == {i \in DOMAIN cards : CardUsable(cards[i], cycle, Date(y, m, d))}
  IN  IF hits = {} THEN [card |-> 0]
      ELSE [card |-> Min(hits), period |-> Period(cards[Min(hits)], cycle)]

------------------------------------------------------------------------------
(* Time conditions [date, d1, d2, h1, h2]: 0 is no date, no day; -1 is no   *)
(* hour. A time "hh:mm:ss" is 2 * t; "hh:mm" sorts just before "hh:mm:00"   *)
(* and is 2 * t - 1.                                                        *)

\* tm_wday: Sunday is 0; the table of the days has it as 7.
Dow(isodow) == isodow % 7

InHours(h1, h2, time) ==
  IF h1 < h2 THEN h1 < time /\ time <= h2 ELSE h1 < time \/ time <= h2

HoursOk(c, time) == c.h1 = -1 \/ c.h2 = -1 \/ InHours(c.h1, c.h2, time)

\* An unknown day reads what lies before the table: wild.
DayNum(d, wild) == IF d = 0 THEN wild ELSE d

\* ts is [date, isodow, time].
TcMatches(c, ts, wild) ==
  /\ HoursOk(c, ts.time)
  /\ \/ c.date # 0 /\ c.date = ts.date
     \/ DayNum(c.d1, wild) <= Dow(ts.isodow) /\ Dow(ts.isodow) <= DayNum(c.d2, wild)

TcTsCmp(conds, ts, wild) == \E i \in DOMAIN conds : TcMatches(conds[i], ts, wild)

\* rt_chk_tr_opt: f_time_cond_query_id returns an uninitialized value (raw) unless
\* the tariff has exactly one condition.
TariffApplies(conds, ts, wild, raw) ==
  (IF Len(conds) = 1 THEN TRUE ELSE raw) => TcTsCmp(conds, ts, wild)

DuckTcMatches(c, ts) ==
  /\ HoursOk(c, ts.time)
  /\ \/ c.date # 0 /\ c.date = ts.date
     \/ c.d1 # 0 /\ c.d2 # 0 /\ c.d1 <= ts.isodow /\ ts.isodow <= c.d2

DuckTariffApplies(conds, ts) == conds = <<>> \/ \E i \in DOMAIN conds : DuckTcMatches(conds[i], ts)

------------------------------------------------------------------------------
(* Rates [prefix, start, end, conds] of a plan. Wildcard is the prefix "&".      *)

Wildcard == <<-1>>

LexLess(a, b) ==
  \/ a # b /\ IsPrefix(a, b)
  \/ \E i \in DOMAIN a \cap DOMAIN b : a[i] < b[i] /\ \A j \in 1 .. i - 1 : a[j] = b[j]

InAscendingOrder(r, q) == LexLess(r.prefix, q.prefix)

\* rt_data_q_rate_sql: order by prefix desc.
InOrder(r, q) == LexLess(q.prefix, r.prefix)

\* rt_data_q_chk_rate_periods.
ChkRatePeriods(r, now) == r.start = 0 \/ (r.start <= now /\ (r.end = 0 \/ now <= r.end))

PrefixFits(r, cld) == r.prefix = Wildcard \/ IsPrefix(r.prefix, cld)

NoRate == [prefix |-> <<>>, start |-> 0, end |-> 0, conds |-> <<>>]

\* rt_data_q_prefix_sql: the first rate in the order that is valid, fits and whose
\* tariff applies now; the others are passed over. raw and wild stand for the
\* uninitialized reads while the rate is looked at.
PrefixSql(rates, cld, now, ts, wild, raw) ==
  LET hits == {r \in rates : /\ ChkRatePeriods(r, now)
                             /\ PrefixFits(r, cld)
                             /\ TariffApplies(r.conds, ts, wild, raw)}
  IN  IF hits = {} THEN NoRate ELSE CHOOSE r \in hits : \A q \in hits : ~InOrder(q, r)

\* rt_duckdb_rate_batch: the longest prefix first, then its time conditions.
DuckRate(rates, cld, ts) ==
  LET fits == {r \in rates : IsPrefix(r.prefix, cld)}
      best == CHOOSE r \in fits : \A q \in fits : Len(q.prefix) <= Len(r.prefix)
  IN  IF fits # {} /\ DuckTariffApplies(best.conds, ts) THEN best ELSE NoRate
=============================================================================
