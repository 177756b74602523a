-------------------------------- MODULE Rating --------------------------------
(***************************************************************************)
(* The rating of CDRs for one leg: the batch loop rt_loop with its worker  *)
(* threads (mod/Rating/rating.c), the janitor of CallControl, which rates  *)
(* a call when its term arrives, and the tables both write: the leg mark   *)
(* of the CDR, the `rating' rows, `balance' and `free_billsec_balance'.    *)
(*                                                                         *)
(* A section under config.sync_bt_thread is one action; every other        *)
(* statement of the database that another rater can notice is an action of *)
(* its own.  The process may die between any two of them, by a crash or by *)
(* following the card pointer of an account without a card, and starts     *)
(* again with empty hands.                                                 *)
(*                                                                         *)
(* Prices are abstracted: an amount of money counts, for each CDR and each *)
(* part of it, how often the price of that part has been added: never,     *)
(* once, or more often.  Seconds are numbers, because the allowance of     *)
(* free seconds splits a call.                                             *)
(***************************************************************************)
EXTENDS Integers, Sequences, FiniteSets, FiniteSetsExt

CONSTANTS
  Cdrs,        \* ids of CDRs, numbered in the order of the table
  Accs,        \* billing accounts
  Acc,         \* the account of a CDR
  Billsec,     \* the seconds of a CDR
  Online,      \* CDRs of calls that CallControl granted
  Skipped,     \* CDRs for which rt_main finds no account to rate (voip_v ...)
  NoRate,      \* CDRs whose account or destination has no rate
  Carded,      \* accounts that start with an active payment card
  Blockable,   \* accounts whose card the prerating may refuse and block
  Flaky,       \* CDRs during whose rating the DB connection may be lost, once
  NumThreads,  \* rating_threads
  BatchLimit,  \* CDR_BATCH_LIMIT
  Limit,       \* free_billsec: free seconds of the tariff, 0 for none
  Delta,       \* seconds of a unit of the tariff
  MaxCrashes,  \* bound of the model: crashes of the process
  MaxFreeRows, \* bound of the model: rows of free_billsec_balance
  NULL

ASSUME CdrAssumption ==
  /\ Cdrs \subseteq Nat
  /\ IsFiniteSet(Cdrs)
  /\ Online \subseteq Cdrs
  /\ Skipped \subseteq Cdrs
  /\ NoRate \subseteq Cdrs
  /\ Flaky \subseteq Cdrs
  /\ Acc \in [Cdrs -> Accs]
  /\ Billsec \in [Cdrs -> Nat]

ASSUME AccountAssumption ==
  /\ Carded \subseteq Accs
  /\ Blockable \subseteq Accs

ASSUME NumberAssumption ==
  /\ NumThreads \in Nat \ {0}
  /\ BatchLimit \in Nat \ {0}
  /\ Delta \in Nat \ {0}
  /\ Limit \in Nat
  /\ MaxCrashes \in Nat
  /\ MaxFreeRows \in Nat
  /\ NULL \notin Nat

Threads == 0 .. NumThreads - 1
Janitor == NumThreads
Raters  == 0 .. NumThreads

VARIABLES
  leg,      \* cdrs.leg_a: "absent" (no row yet), 0 "todo", a rating id "rated", -1 "done"
  rows,     \* rating: the rows of a CDR (one rate and one account per CDR)
  amount,   \* balance.amount of the active balance of an account
  balrow,   \* accounts that have an active balance
  fbal,     \* free_billsec_balance.free_billsec of the rows of balance 0
  cards,    \* accounts whose card is active
  blocked,  \* accounts whose card was blocked, and may still be cached
  work,     \* CDRs of the batch that a worker has still to rate
  pc,       \* where a rater is
  job,      \* the racc_t of a rater and the control fields of its rating_t
  pre,      \* the seconds of its rating_t
  auth,     \* what maxsec left in the racc_t of an online call
  settled,  \* online calls that have been ended, or forgotten in a restart
  lost,     \* CDRs during whose rating the connection was lost
  crashes   \* number of crashes so far

dbVars  == <<leg, rows, amount, balrow, fbal>>
cardVars == <<cards, blocked>>
vars == <<leg, rows, amount, balrow, fbal, cards, blocked, work, pc, job,
          pre, auth, settled, lost, crashes>>

\* The parts of a call whose price may be added to a balance: the free portion
\* of a call that rt_double_rating splits, and all the rest.
Units   == Cdrs \X {"free", "main"}
Nothing == [u \in Units |-> 0]
Amounts == [Units -> 0 .. 2]

Add(base, u) == [base EXCEPT ![u] = IF @ = 0 THEN 1 ELSE 2]

\* A CDR's row in `rating': call_billsec, and whether call_price is negative.
Row == [sec: Int, free: BOOLEAN]

Job == [cdr:    Cdrs \cup {NULL},
        card:   BOOLEAN,                    \* bacc_ptr->pcard_ptr is not NULL
        balid:  BOOLEAN,                    \* bal_ptr->id > 0
        bal:    Amounts,                    \* bal_ptr->amount
        phase:  {"one", "first", "second"}, \* phase of rt_double_rating
        rid:    {"zero", "id", "neg"}]      \* pre->rating_id

Pre == [sec:    Int,                        \* billsec
        free:   BOOLEAN,                    \* cprice < 0
        fsum:   Int,                        \* free_billsec_sum
        rest:   Int,                        \* no_free_sec of rt_double_rating
        freeid: BOOLEAN,                    \* free_id > 0
        fcount: Int]                        \* free_billsec

NoJob == [cdr |-> NULL, card |-> FALSE, balid |-> FALSE, bal |-> Nothing,
          phase |-> "one", rid |-> "zero"]

NoPre == [sec |-> 0, free |-> FALSE, fsum |-> 0, rest |-> 0, freeid |-> FALSE,
          fcount |-> 0]

Init ==
  /\ leg = [c \in Cdrs |-> "absent"]
  /\ rows = [c \in Cdrs |-> <<>>]
  /\ amount = [a \in Accs |-> Nothing]
  /\ balrow \in SUBSET Accs
  /\ fbal = <<>>
  /\ cards = Carded
  /\ blocked = {}
  /\ work = [t \in Threads |-> {}]
  /\ pc = [r \in Raters |-> "idle"]
  /\ job = [r \in Raters |-> NoJob]
  /\ pre = [r \in Raters |-> NoPre]
  /\ auth = [c \in Cdrs |-> NULL]
  /\ settled = {}
  /\ lost = {}
  /\ crashes = 0

-----------------------------------------------------------------------------
(***************************************************************************)
(* CDRs arrive, and the batch loop.                                        *)
(***************************************************************************)

\* cdr_add_in_db of the mediator: the row is inserted with leg 0, and a second
\* row of the same call is skipped by the table.
AddCdr(c) ==
  /\ leg[c] = "absent"
  /\ leg' = [leg EXCEPT ![c] = "todo"]
  /\ UNCHANGED <<rows, amount, balrow, fbal, cardVars, work, pc, job, pre, auth, settled, lost, crashes>>

Rank(c, S) == Cardinality({d \in S : d < c})

\* select ... where leg_a = 0 order by id limit CDR_BATCH_LIMIT
Batch == LET todo == {c \in Cdrs : leg[c] = "todo"}
         IN {c \in todo : Rank(c, todo) < BatchLimit}

\* Mutant of Share: every worker takes the remainder.
ShareRoundedUp(t, n) ==
  LET start == t * (n \div NumThreads)
  IN start .. start + n \div NumThreads + (IF n % NumThreads > 0 THEN 1 ELSE 0) - 1

\* The indices of the batch that worker t gets, of n.
Share(t, n) ==
  LET per_thread == n \div NumThreads
      remainder  == n % NumThreads
      start == t * per_thread + (IF t < remainder THEN t ELSE remainder)
      count == per_thread + (IF t < remainder THEN 1 ELSE 0)
  IN start .. start + count - 1

\* rt_loop fetches a batch, deals it out and starts the workers; the next batch
\* is fetched when all of them have been joined.
Fetch ==
  /\ \A t \in Threads : pc[t] = "idle" /\ work[t] = {}
  /\ Batch # {}
  /\ work' = [t \in Threads |->
                {c \in Batch : Rank(c, Batch) \in Share(t, Cardinality(Batch))}]
  /\ UNCHANGED <<dbVars, cardVars, pc, job, pre, auth, settled, lost, crashes>>

-----------------------------------------------------------------------------
(***************************************************************************)
(* Pricing.  calc_cprice_2 rounds the seconds up to whole units, and       *)
(* append_free_billsec negates the price of a call covered by the free     *)
(* seconds, unless it is zero, or answers 1 when the call exceeds what is  *)
(* left of them.                                                           *)
(***************************************************************************)
RoundUp(s) == ((s + Delta - 1) \div Delta) * Delta

Left(fsum) == IF Limit > 0 THEN Limit - fsum ELSE 0

Covered(s, fsum) == 0 < s /\ s <= Left(fsum)

\* calc_cprice_group for the seconds in p, when no split is made: answer 0, or
\* the answer 1 that the last step of rt_double_rating stores all the same.
Priced(p) ==
  LET s == RoundUp(p.sec)
  IN [p EXCEPT !.sec = s, !.free = Covered(s, p.fsum)]

\* calc_cprice_group answers 1: the call is longer than the free seconds left.
\* rt_double_rating splits it unless they are no whole number of units: then its
\* phase 1 answers 1 and the whole call is priced.
Splits(p) ==
  LET f == Left(p.fsum)
  IN f > 0 /\ RoundUp(p.sec) > f /\ RoundUp(f) = f

\* Mutant of FirstPhase: the price of the free seconds is not negated.
FirstPhasePaid(p) ==
  LET f == Left(p.fsum)
  IN [p EXCEPT !.sec = f, !.free = FALSE, !.rest = RoundUp(p.sec) - f]

\* Phase 1 of rt_double_rating: the free seconds, and the rest for phase 2.
FirstPhase(p) ==
  LET f == Left(p.fsum)
  IN [p EXCEPT !.sec = f, !.free = TRUE, !.rest = RoundUp(p.sec) - f]

-----------------------------------------------------------------------------
(***************************************************************************)
(* A rater and its CDR.                                                    *)
(***************************************************************************)
Sum(s) == MapThenSumSet(LAMBDA i : s[i], DOMAIN s)

FreeSec(c) ==
  MapThenSumSet(LAMBDA i : IF rows[c][i].free THEN rows[c][i].sec ELSE 0, DOMAIN rows[c])

\* Rater r goes to `to' with job j and seconds p, or is done with its CDR.
Goto(r, to, j, p) ==
  /\ pc' = [pc EXCEPT ![r] = to]
  /\ job' = [job EXCEPT ![r] = IF to = "idle" THEN NoJob ELSE j]
  /\ pre' = [pre EXCEPT ![r] = IF to = "idle" THEN NoPre ELSE p]

\* rt_exec from the end of rt_rate_searching to the first rt_rating_save.
Calculate(r, j, p) ==
  \/ /\ j.cdr \in NoRate
     /\ Goto(r, "mark", [j EXCEPT !.rid = "neg"], p)
  \/ /\ j.cdr \notin NoRate
     /\ Splits(p)
     /\ Goto(r, "save", [j EXCEPT !.phase = "first"], FirstPhase(p))
  \/ /\ j.cdr \notin NoRate
     /\ ~Splits(p)
     /\ Goto(r, "save", j, Priced(p))

\* rt_worker_func takes its next CDR; rt_main finds the account, and
\* pcard_manager its card, in the database or, a blocked one too, in the cache.
\* Without an account it returns and the CDR keeps its mark.  The prerating is
\* for accounts with a card, and is skipped when no rate is found (a rate without
\* calc_functions is found, but gives no price).
RtMain(t) ==
  /\ pc[t] = "idle"
  /\ \E c \in work[t] :
       LET j == [NoJob EXCEPT !.cdr = c]
           p == [NoPre EXCEPT !.sec = Billsec[c]]
       IN /\ \A d \in work[t] : c <= d
          /\ work' = [work EXCEPT ![t] = @ \ {c}]
          /\ \/ /\ c \in Skipped
                /\ UNCHANGED <<pc, job, pre>>
             \/ /\ c \notin Skipped
                /\ Acc[c] \in cards \cup blocked
                /\ Goto(t, "prerate", [j EXCEPT !.card = TRUE], p)
             \/ /\ c \notin Skipped
                /\ Acc[c] \notin cards \/ c \in NoRate
                /\ Calculate(t, j, p)
  /\ UNCHANGED <<dbVars, cardVars, auth, settled, lost, crashes>>

\* rt_maxsec has granted the call: its racc_t keeps the balance read then, or an
\* empty one if the prerating refused and blocked the card.
Maxsec(c) ==
  /\ c \in Online \ (Skipped \cup NoRate)
  /\ auth[c] = NULL
  /\ leg[c] = "absent"
  /\ Acc[c] \in cards \cup blocked
  /\ \/ /\ auth' = [auth EXCEPT ![c] =
                       [balid |-> Acc[c] \in balrow, bal |-> amount[Acc[c]],
                        fsum |-> IF Limit > 0 THEN Sum(fbal) ELSE 0]]
        /\ UNCHANGED cardVars
     \/ /\ Acc[c] \in Blockable
        /\ auth' = [auth EXCEPT ![c] =
                       [balid |-> FALSE, bal |-> Nothing, fsum |-> 0]]
        /\ cards' = cards \ {Acc[c]}
        /\ blocked' = blocked \cup {Acc[c]}
  /\ UNCHANGED <<dbVars, work, pc, job, pre, settled, lost, crashes>>

\* Mutant of Term: pre->cdr_id is not set.
TermNoId(c) ==
  /\ auth[c] # NULL
  /\ c \notin settled
  /\ pc[Janitor] = "idle"
  /\ leg' = [leg EXCEPT ![c] = IF @ = "absent" THEN "todo" ELSE @]
  /\ settled' = settled \cup {c}
  /\ Goto(Janitor, "prerate", [NoJob EXCEPT !.card = TRUE],
          [NoPre EXCEPT !.sec = Billsec[c]])
  /\ UNCHANGED <<rows, amount, balrow, fbal, cardVars, work, auth, lost, crashes>>

\* The term has arrived: cc_server_add_cdr stores the CDR, unrated, unless it is
\* there already, and cc_call_rating starts to rate it.
Term(c) ==
  /\ auth[c] # NULL
  /\ c \notin settled
  /\ pc[Janitor] = "idle"
  /\ leg' = [leg EXCEPT ![c] = IF @ = "absent" THEN "todo" ELSE @]
  /\ settled' = settled \cup {c}
  /\ Goto(Janitor, "prerate",
          [NoJob EXCEPT !.cdr = c, !.card = TRUE,
                        !.balid = auth[c].balid, !.bal = auth[c].bal],
          [NoPre EXCEPT !.sec = Billsec[c], !.fsum = auth[c].fsum])
  /\ UNCHANGED <<rows, amount, balrow, fbal, cardVars, work, auth, lost, crashes>>

\* rt_prerating_process reads the balance, outside the lock; without a balance
\* the racc_t keeps what it has.
PreRate(r) ==
  LET c == job[r].cdr
      j == IF Acc[c] \in balrow
           THEN [job[r] EXCEPT !.balid = TRUE, !.bal = amount[Acc[c]]]
           ELSE job[r]
  IN /\ pc[r] = "prerate"
     /\ IF Limit > 0 THEN Goto(r, "freesum", j, pre[r]) ELSE Calculate(r, j, pre[r])
     /\ UNCHANGED <<dbVars, cardVars, work, auth, settled, lost, crashes>>

\* rt_prerating_process refuses and blocks the card; the call is rated all the
\* same, with the balance that the racc_t had before.
Refuse(r) ==
  LET c == job[r].cdr
  IN /\ pc[r] = "prerate"
     /\ Acc[c] \in Blockable
     /\ cards' = cards \ {Acc[c]}
     /\ blocked' = blocked \cup {Acc[c]}
     /\ Calculate(r, job[r], pre[r])
     /\ UNCHANGED <<dbVars, work, auth, settled, lost, crashes>>

\* f_free_billsec_bal_query_2: pre->bal_id is never set, so all accounts share
\* the rows of balance 0.
FreeSum(r) ==
  /\ pc[r] = "freesum"
  /\ Calculate(r, job[r], [pre[r] EXCEPT !.fsum = Sum(fbal)])
  /\ UNCHANGED <<dbVars, cardVars, work, auth, settled, lost, crashes>>

NewRow(r) == [sec |-> pre[r].sec, free |-> pre[r].free]

\* After a row has been stored: phase 1 charges at once, the others mark the CDR.
AfterSave(r) == IF job[r].phase = "first" THEN "charge" ELSE "mark"

\* Mutant of Save: the insert without the test.
SaveUntested(r) ==
  /\ pc[r] = "save"
  /\ job[r].card
  /\ rows' = [rows EXCEPT ![job[r].cdr] = Append(@, NewRow(r))]
  /\ Goto(r, AfterSave(r), [job[r] EXCEPT !.rid = "id"], pre[r])
  /\ UNCHANGED <<leg, amount, balrow, fbal, cardVars, work, auth, settled, lost, crashes>>

\* rt_rating_save: under the lock, a row of the same call, account and rate means
\* "already rated", otherwise the row is inserted and its id returned.
Save(r) ==
  LET c == job[r].cdr
  IN /\ pc[r] = "save"
     /\ job[r].card
     /\ \/ /\ rows[c] # <<>>
           /\ rows' = rows
           /\ Goto(r, AfterSave(r), [job[r] EXCEPT !.rid = "zero"], pre[r])
        \/ /\ rows[c] = <<>>
           /\ rows' = [rows EXCEPT ![c] = Append(@, NewRow(r))]
           /\ Goto(r, AfterSave(r), [job[r] EXCEPT !.rid = "id"], pre[r])
     /\ UNCHANGED <<leg, amount, balrow, fbal, cardVars, work, auth, settled, lost, crashes>>

\* The connection is lost during the test.  A failed select looks like an empty
\* one; the insert reconnects, and stores the row or fails as well, and then
\* rating_id keeps its value.
SaveLost(r) ==
  LET c == job[r].cdr
  IN /\ pc[r] = "save"
     /\ job[r].card
     /\ c \in Flaky \ lost
     /\ lost' = lost \cup {c}
     /\ \/ /\ rows' = rows
           /\ Goto(r, AfterSave(r), job[r], pre[r])
        \/ /\ rows' = [rows EXCEPT ![c] = Append(@, NewRow(r))]
           /\ Goto(r, AfterSave(r), [job[r] EXCEPT !.rid = "id"], pre[r])
     /\ UNCHANGED <<leg, amount, balrow, fbal, cardVars, work, auth, settled, crashes>>

\* Mutants of Mark: a call that is already rated keeps its mark, or is charged.
MarkRatedOnly(r) ==
  LET c == job[r].cdr
  IN /\ pc[r] = "mark"
     /\ leg' = [leg EXCEPT ![c] = CASE job[r].rid = "id" -> "rated"
                                    [] job[r].rid = "neg" -> "done"
                                    [] OTHER -> @]
     /\ Goto(r, IF job[r].rid = "id" THEN "charge" ELSE "idle", job[r], pre[r])
     /\ UNCHANGED <<rows, amount, balrow, fbal, cardVars, work, auth, settled, lost, crashes>>

MarkAndCharge(r) ==
  LET c == job[r].cdr
  IN /\ pc[r] = "mark"
     /\ leg' = [leg EXCEPT ![c] = IF job[r].rid = "id" THEN "rated" ELSE "done"]
     /\ Goto(r, IF job[r].rid # "neg" THEN "charge" ELSE "idle", job[r], pre[r])
     /\ UNCHANGED <<rows, amount, balrow, fbal, cardVars, work, auth, settled, lost, crashes>>

\* The end of rt_exec: update_cdr writes the rating id, or -1 for a call that is
\* already rated or has no price; only a new row is charged.
Mark(r) ==
  LET c == job[r].cdr
  IN /\ pc[r] = "mark"
     /\ leg' = [leg EXCEPT ![c] = IF job[r].rid = "id" THEN "rated" ELSE "done"]
     /\ Goto(r, IF job[r].rid = "id" /\ job[r].card THEN "charge" ELSE "idle", job[r], pre[r])
     /\ UNCHANGED <<rows, amount, balrow, fbal, cardVars, work, auth, settled, lost, crashes>>

Unit(r) == <<job[r].cdr, IF job[r].phase = "first" THEN "free" ELSE "main">>

\* Where a rater goes on once the balance, or the free seconds, are written.
AfterCharge == IF Limit > 0 THEN "fbcount" ELSE "idle"

\* rt_balance_exec: under the lock, the amount read by the prerating, or one read
\* now if there was none, plus the price, is written back as a whole.
BalanceExec(r) ==
  LET a == Acc[job[r].cdr]
      found == ~job[r].balid /\ a \in balrow
      base == IF found THEN amount[a] ELSE job[r].bal
      sum  == Add(base, Unit(r))
  IN /\ pc[r] = "charge"
     /\ amount' = [amount EXCEPT ![a] = sum]
     /\ balrow' = balrow \cup {a}
     /\ Goto(r, AfterCharge,
              [job[r] EXCEPT !.bal = sum, !.balid = @ \/ found], pre[r])
     /\ UNCHANGED <<leg, rows, fbal, cardVars, work, auth, settled, lost, crashes>>

\* The same, with the connection lost in the update: its failure is not noticed.
BalanceLost(r) ==
  /\ pc[r] = "charge"
  /\ job[r].cdr \in Flaky \ lost
  /\ lost' = lost \cup {job[r].cdr}
  /\ Goto(r, AfterCharge, [job[r] EXCEPT !.bal = Add(@, Unit(r))], pre[r])
  /\ UNCHANGED <<dbVars, cardVars, work, auth, settled, crashes>>

\* free_billsec_exec counts the free seconds stored for the account ...
FreeCount(r) ==
  LET a == Acc[job[r].cdr]
  IN /\ pc[r] = "fbcount"
     /\ Goto(r, "fbfind", job[r],
             [pre[r] EXCEPT !.fcount = MapThenSumSet(FreeSec, {c \in Cdrs : Acc[c] = a})])
     /\ UNCHANGED <<dbVars, cardVars, work, auth, settled, lost, crashes>>

\* ... looks for the one row of balance 0 ...
FreeFind(r) ==
  /\ pc[r] = "fbfind"
  /\ Goto(r, "fbstore", job[r], [pre[r] EXCEPT !.freeid = @ \/ Len(fbal) = 1])
  /\ UNCHANGED <<dbVars, cardVars, work, auth, settled, lost, crashes>>

\* ... creates it if there is none, while the update of an existing one is
\* skipped for want of a bal_id ...
FreeStore(r) ==
  /\ pc[r] = "fbstore"
  /\ \/ /\ pre[r].freeid
        /\ fbal' = fbal
     \/ /\ ~pre[r].freeid
        /\ Len(fbal) < MaxFreeRows
        /\ fbal' = Append(fbal, pre[r].fcount)
  /\ Goto(r, "fbsum", job[r], [pre[r] EXCEPT !.freeid = @ \/ Len(fbal') = 1])
  /\ UNCHANGED <<leg, rows, amount, balrow, cardVars, work, auth, settled, lost, crashes>>

\* ... and reads the sum again.  After phase 1 the paid rest is priced with it.
FreeResum(r) ==
  LET p == [pre[r] EXCEPT !.fsum = Sum(fbal)]
  IN /\ pc[r] = "fbsum"
     /\ \/ /\ job[r].phase = "first"
           /\ Goto(r, "save", [job[r] EXCEPT !.phase = "second"],
                   Priced([p EXCEPT !.sec = p.rest]))
        \/ /\ job[r].phase # "first"
           /\ Goto(r, "idle", job[r], p)
     /\ UNCHANGED <<dbVars, cardVars, work, auth, settled, lost, crashes>>

-----------------------------------------------------------------------------
(***************************************************************************)
(* The process dies and is started again: the threads, the batch and the   *)
(* call table are gone.                                                    *)
(***************************************************************************)
Restart ==
  /\ work' = [t \in Threads |-> {}]
  /\ pc' = [r \in Raters |-> "idle"]
  /\ job' = [r \in Raters |-> NoJob]
  /\ pre' = [r \in Raters |-> NoPre]
  /\ settled' = {c \in Cdrs : auth[c] # NULL}
  /\ UNCHANGED <<dbVars, cardVars, auth, lost>>

Crash ==
  /\ crashes < MaxCrashes
  /\ crashes' = crashes + 1
  /\ Restart

\* rt_data_q_rating_add_sql reads pcard_ptr->id of an account without a card.
SaveNoCard(r) ==
  /\ pc[r] = "save"
  /\ ~job[r].card
  /\ Restart
  /\ UNCHANGED crashes

Rate(r) ==
  \/ PreRate(r) \/ Refuse(r) \/ FreeSum(r)
  \/ Save(r) \/ SaveLost(r) \/ SaveNoCard(r)
  \/ Mark(r) \/ BalanceExec(r) \/ BalanceLost(r)
  \/ FreeCount(r) \/ FreeFind(r) \/ FreeStore(r) \/ FreeResum(r)

Next ==
  \/ \E c \in Cdrs : AddCdr(c) \/ Maxsec(c) \/ Term(c)
  \/ Fetch
  \/ \E t \in Threads : RtMain(t)
  \/ \E r \in Raters : Rate(r)
  \/ Crash

\* The threads of the raters and the loop of rt_loop run on; nobody promises that
\* a CDR or a term arrives.
Fairness ==
  /\ WF_vars(Fetch)
  /\ \A t \in Threads : WF_vars(RtMain(t))
  /\ \A r \in Raters : WF_vars(Rate(r))

SafeSpec == Init /\ [][Next]_vars
Spec == SafeSpec /\ Fairness

-----------------------------------------------------------------------------
(***************************************************************************)
(* Properties.                                                             *)
(***************************************************************************)
Pcs == {"idle", "prerate", "freesum", "save", "mark", "charge",
        "fbcount", "fbfind", "fbstore", "fbsum"}

Auth == [balid: BOOLEAN, bal: Amounts, fsum: Int]

\* Type correctness; a rater at work has a CDR (pre->cdr_id).
TypeOK ==
  /\ leg \in [Cdrs -> {"absent", "todo", "rated", "done"}]
  /\ rows \in [Cdrs -> Seq(Row)]
  /\ amount \in [Accs -> Amounts]
  /\ balrow \subseteq Accs
  /\ fbal \in Seq(Int)
  /\ cards \subseteq Accs
  /\ blocked \subseteq Accs
  /\ work \in [Threads -> SUBSET Cdrs]
  /\ pc \in [Raters -> Pcs]
  /\ job \in [Raters -> Job]
  /\ pre \in [Raters -> Pre]
  /\ \A r \in Raters : pc[r] # "idle" => job[r].cdr \in Cdrs
  /\ auth \in [Cdrs -> Auth \cup {NULL}]
  /\ settled \subseteq Cdrs
  /\ lost \subseteq Cdrs
  /\ crashes \in 0 .. MaxCrashes

\* A call gets at most one rating row, although the janitor and a worker may rate
\* it at the same time, and a crash makes it be rated again (the duplicate test
\* of rt_data_q_rating_add_sql under sync_bt_thread).  The exception is a call
\* whose duplicate test was lost with the connection.
OneRowPerCall == \A c \in Cdrs \ lost : Len(rows[c]) <= 1

\* The price of a call is in a balance at most once, in the balance of its own
\* account, and only if its rating row is stored: whatever raters read the
\* balance, wait, and write it back (rt_exec, rt_balance_exec), nobody pays twice.
\* The free portion of a split call, which is charged without looking at the
\* rating id, and calls that lost their connection are excepted.
ChargedOnce ==
  \A a \in Accs : \A c \in Cdrs \ lost :
    amount[a][<<c, "main">>] # 0 =>
      /\ amount[a][<<c, "main">>] = 1
      /\ Acc[c] = a
      /\ rows[c] # <<>>

\* Two workers of a batch never have the same CDR to rate: the shares that
\* rt_loop computes do not overlap.
SharesDisjoint ==
  \A t, u \in Threads : t # u =>
    (work[t] \cup {job[t].cdr}) \cap (work[u] \cup {job[u].cdr}) \subseteq {NULL}

Seconds(c) == MapThenSumSet(LAMBDA i : rows[c][i].sec, DOMAIN rows[c])

\* A CDR that has been dealt with and has a price has rating rows for all of its
\* seconds: features.md says a call at the boundary of the free seconds is
\* "split into a free portion and a paid portion".
BilledInFull ==
  \A c \in Cdrs \ (lost \cup NoRate) :
    leg[c] \in {"rated", "done"} => Seconds(c) >= Billsec[c]

\* A CDR that has been dealt with and has a price has a rating row, and a call that
\* is billed short is billed nothing: whichever of the raters that split it at
\* different places, or not at all, stores its row first, and wherever the process
\* dies in between, no paid row for a part of the call takes the place of the whole
\* (rt_double_rating stores the free portion first, and the duplicate test drops the
\* paid rest; see BilledInFull).
BilledOrFree ==
  \A c \in Cdrs \ (lost \cup NoRate) :
    leg[c] \in {"rated", "done"} =>
      /\ rows[c] # <<>>
      /\ Seconds(c) >= Billsec[c] \/ \A i \in DOMAIN rows[c] : rows[c][i].free

\* When no rater is at work and nothing failed, the balances contain the price of
\* every rating row: the module "updates balance" for the rows it stores.
BalanceComplete ==
  (crashes = 0 /\ lost = {} /\ \A r \in Raters : pc[r] = "idle") =>
    \A c \in Cdrs : rows[c] # <<>> => amount[Acc[c]][<<c, "main">>] = 1

\* Every CDR that can be rated is marked some time after it was stored, and is
\* then no longer fetched (the end of rt_exec).
BacklogDrained ==
  \A c \in Cdrs \ Skipped : leg[c] = "todo" ~> leg[c] # "todo"

===============================================================================
