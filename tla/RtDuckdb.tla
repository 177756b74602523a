------------------------------- MODULE RtDuckdb -------------------------------
(***************************************************************************)
(* The DuckDB batch rater (RatingDuckDB): RateEngine takes a window of     *)
(* unrated CDRs, rates it against a snapshot of the reference tables and   *)
(* writes the outcome to PostgreSQL in two transactions: rating rows with  *)
(* the leg of their CDRs, then balances, free seconds and the -1 marks.    *)
(* What the SQL computes for a CDR is in Pricing; here a CDR is rateable   *)
(* when its account is in the tables the query sees.                       *)
(***************************************************************************)
EXTENDS Integers, FiniteSets, Sequences

CONSTANTS
  Cdrs,          \* ids of CDRs, a set of numbers
  Legs,          \* the legs of one cycle, in order: <<"a">> or <<"a", "b">>
  Accounts,
  Owner,         \* [Cdrs -> Accounts]: the account a CDR resolves to
  FreeCdrs,      \* the CDRs rated within the free seconds of the account
  SplitCdrs,     \* the CDRs at the boundary of the free seconds
  Cached,        \* cache_mode is ALL: the account tables are snapshots
  Limit,         \* batch_limit
  RefreshEvery,  \* drain cycles between refreshes of the snapshot (1000)
  Faults,        \* kinds of faults that may happen
  MaxFaults

ASSUME DuckdbAssumption ==
  /\ Cdrs \subseteq Nat /\ IsFiniteSet(Cdrs)
  /\ Legs \in Seq({"a", "b"}) /\ Legs # <<>>
  /\ Owner \in [Cdrs -> Accounts] /\ FreeCdrs \subseteq Cdrs
  /\ SplitCdrs \subseteq Cdrs \ FreeCdrs
  /\ Cached \in BOOLEAN /\ "missing" \notin Accounts
  /\ {Limit, RefreshEvery} \subseteq Nat \ {0} /\ MaxFaults \in Nat
  /\ Faults \subseteq {"stmt", "late", "reset", "crash"}

LegSet == {Legs[i] : i \in DOMAIN Legs}
Keys == Cdrs \X LegSet
Missing == {"missing"}     \* no snapshot was made
Unrated == 0
Rated == 1                 \* leg = the id of the rating row
Unmatched == -1

VARIABLES
  pg,        \* committed: [leg, rating, charged: [Keys -> Int], free: counted free keys]
  draft,     \* what the open transaction sees
  tx,        \* the write connection: "none", "open", "aborted"
  stored,    \* CDRs the mediator has inserted
  accounts,  \* accounts in the database
  dims,      \* accounts of the snapshot, or Missing
  pc, at,    \* where the engine is, and in which leg of the cycle
  window, seen, batch, rated,  \* batch_window, accounts it was rated against,
                               \* CDRs in rated_batch, rows of RETURNING
  processed, \* some window of this cycle was not empty
  cycles, active, faults,
  unsure     \* history: keys whose rows came back from the insert, uncommitted in the end

rater == <<pc, at, window, seen, batch, rated, processed, cycles>>
vars == <<pg, draft, tx, stored, accounts, dims, rater, active, faults, unsure>>

Pcs == {"off", "window", "rate", "begin", "insert", "update", "commit", "begin2",
        "balance", "free", "mark", "commit2", "cycle", "ended"}
Stores == [leg : [Keys -> {Unrated, Rated, Unmatched}], rating : [Keys -> Nat],
           charged : [Keys -> Nat], free : SUBSET Keys]

TypeOK ==
  /\ pg \in Stores /\ draft \in Stores /\ tx \in {"none", "open", "aborted"}
  /\ stored \subseteq Cdrs /\ accounts \subseteq Accounts
  /\ dims \in SUBSET Accounts \cup {Missing}
  /\ pc \in Pcs /\ at \in 1 .. Len(Legs)
  /\ window \subseteq Cdrs /\ batch \subseteq window /\ rated \subseteq batch
  /\ seen \subseteq Accounts
  /\ processed \in BOOLEAN /\ active \in BOOLEAN
  /\ cycles \in 0 .. RefreshEvery - 1 /\ faults \in 0 .. MaxFaults
  /\ unsure \subseteq Keys

Init ==
  /\ pg = [leg |-> [k \in Keys |-> Unrated], rating |-> [k \in Keys |-> 0],
           charged |-> [k \in Keys |-> 0], free |-> {}]
  /\ draft = pg /\ tx = "none"
  /\ stored = {} /\ accounts \in SUBSET Accounts /\ dims = Missing
  /\ pc = "off" /\ at = 1 /\ window = {} /\ seen = {} /\ batch = {} /\ rated = {}
  /\ processed = FALSE /\ cycles = 0
  /\ active \in BOOLEAN /\ faults = 0 /\ unsure = {}

Key(c) == <<c, Legs[at]>>
KeysOf(S) == {Key(c) : c \in S}
Fault(kind) == kind \in Faults /\ faults < MaxFaults /\ faults' = faults + 1
NoFault == UNCHANGED faults
World == UNCHANGED <<stored, accounts, active, unsure>>
Goto(next) == pc' = next /\ UNCHANGED at
Batch == UNCHANGED <<window, seen, batch, rated>>
Counters == UNCHANGED <<processed, cycles>>

------------------------------------------------------------------------------
(* db_query on the write connection. A failed statement aborts an open     *)
(* transaction; a lost connection takes it along, and the statement is run *)
(* again on the new connection, outside any transaction.                   *)

Sees == IF tx = "open" THEN draft ELSE pg
Written(s) ==
  CASE tx = "open" -> draft' = s /\ UNCHANGED <<pg, tx>>
    [] tx = "none" -> pg' = s /\ UNCHANGED <<draft, tx>>
    [] tx = "aborted" -> UNCHANGED <<pg, draft, tx>>
Failed == tx' = (IF tx = "open" THEN "aborted" ELSE tx) /\ UNCHANGED <<pg, draft>>
ReRun(s) == tx' = "none" /\ pg' = s /\ UNCHANGED draft

\* A statement whose effect on a state s of the tables is New(s).
Statement(New(_), kind) ==
  \/ Written(New(Sees)) /\ NoFault
  \/ Failed /\ Fault(kind)
  \/ ReRun(New(pg)) /\ Fault("reset")

Begin ==
  \/ tx' = "open" /\ draft' = pg /\ UNCHANGED pg /\ NoFault
  \/ tx' = "open" /\ draft' = pg /\ UNCHANGED pg /\ Fault("reset")

CommitAll == tx' = "none" /\ pg' = Sees /\ UNCHANGED draft
Rollback == tx' = "none" /\ UNCHANGED <<pg, draft>>
Commit(kind) ==
  \/ CommitAll /\ NoFault
  \/ Rollback /\ Fault(kind)
  \/ Rollback /\ Fault("reset")

------------------------------------------------------------------------------
(* rt_duckdb_rate_batch *)

Return(n) ==
  /\ processed' = (processed \/ n > 0)
  /\ UNCHANGED cycles
  /\ IF at < Len(Legs) THEN pc' = "window" /\ at' = at + 1
     ELSE pc' = "cycle" /\ UNCHANGED at
Unread == pc = "window" \/ pc = "rate"
Tables == UNCHANGED <<pg, draft, tx>>

\* STEP 0: the lowest Limit unrated ids.
WaitingOrMarked == {c \in stored : pg.leg[Key(c)] # Rated}
Waiting == {c \in stored : pg.leg[Key(c)] = Unrated}
Lowest(S, n) == {c \in S : Cardinality({d \in S : d < c}) < n}
Window ==
  /\ pc = "window"
  /\ window' = Lowest(Waiting, Limit)
  /\ batch' = {} /\ rated' = {} /\ seen' = {}
  /\ \/ window' # {} /\ Goto("rate") /\ Counters /\ NoFault
     \/ window' = {} /\ Return(0) /\ NoFault
  /\ Tables /\ World /\ UNCHANGED dims

\* A statement on DuckDB fails, or the snapshot of a table is missing.
BatchFails ==
  /\ Unread
  /\ \/ Fault("stmt")
     \/ pc = "rate" /\ dims = Missing /\ NoFault
  /\ window' = {} /\ batch' = {} /\ rated' = {} /\ seen' = {}
  /\ Return(-1)
  /\ Tables /\ World /\ UNCHANGED dims

\* STEP 1: rated_batch. Reading it back may fail: then nothing is inserted.
Visible == IF Cached THEN dims ELSE accounts
Rate ==
  /\ pc = "rate" /\ dims # Missing
  /\ seen' = Visible
  /\ batch' = {c \in window : Owner[c] \in Visible}
  /\ \/ Goto(IF batch' = {} THEN "begin2" ELSE "begin") /\ NoFault
     \/ batch' # {} /\ Goto("begin2") /\ Fault("stmt")
  /\ Tables /\ World /\ Counters /\ UNCHANGED <<dims, window, rated>>

\* A boundary call has a free and a paid portion, each with a row of its own.
Rows(c) == IF c \in SplitCdrs THEN 2 ELSE 1

\* STEP 2: rating rows and legs in one transaction.
BeginRating ==
  /\ pc = "begin" /\ Begin /\ Goto("insert")
  /\ World /\ Counters /\ Batch /\ UNCHANGED dims

Inserted(s) == [s EXCEPT !.rating = [k \in Keys |-> @[k] + IF k \in KeysOf(batch) THEN Rows(k[1]) ELSE 0]]
InsertRating ==
  /\ pc = "insert"
  /\ Statement(Inserted, "stmt")
  /\ \/ tx' # "aborted" /\ rated' = batch /\ Goto("update")
     \/ tx' = "aborted" /\ UNCHANGED rated /\ Goto("commit")
  /\ World /\ Counters /\ UNCHANGED <<dims, window, seen, batch>>

Legged(s) == [s EXCEPT !.leg = [k \in Keys |-> IF k \in KeysOf(rated) THEN Rated ELSE @[k]]]
UpdateLegInOwnTx ==
  /\ pc = "update"
  /\ \/ tx = "open" /\ pg' = draft /\ tx' = "none" /\ UNCHANGED <<pc, at, draft>>
     \/ tx = "none" /\ Written(Legged(Sees)) /\ Goto("commit")
  /\ World /\ Counters /\ Batch /\ NoFault /\ UNCHANGED dims

UpdateLeg ==
  /\ pc = "update"
  /\ Statement(Legged, "late")
  /\ Goto("commit")
  /\ World /\ Counters /\ Batch /\ UNCHANGED dims

\* The batch goes on whatever became of the update and of this COMMIT.
CommitRating ==
  /\ pc = "commit" /\ Commit("late") /\ Goto("begin2")
  /\ unsure' = unsure \cup {k \in KeysOf(rated) : pg'.leg[k] # Rated}
  /\ Counters /\ Batch /\ UNCHANGED <<dims, stored, accounts, active>>

\* STEP 2.5, 2.6 and 3 in a second one.
BeginRest ==
  /\ pc = "begin2" /\ Begin
  /\ Goto(IF rated = {} THEN "mark" ELSE "balance")
  /\ World /\ Counters /\ Batch /\ UNCHANGED dims

\* Free portions are not charged. Building bal_delta may fail: nothing charged.
Paid == KeysOf(batch \ FreeCdrs)
Charged(s) == [s EXCEPT !.charged = [k \in Keys |-> @[k] + IF k \in Paid THEN 1 ELSE 0]]
BalanceOfWindow ==
  /\ pc = "balance"
  /\ Written([Sees EXCEPT !.charged = [k \in Keys |-> @[k] + IF k \in KeysOf(window) THEN 1 ELSE 0]])
  /\ Goto("free")
  /\ World /\ Counters /\ Batch /\ NoFault /\ UNCHANGED dims

Balance ==
  /\ pc = "balance"
  /\ \/ Statement(Charged, "stmt")
     \/ Tables /\ Fault("stmt")
  /\ Goto("free")
  /\ World /\ Counters /\ Batch /\ UNCHANGED dims

\* Recomputed from the committed rating rows, for accounts with free seconds
\* in this batch and a committed balance.
HasBalance(a) == \E k \in Keys : Owner[k[1]] = a /\ pg.charged[k] > 0
WithFree == FreeCdrs \cup SplitCdrs
Recount(a) == {k \in Keys : k[1] \in WithFree /\ Owner[k[1]] = a /\ pg.rating[k] > 0}
Recounted == {a \in {Owner[c] : c \in batch \cap WithFree} : HasBalance(a)}
Counted(s) ==
  [s EXCEPT !.free = {k \in @ : Owner[k[1]] \notin Recounted} \cup UNION {Recount(a) : a \in Recounted}]
FreeBalance ==
  /\ pc = "free"
  /\ \/ Statement(Counted, "stmt")
     \/ Tables /\ Fault("stmt")
  /\ Goto("mark")
  /\ World /\ Counters /\ Batch /\ UNCHANGED dims

MarkedWindow(s) ==
  [s EXCEPT !.leg = [k \in Keys |-> IF k \in KeysOf(window) /\ @[k] = Unrated
                                    THEN Unmatched ELSE @[k]]]
Marked(s) ==
  [s EXCEPT !.leg = [k \in Keys |-> IF k \in KeysOf(window \ batch) /\ @[k] = Unrated
                                    THEN Unmatched ELSE @[k]]]
Mark ==
  /\ pc = "mark"
  /\ \/ Statement(Marked, "stmt")
     \/ Tables /\ Fault("stmt")
  /\ Goto("commit2")
  /\ World /\ Counters /\ Batch /\ UNCHANGED dims

CommitRest ==
  /\ pc = "commit2" /\ Commit("stmt") /\ Return(1)
  /\ World /\ Batch /\ UNCHANGED dims

------------------------------------------------------------------------------
(* RateEngine *)

\* rt_init_duckdb, rt_duckdb_init; each table of the snapshot may fail. If the
\* connections cannot be opened the thread ends, and a daemon goes on without it.
LoadDims == (dims' = accounts /\ NoFault) \/ (UNCHANGED dims /\ Fault("stmt"))
NewCycle == pc' = "window" /\ at' = 1 /\ processed' = FALSE

Start ==
  /\ pc = "off"
  /\ \/ LoadDims /\ NewCycle /\ UNCHANGED cycles
     \/ Fault("stmt") /\ pc' = "ended" /\ UNCHANGED <<at, processed, cycles, dims>>
  /\ World /\ Batch /\ Tables

\* Keep draining after a window with CDRs, refresh and sleep after an empty one.
CycleNeverIdle ==
  /\ pc = "cycle" /\ active
  /\ NewCycle /\ cycles' = (cycles + 1) % RefreshEvery
  /\ UNCHANGED dims /\ NoFault
  /\ World /\ Batch /\ Tables
Cycle ==
  /\ pc = "cycle" /\ active
  /\ NewCycle
  /\ \/ processed /\ cycles' = (cycles + 1) % RefreshEvery
        /\ IF cycles' = 0 THEN LoadDims ELSE UNCHANGED <<dims, faults>>
     \/ ~processed /\ LoadDims /\ UNCHANGED cycles
  /\ World /\ Batch /\ Tables

\* A run in the foreground makes one cycle and frees the connections.
Stop ==
  /\ pc = "cycle" /\ ~active
  /\ pc' = "ended" /\ tx' = "none"
  /\ UNCHANGED <<at, pg, draft, dims>> /\ Counters /\ Batch /\ World /\ NoFault

\* The process dies, and is started again: PostgreSQL rolls back, the in-memory
\* tables are gone.
Crash ==
  /\ pc \notin {"off", "ended"} /\ Fault("crash")
  /\ pc' = "off" /\ at' = 1 /\ tx' = "none" /\ dims' = Missing
  /\ window' = {} /\ seen' = {} /\ batch' = {} /\ rated' = {}
  /\ processed' = FALSE /\ cycles' = 0
  /\ World /\ UNCHANGED <<pg, draft>>

(* The mediator and the administrator. *)
NewCdr ==
  /\ \E c \in Cdrs \ stored : (\A d \in Cdrs \ stored : c <= d) /\ stored' = stored \cup {c}
  /\ Tables /\ UNCHANGED <<accounts, active, dims, rater, faults, unsure>>
NewAccount ==
  /\ \E a \in Accounts \ accounts : accounts' = accounts \cup {a}
  /\ Tables /\ UNCHANGED <<stored, active, dims, rater, faults, unsure>>

RateBatch == Window \/ BatchFails \/ Rate \/ BeginRating \/ InsertRating \/ UpdateLeg
             \/ CommitRating \/ BeginRest \/ Balance \/ FreeBalance \/ Mark \/ CommitRest
Engine == Start \/ RateBatch \/ Cycle \/ Stop
Next == Engine \/ Crash \/ NewCdr \/ NewAccount

Spec == Init /\ [][Next]_vars
FairSpec == Spec /\ WF_vars(Engine)

------------------------------------------------------------------------------
(* Properties *)

\* "Either both commit or both roll back": a CDR has the id of a rating row in its
\* leg exactly when all its rating rows are committed, one, or the free and the paid
\* one of a boundary call, and none of them twice, whatever statement or commit fails
\* and wherever the process dies.
RatingWithLeg ==
  \A k \in Keys : pg.rating[k] = IF pg.leg[k] = Rated THEN Rows(k[1]) ELSE 0

\* The outcome of a CDR is final: once rated or marked, no later batch
\* rates it again, marks it, or takes its rating back.
OutcomeFinal ==
  [][\A k \in Keys : pg.leg[k] # Unrated =>
       pg'.leg[k] = pg.leg[k] /\ pg'.rating[k] = pg.rating[k]]_vars

\* "A rateable CDR that wasn't written for any reason is left at leg = 0":
\* -1 is only committed for a CDR whose account the batch did not know.
NeverBuried ==
  [][\A k \in Keys : pg.leg[k] = Unrated /\ pg'.leg[k] = Unmatched =>
       Owner[k[1]] \notin seen]_vars

\* A balance holds the paid price of a CDR at most once, and only with the rating
\* rows of the CDR in the tables; a call within the free seconds is never charged.
\* Excepted are the CDRs whose leg or whose first COMMIT failed after the insert had
\* returned their rows (unsure): those are charged without rows, and again later.
NoOvercharge ==
  \A k \in Keys \ unsure : pg.charged[k] > 0 =>
    pg.charged[k] = 1 /\ k[1] \notin FreeCdrs /\ pg.rating[k] >= Rows(k[1])

\* The daemon decides every stored CDR, if faults are finite in number and a process
\* that died is started again, unless the engine could not open its connections:
\* then its thread ends for good (rating_duckdb.c:136-139).
BacklogDrains ==
  \A c \in Cdrs : (c \in stored /\ active) ~>
    (pc = "ended" \/ \A l \in LegSet : pg.leg[<<c, l>>] # Unrated)

\* "The bill": whenever the engine is between cycles the price of every CDR with
\* a paid rating row is in a balance.
BilledInFull ==
  pc = "cycle" => \A k \in Keys :
    k[1] \notin FreeCdrs /\ pg.rating[k] > 0 => pg.charged[k] > 0
==============================================================================
