# A TLA+ model of RateEngine

RateEngine rates telephone calls. Switches ask it how long a call may last (*maxsec*)
and tell it when the call is over (*term*); CDR files and remote databases bring further
calls, which a batch rater prices. This directory models its own core logic: the code in
`src/src` that keeps state, runs threads or computes money. Paths below are relative to
that directory unless they start with `doc/` or `scripts/`.

## The system

| part | code | state | operations | what makes it right |
|---|---|---|---|---|
| call table | `mod/CallControl/cc_server.c`, `cc.c` | `cc_tbl`, the `cc_t` and term structures | maxsec, term, janitor pass, timeout | a call is held once, from its grant to its term or timeout; it is charged once, for its own CDR; slots are not used up |
| codecs | `mod/my_cc`, `mod/jsonrpc_cc` | the `cc_t` of a request | parse, run the event, answer, free | what survives the request is in the table |
| online charging | `mod/Rating/rt_maxsec.c` | none of its own | decide | no more calls than the card allows, no more seconds than the credit |
| worker-pool server | `net/net.c` | `net_job_q_t`, the threads | accept, push, pop, serve, shut down | every connection is served once, in order; the shutdown ends |
| batch rater | `mod/Rating/rating.c`, `rt_data_q.c` | leg marks of CDRs, `rating` rows, balances | fetch, prerate, price, store, mark | each CDR is charged once; the balance is the sum of the charges |
| tariffs, cards, times | `calc_functions.c`, `pcard.c`, `time_cond.c`, `free_billsec.c` | none | price, seconds, choose a card, match a time | agreement with a reference definition |
| reference cache | `mod/Rating/rt_cache.c` | six hash tables with a TTL | look up, put, preload | an answer is never older than the TTL allows, a copy never freed |
| CDR mediator | `mod/CDRMediator` | schedule, profile rows, files, CDR table | register, list, parse, insert, move, poll | every CDR is stored once, also over a crash |
| DuckDB rater | `mod/RatingDuckDB` | tables in DuckDB, two transactions | load, rate in SQL, write back | the same charges as the batch rater; all or nothing |
| database layer | `db/db.c`, `mod/db_*` | handle, native answer, rows | select, fetch, command, reconnect | a caller reads its own answer |
| main program | `RateEngine.c`, `misc/daemon.c`, `misc/re7_manager.c`, `mod/mod.c` | pid file, flags, threads | start, stop, join, unload | one daemon, found by its pid file; it stops when told |
| transports, JSON, XML, log, memory | `mod/tcp`, `mod/tls`, ... | | glue | |

How the parts meet: the interfaces run `net_parallel_server` with a codec as handler; the
codec calls `cc_event_manager`, which shares `cc_tbl` with the janitor thread and calls
`rt_maxsec` with the worker's own database connection. The janitor inserts the CDR through
the mediator's API and rates it with `rt_exec`. A thread per CDR profile fills the same CDR
table from files and remote databases; the batch rater, or the DuckDB rater in its place,
empties it. All raters share the balances and the reference cache. The main program starts
one thread per service and joins or abandons them.

What is hard: the janitor reads the table without its lock; a maxsec and a term are each
several locked sections; a term may be lost, repeated or late; a worker may have lost its
database connection; clients may keep silent; balances are read and written in different
statements; files are stored, registered and moved in separate steps; a lost connection is
replaced in the middle of a transaction; the pid file is shared by processes that come and
go. `PROJECT.json` lists each of these at its line under `hazards`.

## Modules

`CallTable` is the call table. A request is a member of `Maxsecs` or `Terms`, and stands
for the structures it allocates. Each section under `cc_tbl_lock` is one action:

| action | code |
|---|---|
| `SearchRacc`, `RtMaxsec`, `CallInit`, `MaxsecAck` | `cc_maxsec_f` (count, decide, insert) and the codec's answer, which frees a refused `cc_t` |
| `SearchCallUid`, `CallTerm`, `TermAck` | `cc_term_f` (look up and attach, attach again by index) and the answer |
| `Visit`, `ReadStatus`, `ReadBillsec`, `AddCdr`, `CallRating`, `CallClear`, `EndPass` | one pass of `cc_server_thread`; every unlocked read that can see another table is a step of its own |
| `Expire` | time: a call becomes older than `call_maxsec_limit + CALL_MAXSEC_LIMIT_WAIT` |

Reading a structure that has been freed yields any value (`Contents`, `MaxsecAck`).
`crossed` is a history variable: the calls to which `CallTerm` gave a term not theirs.

`NetServer` is `net_parallel_server`. The ring, the acceptor and each worker are explicit;
a critical section is one action, and a signalled thread competes for the mutex with the
others. Spurious wakeups happen. `accept` may fail at any time, which ends the server, as
in the code. `ConnService` is what the server promises: accepted connections wait in
order, one worker takes each, and it finishes it. `NetServer` implements it under the
mapping that takes the ring's contents up to the first sentinel (`Backlog`).

`Rating` is the rating of CDRs for one leg with an SQL database: the raters are the worker
threads of `rt_loop` and the janitor of the call table. They share the leg marks, the
`rating` rows, the balances and the rows of `free_billsec_balance`. A section under
`sync_bt_thread` is one action, and so is every other statement whose result another rater
can change:

| action | code |
|---|---|
| `AddCdr`, `Fetch` | `cdr_add_in_db`; `rt_loop` fetching a batch and dealing it out (`Batch`, `Share`), possible when the workers have been joined |
| `RtMain` | `rt_worker_func` and `rt_main`: next CDR, account, card |
| `Maxsec`, `Term` | what `rt_maxsec` leaves in the `racc_t` of an online call; `cc_server_add_cdr` and the start of `cc_call_rating` |
| `PreRate`, `Refuse`, `FreeSum` | `rt_prerating_process`: read the balance, or block the card and go on without; the free seconds used so far |
| `Calculate` (part of the step before) | `calc_cprice_group`, and the split of `rt_double_rating` |
| `Save`, `SaveLost`, `SaveNoCard` | `rt_rating_save`; with the connection lost in the duplicate test; with an account that has no card, which ends the process |
| `Mark` | `update_cdr` at the end of `rt_exec` |
| `BalanceExec`, `BalanceLost` | `rt_balance_exec`; with the update lost |
| `FreeCount`, `FreeFind`, `FreeStore`, `FreeResum` | the four statements of `free_billsec_exec`, and phase 2 of a split call |
| `Crash` | the process dies anywhere and starts again with empty hands |

An amount of money says for each call, and for its free portion apart, how often its price
has been added. This makes a lost or a doubled charge visible whatever the prices are.

`Tariff` and `Selection` are the pure functions of the rating: `calc_cprice_2`,
`calc_maxsec`, the rounding of seconds, the SQL price walk of RatingDuckDB and its running
sum of free seconds; the prefix filters, the ladder of account searches in `rt_main`,
`pcard_manager` with its billing periods, the time conditions and the choice of a rate.
The walks of the C code are written as recursive functions over the steps of a tariff.
`Pricing` sends one call through them in the order of `rt_main` and `rt_exec`, against
every small content of the tables. The reference definitions (`RefPrice`, `Drawdown`) say
what a tariff means: the price of the blocks a call has started, and the free seconds
consumed call after call.

`RtCache` is the reference cache: six kinds of entries, `get`, `put`, select on a miss,
copy, the two preloads, and one rwlock taken as the code takes it. `asker` in a lookup is
what its select depends on and its key leaves out; only accounts have that (`Sharing`).
Where the code frees an array and stores a new one under the write lock, there are two
steps (`free`, `store`).

`CdrStore` is the CDR table (insert with its test for a known call, and the rater that
takes CDRs away). Three threads of the mediator work on it: `CdrFile` lists a directory,
loads, parses, stores, registers and moves files; `CdrStorage` polls a remote database from
the timestamp that `cdr_storage_sched_set_ts` computes and writes the schedule;
`CdrProfile` registers a profile, statement by statement, when it is started, in
PostgreSQL, in MySQL or in a NoSQL store: in PostgreSQL a refused statement aborts the
transaction and a lost connection is replaced, in MySQL neither, and every insert reports
an error. `Mediator` composes them with the engine thread that starts the profiles, the
delivery of files, the clock, the death of the process and its new start. The program is
started with `-d` or without it; a process that has ended is started again, one that stays
with its engine thread gone is not. MySQL is left to `MCCdrProfile`, which registers one
profile only.

`RtDuckdb` is the DuckDB rater: a window of unrated CDRs, the rating against a snapshot of
the accounts, a transaction with the rating rows and the legs, a second one with balances,
free seconds and the marks of CDRs that cannot be rated. `draft` is what the open
transaction sees, `pg` what is committed. A failed statement aborts the transaction; the
faults are of four kinds: `stmt` (a statement fails before RETURNING has told the engine
what was rated), `late` (the update of the legs or the first commit fails), `reset` (the
connection is lost and replaced, the statement is run again outside the transaction) and
`crash`. The history variable `unsure` keeps the CDRs whose rows had come back from the
insert when the rest of the first transaction failed: the engine takes them for rated and
charges them. Whether a call is free, paid, or at the boundary and hence two rows, is given
with the call (`FreeCdrs`, `SplitCdrs`): the calls of an account are rated in the order of
their ids, and a window that was not written is rated again before the next one. A process
that died is started again; an engine that could not open its connections is not, its thread
ends and the daemon goes on without it.

`DbConn` is one connection of `db.c` over each of the five engines: native answer and
converted rows, the retry loop of `db_command`, the reconnects of each engine. The server
may go away, which breaks the link, or fall silent (`Mute`), which does not: whoever waits
for its answer then waits until it speaks or the link breaks.

`Lifecycle` is the program from `main` to `exit`, for several processes that share the pid
file: options, the guard, `open`, `lock` and `write` of the file, the signal handler step
by step, the start and the join of the engines, the manager loop, the clean-up.

The `MC*` modules give the constants small values. The `*_proofs` modules hold the
theorems.

Next to some definitions stands a wrong version of them, used by no specification
(`RegBeginNot`, `SetTsNoLookBack`, `CycleNeverIdle`, ...). Put in the definition's place,
it makes TLC report the property that `PROJECT.json` names under `mutants`, which shows
that the property depends on that piece of code.

## Runs

All of these hold.

| run | properties | what it shows |
|---|---|---|
| `call_table` | `TableSound`, `JanitorSlotStable`, `LimitOverrunBounded`, `ChargeIsForOwnCall`, `ClearedForCause` | the unlocked janitor beside two workers |
| `call_table_full` | `GrantedIsHeld`, `SlotEventuallyReleased` | a full table refuses, every held call leaves it |
| `net_server` | `NoLostWakeup`, `DrainedAtShutdown`, `ServesInOrder`, `TalkingServed`, `ShutdownCompletes` | refinement of `ConnService`; a silent client harms itself only, and the shutdown |
| `rating` | `OneRowPerCall`, `ChargedOnce`, `SharesDisjoint`, `BilledOrFree` | raters with stale copies of a balance charge nothing twice, and of a split call no more than the paid rest is lost |
| `rating_live` | `BacklogDrained` | every ratable CDR is rated in the end, over a crash |
| `ingest` | `MovedIsStored`, `RatedOnce`, `FilesMoved` | what a moved file held is stored; a file read again after a crash brings no call twice; every file is moved in the end, unless the process stays without a file thread |
| `schedule` | `CaughtUp`, `RegisteredWhole` | late rows of a remote database are fetched over the ends of days; a profile is registered whole |
| `cache` | `StaleBounded`, `CopiesLive` | age of what a rater uses, from whichever select of the entry; no copy is freed in use |
| `pricing` | `LongestPrefix`, `CyclesTile`, `PriceIsReference`, `DuckParity`, `CreditHolds` | the functions against their references |
| `duckdb` | `RatingWithLeg`, `NoOvercharge`, `OutcomeFinal`, `NeverBuried`, `BacklogDrains` | two transactions under failing statements, failing commits and deaths |
| `db_conn` | `OwnAnswer`, `CommandReturns` | retries and reconnects of every engine; a command waits only for a silent server |
| `lifecycle` | `FileIsDaemons`, `UnmappedUnused`, `StopEffective`, `ForegroundEnds` | the pid file among three processes |

**Bounds.** `call_table`: two workers, three slots, three maxsec requests of one
subscriber with `call_number` 1 (two calls, one of them retransmitted), two terms of the
first call: two workers race on the limit, a retransmission takes a second slot, a term
meets the janitor at every step, a slot changes hands while a worker holds its index.
Workers, the copies of a maxsec and the terms are interchangeable (symmetry).
`call_table_full`: one slot and two calls, so the table can be full; one my_cc worker, one
jsonrpc_cc worker without a connection; a billed and an unbilled term. `net_server`: a
queue of two, four clients, one of them silent, three workers and one that fails at start,
so the queue fills up, workers wait in numbers and a sentinel is left over.

`rating`: two workers, the janitor and two calls of one account, of three and two seconds,
with two free seconds and units of one second. One call is online; the other may lose its
connection once; the card may be blocked. Two calls are enough for a split, a full use of
the free seconds, and a stale copy of the balance in every place. `MaxFreeRows` 2 bounds
the rows of `free_billsec_balance`; it stops a rater, not the others. `rating_live`: four
CDRs in batches of two, so a CDR that can never be rated stays in every batch; units of two
seconds with two free seconds, so that one call is split and its rest rounded up; one crash.

`ingest`: two files of one name, one with a row that does not parse, the other with a call
that the remote switch has as well; an SQL store; one failure of any system call or
statement, or one death (the theorems hold for any number of them). `schedule`: a clock of
18 ticks is three days of six, with a margin of three and rows that are one tick late, so
polls fall on both sides of every boundary; one failure; profiles with two filters, so a
registration can stop between them. `cache`: two raters beside the preload, a TTL of one
tick and selects that take one, each kind of entry in turn, the accounts with two lookups
that share an entry and one of which changes. `pricing`: all tariffs of one and two steps
with blocks of 1 to 3 seconds, fees 0 to 2 and 0 to 2 blocks, and of three steps with two
block lengths and fees 0 and 1 (a step can take back what the one before the last has
billed), calls of up to 5 seconds; the ends of months for five billing days; three rates
with every pair of time conditions, two of whose prefixes may contain each other. `duckdb`:
three CDRs of two accounts, one of them free and one at the boundary, two legs, windows of
two, two faults: a window is rated in parts, an account appears late, a fault meets the
repair of another. `db_conn`: four operations, two outages or silences, two refused
statements. `lifecycle`: a daemon, a `--stop` and a third run of any kind, one process
killed.

Deadlock is checked in `call_table`, `call_table_full` and `pricing`. In the other runs the
system may rest: no more calls, files or connections need to come, a silent client holds
its worker, processes have ended.

**Fairness.** The janitor is a loop that blocks on a short lock and, when it rates a cleared
call, on its database; with a database that answers or fails it goes on, and clocks
advance: weak fairness of `Janitor` and of `Expire`. Nothing is assumed of clients or of
the workers that serve them. In `NetServer` a thread that can run does run; `Recv` of a
client outside `Silent` is fair because such a client sends or closes; no client has to
come and `accept` need not fail. In `Rating` the daemon's loop and each rater go on
(`Fetch`, `RtMain`, `Rate`); CDRs and terms need not come. `BacklogDrained` needs fewer
unratable CDRs than `CDR_BATCH_LIMIT`: as many as that would fill every batch. In
`Mediator` the threads run and a process that has ended is started again, as the service
manager or cron does; one that stays after its engine thread broke off (`-d`, or another
active profile) is not, and `FilesMoved` promises nothing while it has no file thread;
deliveries, rows and the clock need not come. In `RtDuckdb` the
engine runs, faults are finite in number (a batch that fails every time is outside
`BacklogDrains`) and a process that died is started again; `BacklogDrains` promises nothing
once the thread of the engine has ended. In `DbConn` the calling thread goes on except
where it waits for a silent server (no engine sets a timeout for answers), and the server
need not come back. In `Lifecycle` the threads of a process and its signal handler
run; nobody has to send a signal.

## Known disagreements

These properties state what a comment or a document says and the code does not keep. TLC
finds a counterexample of each with the configuration named.

| where | what happens | what is said | how to see it |
|---|---|---|---|
| `mod/CallControl/cc.c:110` | count, decision and insertion are separate: a subscriber gets more calls than `call_number` | `mod/Rating/rt_maxsec.c:104` "already at/over the allowed number of concurrent calls" | `LimitRespected`, `MCCallTableLimit.cfg`; `LimitOverrunBounded` says how far it goes |
| `mod/CallControl/cc_server.c:176` | the term is attached by slot index in a second locked section; a call that took the slot meanwhile is ended by it | `doc/call_control.md:33` "the call is held in the in-memory call table until `term`" | `HeldUntilTerm`, `MCCallTableHeld.cfg` |
| `mod/my_cc/my_cc.c:40` | without a connection `rt_maxsec` leaves maxsec at 0; my_cc neither frees the `cc_t` nor has it in the table | `mod/jsonrpc_cc/jsonrpc_cc.c:418` "same lifecycle as my_cc" | `ActiveIsInTable`, `MCCallTableOrphan.cfg` |
| `mod/Rating/rt_data_q.c:530` | the duplicate test takes the paid portion of a split call for a second rating; it is not charged | `doc/features.md:172` "Boundary calls are split into a free portion and a paid portion" | `Rating!BilledInFull`, `MCRatingSplit.cfg`; `BilledOrFree` says what is not lost |
| `mod/Rating/rating.c:162` | the balance read by the prerating is written back as a whole: a charge made in between is lost | `mod/Rating/rating.c:161` "just update with cprice" | `BalanceComplete`, `MCRatingLost.cfg`; `ChargedOnce` says that at least nothing is added twice |
| `mod/Rating/rt_data_q.c:515` | the card of an account without one is read: the process dies on the CDR, again and again | `mod/RatingDuckDB/rt_duckdb.c:272` "Accounts with no active pcard get no balance (as in /Rating)" | `BacklogDrained`, `MCRatingNoCard.cfg` |
| `mod/Rating/rt_data_q.c:674` | the key of an account is mode and number, its select takes the CDR server and the nadi of a trunk group as well; the preload asks for all numbers of a batch with the server of its first CDR: a call is rated on the account that another server has for the number | `mod/Rating/rt_data_q.c:740` "store in cache for subsequent CDRs with same subscriber" | `OwnRows`, `MCRtCacheOwn.cfg`; `StaleBounded` says what the rows are |
| `misc/daemon.c:94` | every run that reaches the label `end`, and the handler after it gave the lock away, removes whatever pid file is there: a second daemon starts | `misc/daemon.c:95` "refuse to start a second instance", `mod/RatingDuckDB/README.md:188` | `SingleInstance`, `MCLifecycleSingle.cfg` |
| `mod/RatingDuckDB/rt_duckdb.c` | a death, or a failed second transaction, between the two commits leaves rating rows that no balance ever gets | `mod/RatingDuckDB/README.md:193` "Fewer fsyncs, crash-safe" | `RtDuckdb!BilledInFull` in `MCRtDuckdb.cfg` |
| same | after a lost connection the statement is run again outside the transaction: a rating row without its leg | `mod/RatingDuckDB/README.md:179` "rating + leg are one atomic tx" | `RatingWithLeg` with `"reset"` in `Faults` (`MCRtDuckdb.cfg`) |
| same | the update of the legs or the first commit fails after RETURNING: the balances are charged for rolled back rows | the same place | `NoOvercharge` without its exception `unsure`, `MCRtDuckdb.cfg` |
| `mod/CDRMediator/cdr_cfg.c:592` | a connection lost within the registration: a second server row, after which every start adds another | `mod/CDRMediator/cdr_cfg.c` "a failure can't leave a half-registered profile" | `RegisteredWhole` without its exception `lost` |
| `mod/CDRMediator/cdr_cfg.c:656` | `db_mysql_query` reports an error for an insert that worked (`db_mysql.c:51`); the filters end after the first, and COMMIT makes the half of them last | the same comment | `RegisteredWhole` in `MCCdrProfileMysql.cfg` |
| `mod/CDRMediator/cdr.c:357` | the NoSQL lookup takes every call for a known one: no CDR is stored | `cdr.c:357` "Missing key => CDR not present yet (caller may insert)" | `CaughtUp` with `Stores = {"nosql"}` |
| `db/db.c` | a set of the NoSQL engines may return `DB_OK` without having been carried out | `db/db.h:70` "returned value for OK/success" | `OkIsDone` in `MCDbConn.cfg` |
| `mod/Rating/calc_functions.c:78` | on a tariff that gets cheaper, or has smaller blocks later, the granted seconds can cost more than the credit | | `CreditHoldsAlways` in `MCPricing.cfg` |
| `mod/RatingDuckDB/rt_duckdb.c:177` | the first mode that has an account is taken; the classic rater goes on to the next mode only when the value cannot be quoted, not when no account is found | `mod/RatingDuckDB/README.md:58` "rec-type fallback order matches `rt_main`/`rt_racc_*`" | `SameAccount` in `MCPricing.cfg` |
| `mod/RatingDuckDB` | the SQL takes the longest prefix and then tests its time conditions, without validity periods and the catch-all; the classic rater takes the longest prefix that is valid and applies | | `SameRate` in `MCPricing.cfg` |

## Proofs

**`CallTable_proofs`** proves, for any number of slots, workers, requests and subscribers
(assumptions `TableAssumption`, `RequestAssumption`, `WorkerAssumption`), that `SafeSpec`
implies the type invariant, the invariants of the two `CallTable` runs and the action
property `ClearedForCause`. None of the invariants is inductive alone. The inductive
invariant `IInv` adds

* `WorkerInv`: what a busy worker serves; no two workers serve the same request;
* `GrantInv`: a `cc_t` between the decision and the insertion is allocated and in no
  slot, and a grant about to be answered is in the table;
* `LimitInv`: calls up *plus* workers that have counted below the limit and not inserted
  yet stay below `call_number` plus the number of workers. A new worker joins the second
  set only when the count is below the limit, and an insertion moves one unit from the
  second set to the first. `LimitOverrunBounded` follows;
* `TermInv`: a term structure has at most one call; until `CallTerm` runs, that call is in
  the slot the worker remembers; an uncrossed call has its own, allocated term. Hence the
  janitor, though it reads without the lock, stores the right `call_uid` (`ChargeInv`);
* `JanitorSlotStable`: only the janitor empties slots, so what it began to settle stays.

`Invariance` combines one lemma per conjunct, each with a step per action.

**`Rating_proofs`** proves `OneRowPerCall` and `ChargedOnce` for any number of CDRs,
accounts and workers and any tariff (`CdrAssumption`, `AccountAssumption`,
`NumberAssumption`). What makes them hard is that a balance exists in many copies: in the
table, in the hands of every rater that has prerated, and in the `racc_t` of every online
call, and each copy may be written back at any later time. `CallSound` says of all copies
what `ChargedOnce` says of the table, and adds that a call whose row is stored and whose
charge is still under way (`Pending`) is in no copy and in the hands of one rater only.
`Save` starts a charge only where there is no row, hence no copy with the price;
`BalanceExec` ends it. `RaterStep` is the common part: one rater moves, and all it must
show is that it stores no second row and that what it carries and writes is clean. The
calls that lost their connection are excepted, as in the properties.

`DisjointShares` (`SharesDisjoint`) rests on the arithmetic of `Share`: the share of a
worker ends before that of the next one begins (`SharesApart`), for every quotient and
remainder, and a batch is dealt out only when no worker has a CDR (`SharesInv`: an idle
rater has none). `BillsOrFree` proves `BilledOrFree` for every tariff. `BillInv` says that
a rater carries all the seconds of its call until it is priced, and then seconds that make
a good row (`GoodRow`: all seconds, or free ones); that a rater which goes on with a call,
or is about to store the paid rest of a split one, has stored or met a row (`Behind`); and
that a call is marked only then. `FullBills` takes `BilledInFull` from it for tariffs
without free seconds (`Limit = 0`); with free seconds that is false (see above). The sum
over the rows of a call is a fold; as a call has one row at most, its value is found
without induction (`OneRowSeconds`).

**`NetServer_proofs`** proves `NoLostWakeup`, `DrainedAtShutdown` and the refinement
`ServesInOrder` for any number of workers, connections and places in the ring
(`ServerAssumption`). `IInv` describes the ring (`QueueInv`: accepted connections, then
sentinels, between `head` and `tail` modulo its length), says what the acceptor and the
workers hold (`AccInv`, `WorkerInv`: a worker leaves on a sentinel, behind which there are
only sentinels), and that each accepted connection has exactly one place (`Placed`,
`Apart`). `NoLostWakeup` is part of it: the number of runnable workers changes with the
number of jobs (`RunnableMoves`). For the refinement every step is shown to be a step of
`ConnService` or to leave its variables alone; `BacklogNext` computes the mapped queue.

**`Pricing_proofs`** holds the theorems of `Pricing` and of `RtCache`, the two parts every
rating consults. The five properties of the `pricing` run hold for all numbers, filters,
cards, rates, tariffs, credits and batches (`FilterAssumption`, `CardAssumption`,
`RateAssumption`, `TariffAssumption`: digits, calendar days, blocks of a positive length).

* The walks are recursive functions over the steps of a tariff or the calls of a batch.
  That they exist, and what one step gives, comes from the least number for which it would
  fail (`LeastNat`, by the well-foundedness of `<`): `UpTo` is induction for a *set* of
  numbers, which the provers can instantiate, and `Iterates` and `StaysTyped` are the two
  uses of it. `WalkIs`, `LeftIs`, `SumIs`, `MaxsecIs`, `DuckWalkIs` and `PoolIs` are their
  instances.
* `PricesRight` (`PriceIsReference`): `PricedTo` relates the walk after p steps to the
  sums of the reference. While blocks are left they are the same; a step that ended the
  call leaves no seconds or fewer than none, and then every later step of a `Steady`
  tariff rounds them up to no block. `Steady` speaks of *all* later steps. An earlier
  version compared neighbours only; the proof did not go through, and TLC confirmed on a
  tariff of three steps (blocks of 3, 3 and 1 seconds, the first step for two blocks, the
  second for one, the third for any number) that a call of 4 seconds is billed 6 seconds
  by the first step, of which the third takes 2 back with its fee.
* `CreditSuffices` (`CreditHolds`): `Within` follows two walks side by side, the one that
  spends the credit and the reference price of the seconds it grants: after p steps the call
  has no more seconds left than the first walk still grants, and has cost no more than it
  has spent. Once the credit does not pay for a step, it pays for no later one, whose fees
  are at least as high (`FeesRise`), and the grant does not grow any more (`Quiet`,
  `MaxsecEnds`). Without free seconds, as in the property.
* `DuckAgrees` (`DuckParity`): the two walks are equal step by step; the pool after n calls
  is what the running sum leaves of the limit.
* `RatesLongest` (`LongestPrefix`): of two prefixes of one number the shorter is a prefix of
  the longer, so in descending lexicographic order the longer comes first, and the
  catch-all last. A first hit exists, even in an infinite table, because a number has
  finitely many prefixes (`Rank`).
* `PeriodsMeet` (`CyclesTile`): by cases on the billing day, the end of the month and the
  end of the year.

For `RtCache` it proves `CopiesLive` from the lock discipline (`LockInv`: who holds the
rwlock, and that a freed array lies in an entry only between `free` and `store`), and
`StaleBounded` from `AgeInv`, which bounds the age of an answer at every place between its
select and its use. An answer counts for the entry, not for the lookup: the selects that
share an account entry (`Sharing`) answer for each other, and a lemma (`Shared`) carries
the age over. From `CacheAssumption`, for any number of threads, lookups, values and TTL.

**`Mediator_proofs`** proves `RatedOnce`, `MovedIsStored`, `RegisteredWhole` and
`CaughtUp` for any calls, files, profiles, filters, schedule and number of failures and
restarts (`FileAssumption`, `MediatorAssumption`, `ProfileAssumption`). The threads change
the store by a few steps only (`StoreStep`), under which what is stored or failed stays so
(`Growing`); so each thread is treated apart. `FileInv` says how much of a file has been
read at each place of its thread; `FilesStored` assumes that no store is NoSQL, because
that branch takes every CDR for stored. `Fits` says which rows a transaction without a
failure has written at each of the registration's statements; what is committed is nothing
or the whole profile. `MediatorAssumption` leaves MySQL out: there `RegisteredWhole` is
false without any failure.

`RowsCaughtUp` says when the look-back of `cdr_storage_sched_set_ts` is long enough. A row
appears up to `Delay` after its stamp. Each failure costs a poll, and the poll after it
may find no schedule to look back from and read the current cycle only; one poll may pass
before the row appears. So the theorem asks (`LookBackCovers`) that the delay and
`2 * MaxFaults + 1` intervals fit into `MaxsecLimit + Margin`, and one interval more into a
day. `RowInv`, the heart of `SchedInv`, says of a row that is not stored how old it can be
for the polls and failures that passed it by; that a poll under way either reads it
(`Hit`) or leaves a schedule from which the next one does (`Miss`, `Ready`); and that the
polls in vain are at most one more than the failures. TLC shows both conditions and the
number of polls to be sharp on the instance of the run: with a margin or a day one tick
too short, or one poll less, there is a counterexample. In the code the margin
`CDR_STORAGE_SCHED_M` is 60 seconds, so a remote switch that is slower than
`call_maxsec_limit` and a minute, poll intervals included, loses CDRs. Not for NoSQL.

**`DbConn_proofs`** proves `OwnAnswer` for all engines, any number of operations, outages
and refused statements (`ConnAssumption`): an SQL connection has rows only while they are
used, and a native answer only until its fetch or drop (`SqlInv`); a NoSQL connection
keeps nothing but leftovers of a RENAME between operations (`NoSqlInv`). `ConnTyped` is
the type invariant, with the retry counters, which are decremented at two places and never
run below zero.

**`Lifecycle_proofs`** proves the type invariant, `FileIsDaemons` and `UnmappedUnused` for
any number of invocations (`LifecycleAssumption`). `PidInv`: only the holder of the lock of
an inode writes it, and a daemon at work holds the lock of the file it wrote until its
handler closes it. `EnginesInv`: which engines still run at each place of `main`, and that
a foreground run passes the join only with none.

**`RtDuckdb_proofs`** proves `RatingWithLeg`, `OutcomeFinal`, `NeverBuried` and
`NoOvercharge`, for any CDRs, accounts, legs, batch limit and number of faults, from
`DuckdbAssumption` and `NoReset` (no connection is lost and replaced: with one the
properties are false). The committed tables change in two commits only, so the argument is
about the draft: `TxInv` says for each statement of the two transactions how the draft
differs from what is committed. In the first one, rating rows of the batch come first, one
or two for each call (`AtUpdate`), and their legs second (`AtCommit`), and only of CDRs that
are still unrated (`Open`); in the second one (`AtRest`), only CDRs of the window outside
the batch change their leg, from unrated to unmatched, and charges come only to rated rows
that had none (`Rowed`), the `unsure` CDRs aside. `Known` ties the batch to the accounts the
query saw.

TLC finds every one of these inductive invariants true on the configuration of its
component's run, which is how their wrong first versions were found.

Every invariant, action property and refinement of the runs is thereby a theorem, for all
values of the constants, some under the hypotheses said above. **Only model-checked** are
the liveness properties `SlotEventuallyReleased`, `TalkingServed`, `ShutdownCompletes`,
`BacklogDrained`, `FilesMoved`, `BacklogDrains`, `CommandReturns`, `StopEffective` and
`ForegroundEnds`: they rest on fairness and `ENABLED`, which the prover does not treat.

## Not modelled

* The transports (`mod/tcp`, `mod/udp`, `mod/tls`, `mod/sctp`): thin wrappers of socket
  and OpenSSL calls. `NetServer` has what `accept`, `recv` and `close` may return.
* JSON, JSON-RPC and XML conversion, the readers of configuration and profile files, the
  JSON import of the rating tables, logging, memory wrappers, statistics, client examples:
  they move or reformat data and keep no state whose order of changes matters.
* The client libraries behind the database engines: `DbConn` has what they may answer.
* SMS rating and `calc_cprice_sms`, the one-pass mode of the classic rater, the inserts and
  searches of its NoSQL branches, the validity period of a bill plan, `net_open`'s retries
  and the serial server.
* `strtok` in `my_cc_parser`, whose state all workers share (see `hazards`): the parsers
  yield their request. The walk of the preload over the accounts of the cache without their
  lock is one step: entries are never freed and only put before others, so it sees an older
  or a newer list.
* What remains after the janitor freed the table at shutdown while interfaces still run:
  `Lifecycle` has the steps, and no text of the repository promises an order.
