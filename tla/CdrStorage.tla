----------------------------- MODULE CdrStorage -----------------------------
(***************************************************************************)
(* The thread of a database profile (CDRMediator/cdr_storage.c and         *)
(* cdr_storage_sched.c): it reads the CDRs of a remote switch from a       *)
(* timestamp on that the storage schedule yields, stores them and writes   *)
(* the schedule. The schedule works in cycles of a day: the first polls    *)
(* read from the start, a poll that finds a new cycle goes back to the     *)
(* cycle of the previous poll, later ones look back over the longest call. *)
(***************************************************************************)
EXTENDS CdrStore, Integers

CONSTANTS
  SchedTs,      \* cdr_sched_ts of the profile: the start of the schedule
  Day,          \* CDR_STORAGE_SCHED_D
  Margin,       \* CDR_STORAGE_SCHED_M
  MaxsecLimit,  \* call_maxsec_limit
  Remote,       \* calls of the remote switch
  Delay,        \* longest time between the timestamp of a CDR and its row
  Interval,     \* cdr_interval, the sleep between two polls
  MaxTime       \* bound of the clock

ASSUME StorageAssumption ==
  /\ {SchedTs, Day, Margin, MaxsecLimit, Delay, Interval, MaxTime} \subseteq Nat
  /\ Day > 0 /\ Interval > 0
  /\ Remote \subseteq Calls

VARIABLES
  now,          \* time(NULL)
  stamp,        \* [Remote -> timestamp of its row, or NoRow]
  sched,        \* rows of cdr_storage_sched of this server: [last, ts]
  storage,      \* the thread: [pc, ts, chk, num, rows: still to
                \* store; history: clean: the select worked, due: calls with a row]
  polls         \* history: complete polls with a successful select that were
                \* planned after the row of the call appeared, up to CatchUp

storageVars == <<now, stamp, sched, storage, polls>>

NoRow == -1
CatchUp == 2 + MaxFaults
StoragePcs == {"off", "idle", "connect", "select", "rows", "sched", "done"}
StorageOff == [pc |-> "off", ts |-> 0, chk |-> 0, num |-> 0, rows |-> {}, clean |-> TRUE, due |-> {}]

StorageTypeOK ==
  /\ now \in 0 .. MaxTime
  /\ stamp \in [Remote -> {NoRow} \cup 0 .. MaxTime]
  /\ \A r \in sched : r.last \in Nat /\ r.ts \in Int
  /\ storage.pc \in StoragePcs
  /\ storage.ts \in Int
  /\ storage.chk \in Int
  /\ storage.num \in {0, 1}
  /\ storage.rows \subseteq Remote
  /\ storage.due \subseteq Remote
  /\ polls \in [Remote -> 0 .. CatchUp]

StorageInit ==
  /\ now \in SchedTs .. MaxTime
  /\ stamp = [c \in Remote |-> NoRow]
  /\ sched = {}
  /\ storage = StorageOff
  /\ polls = [c \in Remote |-> 0]

StorageGoto(pc) == storage' = [storage EXCEPT !.pc = pc]

\* The switch writes the row of a call at most Delay after the call's timestamp.
RemoteRow(c) ==
  /\ stamp[c] = NoRow
  /\ \E t \in 0 .. now :
       /\ now - t <= Delay
       /\ stamp' = [stamp EXCEPT ![c] = t]
  /\ NoFault
  /\ UNCHANGED <<now, sched, storage, polls>>

Slept == now >= storage.chk + Interval

\* Time passes while the thread sleeps; a poll and a restart are short.
Tick ==
  /\ now < MaxTime
  /\ storage.pc = "idle" /\ ~Slept
  /\ now' = now + 1
  /\ NoFault
  /\ UNCHANGED <<stamp, sched, storage, polls>>

\* cdr_storage_sched_set_ts: the timestamp to read from, for a schedule row
\* (last = SchedTs when there is none) and the current time.
Cycle(t) == (t - SchedTs) \div Day
CycleStart(n) == n * Day + SchedTs

SetTsNoLookBack(r, chk) ==
  IF r.last = SchedTs \/ Cycle(chk) <= 1 THEN SchedTs
  ELSE IF CycleStart(Cycle(chk)) > r.last
       THEN IF Cycle(r.last) > 1 THEN CycleStart(Cycle(r.last)) ELSE SchedTs
       ELSE CycleStart(Cycle(chk))

SetTs(r, chk) ==
  LET curr == CycleStart(Cycle(chk)) IN
  IF r.last = SchedTs \/ Cycle(chk) <= 1 THEN SchedTs
  ELSE IF curr > r.last
       THEN IF Cycle(r.last) > 1 THEN CycleStart(Cycle(r.last)) ELSE SchedTs
       ELSE IF curr <= r.ts THEN r.last - (MaxsecLimit + Margin) ELSE curr

NoSched == [last |-> SchedTs, ts |-> 0]

\* cdr_storage_sched_get and set_ts. A failed read looks like an empty table;
\* of several rows the last one in the result wins, in no particular order.
\* The NoSQL branch gets an error text for the schedule and answers 0 rows.
Plan ==
  /\ storage.pc = "idle" /\ Slept
  /\ \E r \in sched \cup {NoSched}, num \in {0, 1} :
       /\ \/ NoFault /\ r \in sched /\ num = 1
          \/ NoFault /\ sched = {} /\ num = 0
          \/ FailOnly /\ r = NoSched /\ num = 0
       /\ storage' = [pc |-> "connect", ts |-> SetTs(r, now), chk |-> now, num |-> num,
                      rows |-> {}, clean |-> TRUE,
                      due |-> {c \in Remote : stamp[c] # NoRow}]
  /\ UNCHANGED <<now, stamp, sched, polls>>

PollEnd(active) == [storage EXCEPT !.pc = IF active THEN "idle" ELSE "done", !.rows = {}, !.due = {}]

\* A failed connection ends the poll and leaves the schedule alone.
Connect(active) ==
  /\ storage.pc = "connect"
  /\ \/ NoFault /\ StorageGoto("select")
     \/ FailOnly /\ storage' = PollEnd(active)
  /\ UNCHANGED <<now, stamp, sched, polls>>

\* The query of cdr_storage_sql_query_parser: rows from the timestamp on.
Window == {c \in Remote : stamp[c] # NoRow /\ stamp[c] >= storage.ts}

\* cdr_storage_get_remote_cdrs: a failed select looks like an empty one.
Select ==
  /\ storage.pc = "select"
  /\ \/ /\ NoFault
        /\ storage' = [storage EXCEPT !.pc = "rows", !.rows = Window]
     \/ /\ FailOnly
        /\ storage' = [storage EXCEPT !.pc = "rows", !.clean = FALSE]
  /\ UNCHANGED <<now, stamp, sched, polls>>

\* One row of the result goes into the local store, or its insert fails.
StoreRow(c) ==
  /\ storage.pc = "rows"
  /\ c \in storage.rows
  /\ AddInDb(c) \/ AddInDbFails(c)
  /\ storage' = [storage EXCEPT !.rows = @ \ {c}]
  /\ UNCHANGED <<now, stamp, sched, polls>>

RowsEnd ==
  /\ storage.pc = "rows"
  /\ storage.rows = {}
  /\ NoFault
  /\ StorageGoto("sched")
  /\ UNCHANGED <<now, stamp, sched, polls>>

SchedRow == [last |-> storage.chk, ts |-> storage.ts]

\* cdr_storage_sched_update writes all rows of the server, _insert adds one;
\* the NoSQL command is malformed and stores nothing. A failure is not looked at.
SchedWrite(active) ==
  /\ storage.pc = "sched"
  /\ storage' = PollEnd(active)
  /\ \/ NoFault /\ sched' = IF ~Sql THEN sched ELSE IF storage.num = 0 THEN sched \cup {SchedRow} ELSE {SchedRow}
     \/ FailOnly /\ UNCHANGED sched
  /\ polls' = [c \in Remote |->
       IF storage.clean /\ c \in storage.due /\ polls[c] < CatchUp THEN polls[c] + 1 ELSE polls[c]]
  /\ UNCHANGED <<now, stamp>>

StorageStep(active) ==
  \/ Plan \/ Connect(active) \/ Select
  \/ \E c \in Remote : StoreRow(c)
  \/ RowsEnd \/ SchedWrite(active)

StorageCrash ==
  /\ storage' = StorageOff
  /\ UNCHANGED <<now, stamp, sched, polls>>

\* A CDR of the remote switch is stored after at most two complete polls, and one
\* more for each failure, that began after its row appeared, also at the end of a
\* cycle, after a restart and when the schedule could not be read or written,
\* unless its own insert failed (cdr_storage_sched_set_ts). Rows from before the
\* start of the schedule are not read by design.
CaughtUp ==
  \A c \in Remote :
    stamp[c] >= SchedTs /\ polls[c] >= 2 + faults => c \in Stored \cup failed
=============================================================================
