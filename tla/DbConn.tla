-------------------------------- MODULE DbConn --------------------------------
(***************************************************************************)
(* One connection of the database layer (db.c) with its engine (db_pgsql,  *)
(* db_mysql, db_duckdb, db_redis, db_mongodb) and the thread that uses it. *)
(* A db_conn_t holds the handle rconn, the native answer res and the rows  *)
(* made of it, result; callers take result after a select, a get or a      *)
(* command and free it. The server may go away and come back, a statement  *)
(* may be refused, an answer may be empty or lost on its way. It may also  *)
(* fall silent with the link still up: no engine has set a timeout for the *)
(* answers of its server (db_redis.c, "//redisSetTimeout"), so a call that *)
(* waits for one waits as long; only the driver of MongoDB has its own.    *)
(***************************************************************************)
EXTENDS Integers

CONSTANTS
  Engines,      \* the engines to consider
  Retries,      \* n and c of db_command: 5
  CheckRetries, \* num_retries of the configuration, at least 1
  MaxOps,       \* operations of one connection
  MaxOutages,   \* how often the server goes away or falls silent
  MaxRefused    \* how many statements it refuses

ASSUME ConnAssumption ==
  /\ Engines \subseteq {"pgsql", "mysql", "duckdb", "redis", "mongodb"}
  /\ {Retries, CheckRetries} \subseteq Nat \ {0}
  /\ {MaxOps, MaxOutages, MaxRefused} \subseteq Nat

Null == [of |-> 0, by |-> "none", rows |-> FALSE]   \* a NULL res or result
NoRet == "none"

VARIABLES
  engine,
  server,       \* "up", "down", "mute": nothing arrives and nothing breaks
  rconn,        \* "null", "up", "lost": no handle, a live one, one whose link is gone
  res, result,  \* [of: operation, by: its kind, rows], or Null
  op, kind,     \* the operation under way: its number and kind
  pc,
  n, c,         \* counters of db_command; n also counts in db_pgsql_conn_check
  ret,          \* what the last operation returned: "ok", "err"
  ran,          \* how often the server carried the operation out
  outages, refused

conn == <<rconn, res, result>>
faultVars == <<outages, refused>>
vars == <<engine, server, conn, op, kind, pc, n, c, ret, ran, faultVars>>

SqlEngines == {"pgsql", "mysql", "duckdb"}
IsSql == engine \in SqlEngines
Kinds == {"select", "execute", "status", "keys", "rename", "set", "get"}
Answers == [of : 1 .. MaxOps, by : Kinds, rows : BOOLEAN] \cup {Null}

TypeOK ==
  /\ engine \in Engines /\ server \in {"up", "down", "mute"}
  /\ rconn \in {"null", "up", "lost"}
  /\ res \in Answers /\ result \in Answers
  /\ op \in 0 .. MaxOps /\ kind \in Kinds \cup {"none"}
  /\ pc \in {"new", "idle", "fetch", "use", "drop", "check", "command", "reconnect",
             "ping", "closed", "gone"}
  /\ n \in 0 .. Retries + CheckRetries /\ c \in 0 .. Retries
  /\ ret \in {"ok", "err", NoRet} /\ ran \in Nat
  /\ outages \in 0 .. MaxOutages /\ refused \in 0 .. MaxRefused

Init ==
  /\ engine \in Engines /\ server \in {"up", "down"}
  /\ rconn = "null" /\ res = Null /\ result = Null
  /\ op = 0 /\ kind = "none" /\ pc = "new" /\ n = 0 /\ c = 0
  /\ ret = NoRet /\ ran = 0 /\ outages = 0 /\ refused = 0

Goto(next) == pc' = next
NoFault == UNCHANGED faultVars
Refuse == refused < MaxRefused /\ refused' = refused + 1 /\ UNCHANGED outages
Done(ok) == ret' = IF ok THEN "ok" ELSE "err"
Same == UNCHANGED <<engine, server>>
Reachable == server = "up" \/ engine = "duckdb"
\* A request over this link gets no answer.
Silent == server = "mute" /\ rconn = "up" /\ engine # "duckdb"

------------------------------------------------------------------------------
(* The environment: an outage breaks the link; duckdb is embedded. *)

Outage ==
  /\ server # "down" /\ outages < MaxOutages /\ pc # "gone"
  /\ server' = "down" /\ outages' = outages + 1
  /\ rconn' = IF rconn = "up" /\ engine # "duckdb" THEN "lost" ELSE rconn
  /\ UNCHANGED <<engine, res, result, op, kind, pc, n, c, ret, ran, refused>>

Mute ==
  /\ server = "up" /\ outages < MaxOutages /\ pc # "gone"
  /\ server' = "mute" /\ outages' = outages + 1
  /\ UNCHANGED <<engine, conn, op, kind, pc, n, c, ret, ran, refused>>

Recovery ==
  /\ server # "up" /\ server' = "up"
  /\ UNCHANGED <<engine, conn, op, kind, pc, n, c, ret, ran, faultVars>>

------------------------------------------------------------------------------
(* Connect and close, per engine. *)

\* libpq reports a failed login; the handle is finished and not kept.
PgsqlConnect == IF Reachable THEN rconn' = "up" /\ Done(TRUE) ELSE UNCHANGED rconn /\ Done(FALSE)
\* The answer of mysql_real_connect is not looked at, nor the err of a redis context.
MysqlConnect == rconn' = (IF Reachable THEN "up" ELSE "lost") /\ Done(TRUE)
DuckdbConnect == rconn' = "up" /\ Done(TRUE)
\* A silent server may still take the connection: redisConnect only opens it.
RedisConnect ==
  /\ \/ server # "down" /\ rconn' = "up"
     \/ server # "up" /\ rconn' = "lost"
  /\ Done(TRUE)
\* The client is pinged, and kept when the ping fails.
MongodbConnect == rconn' = (IF Reachable THEN "up" ELSE "lost") /\ Done(Reachable)

EngineConnect ==
  CASE engine = "pgsql" -> PgsqlConnect
    [] engine = "mysql" -> MysqlConnect
    [] engine = "duckdb" -> DuckdbConnect
    [] engine = "redis" -> RedisConnect
    [] engine = "mongodb" -> MongodbConnect

\* db_engine_bind and db_connect; a caller gives up when they fail.
Open ==
  /\ pc = "new"
  /\ EngineConnect
  /\ Goto(IF ret' = "ok" THEN "idle" ELSE "closed")
  /\ Same /\ NoFault /\ UNCHANGED <<res, result, op, kind, n, c, ran>>

Close ==
  /\ pc = "idle"
  /\ Goto("closed")
  /\ rconn' = "null"
  /\ Same /\ NoFault /\ UNCHANGED <<res, result, op, kind, n, c, ret, ran>>

\* db_free: the table of functions goes first, a res left over is freed through it.
Free ==
  /\ pc = "closed"
  /\ Goto("gone")
  /\ res' = Null /\ result' = Null
  /\ Same /\ NoFault /\ UNCHANGED <<rconn, op, kind, n, c, ret, ran>>

------------------------------------------------------------------------------
(* SQL. An engine's query sets res or leaves it, and answers ok or not.    *)

Begin(k) ==
  /\ pc = "idle" /\ op < MaxOps
  /\ op' = op + 1 /\ kind' = k
Native(rows) == [of |-> op', by |-> kind', rows |-> rows]
Ran == ran' = 1
NotRan == ran' = 0
KeepRes == UNCHANGED res
Reads == kind' = "select"

\* One reconnect before the statement; a refused statement is an answer too.
PgsqlQuery ==
  \/ rconn = "lost" /\ ~Reachable /\ KeepRes /\ UNCHANGED rconn /\ NotRan /\ Done(FALSE) /\ NoFault
  \/ /\ rconn = "up" \/ Reachable
     /\ rconn' = "up"
     /\ Done(TRUE)
     /\ \/ \E rows \in {Reads, FALSE} : res' = Native(rows) /\ Ran /\ NoFault
        \/ res' = Native(FALSE) /\ NotRan /\ Refuse

\* Only a select has a result to store; no engine but pgsql reconnects here.
MysqlQuery ==
  /\ UNCHANGED rconn
  /\ \/ rconn = "lost" /\ KeepRes /\ NotRan /\ Done(FALSE) /\ NoFault
     \/ rconn = "up" /\ KeepRes /\ NotRan /\ Done(FALSE) /\ Refuse
     \/ rconn = "up" /\ Reads /\ (\E rows \in BOOLEAN : res' = Native(rows)) /\ Ran /\ Done(TRUE) /\ NoFault
     \/ rconn = "up" /\ ~Reads /\ KeepRes /\ Ran /\ Done(FALSE) /\ NoFault

DuckdbQuery ==
  /\ UNCHANGED rconn
  /\ \/ KeepRes /\ NotRan /\ Done(FALSE) /\ Refuse
     \/ (\E rows \in {Reads, FALSE} : res' = Native(rows)) /\ Ran /\ Done(TRUE) /\ NoFault

Query ==
  CASE engine = "pgsql" -> PgsqlQuery
    [] engine = "mysql" -> MysqlQuery
    [] engine = "duckdb" -> DuckdbQuery

\* db_select; the callers do not look at what it returns.
DbSelect ==
  /\ IsSql /\ ~Silent /\ Begin("select") /\ Query /\ Goto("fetch")
  /\ Same /\ UNCHANGED <<result, n, c>>

\* db_fetch: the rows of res go to result and res is freed.
DbFetch ==
  /\ pc = "fetch"
  /\ IF res = Null THEN UNCHANGED <<res, result>> /\ Done(FALSE)
     ELSE result' = res /\ res' = Null /\ Done(TRUE)
  /\ Goto(IF result' = Null THEN "idle" ELSE "use")
  /\ Same /\ NoFault /\ UNCHANGED <<rconn, op, kind, n, c, ran>>

\* db_insert and db_update free res after a statement that returned DB_OK,
\* db_query with clear after any.
DbExecuteKeepsRes ==
  /\ IsSql /\ ~Silent /\ Begin("execute") /\ Query /\ Goto("idle")
  /\ Same /\ UNCHANGED <<result, n, c>>
DbExecute ==
  /\ IsSql /\ ~Silent /\ Begin("execute") /\ Goto("drop")
  /\ Query
  /\ Same /\ UNCHANGED <<result, n, c>>
Drop ==
  /\ pc = "drop"
  /\ res' = Null \/ (ret = "err" /\ UNCHANGED res)
  /\ Goto("idle")
  /\ Same /\ NoFault /\ UNCHANGED <<rconn, result, op, kind, n, c, ret, ran>>

\* A caller reads its rows and frees them, and res with them in NoSQL.
Use ==
  /\ pc = "use"
  /\ result' = Null /\ res' = Null
  /\ Goto("idle")
  /\ Same /\ NoFault /\ UNCHANGED <<rconn, op, kind, n, c, ret, ran>>

------------------------------------------------------------------------------
(* db_status: pgsql resets a lost connection num_retries times, a ping of  *)
(* redis puts its answer where the last one is and frees it.               *)

Pinged == IF rconn = "up" THEN res' = Null /\ result' = Null ELSE UNCHANGED <<res, result>>

RedisStatus ==
  /\ ~Silent /\ Pinged
  /\ \/ Done(rconn = "up") /\ NoFault
     \/ rconn = "up" /\ Done(FALSE) /\ Refuse

DbStatus ==
  /\ Begin("status")
  /\ \/ engine = "pgsql" /\ Goto("check") /\ n' = CheckRetries /\ UNCHANGED <<ret, res, result>> /\ NoFault
     \/ /\ engine # "pgsql" /\ Goto("idle") /\ UNCHANGED n
        /\ \/ engine = "redis" /\ RedisStatus
           \/ engine = "mysql" /\ Done(FALSE) /\ UNCHANGED <<res, result>> /\ NoFault
           \/ engine = "duckdb" /\ Done(TRUE) /\ UNCHANGED <<res, result>> /\ NoFault
           \/ engine = "mongodb" /\ Done(rconn = "up" /\ ~Silent) /\ UNCHANGED <<res, result>> /\ NoFault
  /\ Same /\ UNCHANGED <<rconn, c, ran>>

PgsqlConnCheck ==
  /\ pc = "check"
  /\ IF rconn = "up" THEN Done(TRUE) /\ Goto("idle") /\ UNCHANGED <<rconn, n>>
     ELSE /\ rconn' = IF Reachable THEN "up" ELSE "lost"
          /\ n' = n - 1
          /\ IF n' > 0 THEN UNCHANGED <<pc, ret>> ELSE Done(FALSE) /\ Goto("idle")
  /\ Same /\ NoFault /\ UNCHANGED <<res, result, op, kind, c, ran>>

------------------------------------------------------------------------------
(* NoSQL *)

Reply(rows) == [of |-> op', by |-> kind', rows |-> rows]

\* One redis command: it waits for its reply as long as the server is silent,
\* fails without a link, loses its reply when the link breaks, and an answer
\* without text or elements is an error as well.
RedisCommand ==
  \/ rconn # "up" /\ UNCHANGED <<rconn, res, result, ran>> /\ Done(FALSE) /\ NoFault
  \/ /\ rconn = "up" /\ ~Silent /\ ran' = ran + 1
     /\ \/ res' = Reply(TRUE) /\ result' = Reply(TRUE) /\ Done(TRUE) /\ UNCHANGED rconn /\ NoFault
        \/ res' = Null /\ result' = Null /\ Done(FALSE) /\ UNCHANGED rconn /\ NoFault
        \/ rconn' = "lost" /\ UNCHANGED <<res, result>> /\ Done(FALSE) /\ Refuse

\* The mongodb command is empty.
MongodbCommand == UNCHANGED <<conn, ran>> /\ Done(TRUE) /\ NoFault

DbCommand(k) ==
  /\ ~IsSql /\ Begin(k)
  /\ n' = Retries /\ c' = Retries /\ ran' = 0
  /\ Goto("command")
  /\ Same /\ NoFault /\ UNCHANGED <<conn, ret>>

\* A keys command is read and freed by its caller; the caller of rename
\* (cdr_update_cdr) leaves res and result where they are.
Returned == IF kind = "keys" /\ ret' = "ok" /\ result' # Null THEN "use" ELSE "idle"

Again ==
  /\ pc = "command"
  /\ UNCHANGED <<op, kind, n, c>> /\ Same
  /\ IF c = 0 THEN Done(FALSE) /\ Goto("idle") /\ UNCHANGED <<conn, ran>> /\ NoFault
     ELSE /\ \/ engine = "redis" /\ RedisCommand
             \/ engine = "mongodb" /\ MongodbCommand
          /\ Goto(IF ret' = "ok" THEN Returned ELSE "reconnect")

\* Free the answer, close, sleep, connect; n limits the failed connects.
Reconnect ==
  /\ pc = "reconnect"
  /\ IF n = 0 THEN Done(FALSE) /\ Goto("idle") /\ UNCHANGED <<conn, n>>
     ELSE /\ res' = Null /\ UNCHANGED result
          /\ EngineConnect
          /\ IF ret' = "ok" THEN Goto("ping") /\ UNCHANGED n
             ELSE UNCHANGED pc /\ n' = n - 1
  /\ Same /\ NoFault /\ UNCHANGED <<op, kind, c, ran>>

\* The status is only logged.
PingForever ==
  /\ pc = "ping" /\ ~Silent /\ Pinged /\ Goto("command")
  /\ Same /\ NoFault /\ UNCHANGED <<rconn, op, kind, n, c, ret, ran>>
Ping ==
  /\ pc = "ping" /\ ~Silent /\ Pinged
  /\ c' = c - 1
  /\ Goto("command")
  /\ Same /\ NoFault /\ UNCHANGED <<rconn, op, kind, n, ret, ran>>

\* db_set: one command, whose answer is compared with "OK" when there is one;
\* no answer counts as success. db_set frees both. Mongodb only logs a failure.
\* An answer left by another operation is compared in its place.
NoAnswer == \E ok \in BOOLEAN : Done(ok) /\ (result = Null => ok)
RedisSet ==
  \E ok \in BOOLEAN :
    /\ ~Silent
    /\ \/ rconn = "up" /\ ok /\ ran' = 1 /\ UNCHANGED rconn /\ NoFault /\ Done(TRUE)
       \/ rconn = "up" /\ ~ok /\ ran' = 0 /\ UNCHANGED rconn /\ Refuse /\ Done(FALSE)
       \/ rconn = "up" /\ ~ok /\ ran' = 0 /\ rconn' = "lost" /\ Refuse /\ NoAnswer
       \/ rconn # "up" /\ ~ok /\ ran' = 0 /\ UNCHANGED rconn /\ NoFault /\ NoAnswer
MongodbSet ==
  /\ Done(TRUE) /\ UNCHANGED rconn
  /\ \/ rconn = "up" /\ ~Silent /\ ran' = 1 /\ NoFault
     \/ rconn = "up" /\ ran' = 0 /\ Refuse
     \/ (rconn # "up" \/ Silent) /\ ran' = 0 /\ NoFault
DbSet ==
  /\ ~IsSql /\ Begin("set")
  /\ \/ engine = "redis" /\ RedisSet
     \/ engine = "mongodb" /\ MongodbSet
  /\ res' = Null /\ result' = Null
  /\ Goto("idle")
  /\ Same /\ UNCHANGED <<n, c>>

\* db_get: a failed command is logged and success returned; mongodb has none.
DbGet ==
  /\ ~IsSql /\ Begin("get")
  /\ \/ engine = "mongodb" /\ UNCHANGED conn /\ ran' = 0 /\ Done(FALSE) /\ NoFault /\ Goto("idle")
     \/ /\ engine = "redis" /\ ~Silent
        /\ \/ /\ rconn = "up" /\ ran' = 1 /\ UNCHANGED rconn /\ NoFault
              /\ \/ res' = Reply(TRUE) /\ result' = Reply(TRUE)
                 \/ res' = Null /\ result' = Null
           \/ rconn = "up" /\ ran' = 1 /\ rconn' = "lost" /\ UNCHANGED <<res, result>> /\ Refuse
           \/ rconn # "up" /\ ran' = 0 /\ UNCHANGED conn /\ NoFault
        /\ Done(TRUE)
        /\ Goto(IF result' = Null THEN "idle" ELSE "use")
  /\ Same /\ UNCHANGED <<n, c>>

------------------------------------------------------------------------------
Caller ==
  \/ Open \/ DbSelect \/ DbFetch \/ Use \/ DbExecute \/ Drop \/ DbStatus \/ PgsqlConnCheck
  \/ (\E k \in {"keys", "rename"} : DbCommand(k)) \/ Again \/ Reconnect \/ Ping
  \/ DbSet \/ DbGet \/ Close \/ Free
Next == Caller \/ Outage \/ Mute \/ Recovery

Spec == Init /\ [][Next]_vars
FairSpec == Spec /\ WF_vars(Caller)

------------------------------------------------------------------------------
(* Properties *)

\* Rows in use are the answer to the operation just made, and in NoSQL the
\* reply they point into is still there, although db_select and db_get hide
\* their failures; and db_free finds nothing to free through the table of
\* functions it has already freed. The only answer that is ever taken for
\* another's, or left for db_free, is the "OK" of a RENAME, which
\* cdr_update_cdr does not fetch.
OwnAnswer ==
  /\ pc = "use" => result.by = "rename" \/ (result.of = op /\ (IsSql \/ res = result))
  /\ pc = "closed" => res = Null \/ res.by = "rename"

\* db_command comes back, with the server away for ever, coming and going, or
\* answering every command with nothing; only while the server keeps the link and
\* is silent it waits, and when that lasts for ever it waits for ever: there is no
\* timeout for a command (db_redis_connect).
CommandReturns == pc = "command" ~> (pc \in {"idle", "use"} \/ []Silent)

\* "DB_OK: returned value for OK/success": a statement or a set that returned
\* it was carried out.
OkIsDone == pc = "idle" /\ kind \in {"execute", "set"} /\ ret = "ok" => ran = 1
==============================================================================
