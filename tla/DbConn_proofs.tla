--------------------------- MODULE DbConn_proofs ---------------------------
(***************************************************************************)
(* What the answers of one database connection are, for any engines, any   *)
(* number of operations, retries, outages and refused statements: rows in  *)
(* use are the answer to the operation just made, except the leftover of a *)
(* RENAME, and the retry counters never run below zero.                    *)
(***************************************************************************)
EXTENDS DbConn, TLAPS

------------------------------------------------------------------------------
(* Whose answers the connection holds *)

\* Nothing, or what the caller of a RENAME has left behind.
Leftover(a) == a = Null \/ a.by = "rename"

\* An SQL connection holds rows only while they are in use, and a native
\* answer only between a statement and its fetch or its drop.
SqlInv ==
  /\ pc \notin {"command", "reconnect", "ping"}
  /\ pc = "use" => result.of = op /\ res = Null
  /\ pc # "use" => result = Null
  /\ pc = "fetch" => res = Null \/ res.of = op
  /\ pc = "drop" => res = Null \/ ret = "ok"
  /\ pc \notin {"fetch", "drop"} => res = Null

\* A NoSQL connection holds leftovers, and an answer while it is in use.
NoSqlInv ==
  /\ pc \in {"command", "reconnect", "ping"} => kind \in {"keys", "rename"}
  /\ pc \notin {"fetch", "drop", "check"}
  /\ pc = "use" => result.by = "rename" \/ (result.of = op /\ res = result)
  /\ pc # "use" => Leftover(res) /\ Leftover(result)

\* What the connections are like, by the kind of engine.
ConnInv == (IsSql => SqlInv) /\ (~IsSql => NoSqlInv)

\* The engine of a connection stays the same.
LEMMA EngineStays == [Next]_vars => UNCHANGED engine
BY DEF Next, Caller, Open, DbSelect, DbFetch, Use, DbExecute, Drop, DbStatus, PgsqlConnCheck,
   DbCommand, Again, Reconnect, Ping, DbSet, DbGet, Close, Free, Outage, Mute, Recovery, Same, vars

\* The steps of an SQL connection.
LEMMA StepSql == ASSUME IsSql, SqlInv, [Next]_vars PROVE SqlInv'
<1>0. engine \in SqlEngines /\ UNCHANGED engine BY EngineStays DEF IsSql
<1>1. CASE DbSelect
  <2>1. pc = "idle" /\ pc' = "fetch" /\ UNCHANGED result /\ kind' = "select" /\ Query
    BY <1>1 DEF DbSelect, Begin, Goto
  <2>2. res' = res \/ \E rows : res' = Native(rows)
    BY <1>0, <2>1 DEF Query, SqlEngines, PgsqlQuery, MysqlQuery, DuckdbQuery, KeepRes
  <2>3. \A rows : Native(rows).of = op' BY DEF Native
  <2> QED BY <2>1, <2>2, <2>3 DEF SqlInv
<1>2. CASE DbExecute
  <2>1. pc = "idle" /\ pc' = "drop" /\ UNCHANGED result /\ Query
    BY <1>2 DEF DbExecute, Begin, Goto
  <2>2. res' = res \/ ret' = "ok"
    BY <1>0, <2>1 DEF Query, SqlEngines, PgsqlQuery, MysqlQuery, DuckdbQuery, KeepRes, Done
  <2> QED BY <2>1, <2>2 DEF SqlInv
<1>3. CASE DbFetch BY <1>3 DEF DbFetch, Goto, SqlInv
<1>4. CASE Drop BY <1>4 DEF Drop, Goto, SqlInv
<1>5. CASE Use BY <1>5 DEF Use, Goto, SqlInv
<1>6. CASE DbStatus
  <2>1. engine # "redis" BY <1>0 DEF SqlEngines
  <2>2. pc = "idle" /\ pc' \in {"idle", "check"} /\ UNCHANGED <<res, result>>
    BY <1>6, <2>1 DEF DbStatus, Begin, Goto
  <2> QED BY <2>2 DEF SqlInv
<1>7. CASE PgsqlConnCheck BY <1>7 DEF PgsqlConnCheck, Goto, SqlInv
<1>8. CASE Open \/ Close \/ Free BY <1>8 DEF Open, Close, Free, Goto, SqlInv
<1>9. CASE Outage \/ Mute \/ Recovery \/ UNCHANGED vars
  BY <1>9 DEF Outage, Mute, Recovery, vars, conn, SqlInv
<1>10. CASE (\E k \in {"keys", "rename"} : DbCommand(k)) \/ Again \/ Reconnect \/ Ping \/ DbSet \/ DbGet
  BY <1>10 DEF DbCommand, Again, Reconnect, Ping, DbSet, DbGet, SqlInv
<1> QED BY <1>1, <1>2, <1>3, <1>4, <1>5, <1>6, <1>7, <1>8, <1>9, <1>10 DEF Next, Caller

\* The steps of a NoSQL connection.
LEMMA StepNoSql == ASSUME ~IsSql, NoSqlInv, [Next]_vars PROVE NoSqlInv'
<1>0. UNCHANGED engine BY EngineStays
<1>1. CASE \E k \in {"keys", "rename"} : DbCommand(k)
  BY <1>1 DEF DbCommand, Begin, Goto, conn, NoSqlInv, Leftover
<1>2. CASE Again
  <2>0. pc = "command" /\ Leftover(res) /\ Leftover(result) /\ UNCHANGED <<op, kind>>
      /\ kind \in {"keys", "rename"}
    BY <1>2 DEF Again, NoSqlInv
  <2>1. CASE UNCHANGED conn
    <3>1. UNCHANGED <<res, result>> BY <2>1 DEF conn
    <3>2. pc' \in {"idle", "use", "reconnect"} /\ (pc' = "use" => result' # Null)
      BY <1>2 DEF Again, Goto, Returned
    <3> QED BY <2>0, <3>1, <3>2 DEF NoSqlInv, Leftover
  <2>2. CASE RedisCommand /\ Goto(IF ret' = "ok" THEN Returned ELSE "reconnect")
    <3>1. CASE UNCHANGED <<res, result>> /\ ret' = "err"
      <4>1. pc' = "reconnect" BY <2>2, <3>1 DEF Goto
      <4> QED BY <2>0, <3>1, <4>1 DEF NoSqlInv, Leftover
    <3>2. CASE res' = Null /\ result' = Null /\ ret' = "err"
      <4>1. pc' = "reconnect" BY <2>2, <3>2 DEF Goto
      <4> QED BY <2>0, <3>2, <4>1 DEF NoSqlInv, Leftover
    <3>3. CASE res' = Reply(TRUE) /\ result' = Reply(TRUE) /\ ret' = "ok"
      <4>1. res' = result' /\ result'.of = op' /\ result'.by = kind BY <2>0, <3>3 DEF Reply
      <4>2. pc' \in {"idle", "use"} BY <2>2, <3>3 DEF Goto, Returned
      <4>3. CASE pc' = "use" BY <4>1, <4>3 DEF NoSqlInv
      <4>4. CASE pc' = "idle" /\ kind = "rename" BY <4>1, <4>4 DEF NoSqlInv, Leftover
      <4>5. result' # Null BY <3>3 DEF Reply, Null
      <4>6. pc' = "idle" => kind = "rename" BY <2>0, <2>2, <3>3, <4>5 DEF Goto, Returned
      <4> QED BY <4>2, <4>3, <4>4, <4>6
    <3> QED BY <2>2, <3>1, <3>2, <3>3 DEF RedisCommand, Done
  <2> QED BY <1>2, <2>1, <2>2 DEF Again, MongodbCommand
<1>3. CASE Reconnect
  <2>1. /\ pc = "reconnect" /\ UNCHANGED <<result, kind>> /\ (res' = Null \/ UNCHANGED res)
        /\ pc' \in {"idle", "ping", "reconnect"}
    BY <1>3 DEF Reconnect, Goto, conn
  <2> QED BY <2>1 DEF NoSqlInv, Leftover
<1>4. CASE Ping
  <2>1. /\ pc = "ping" /\ pc' = "command" /\ UNCHANGED kind
        /\ (res' = Null /\ result' = Null) \/ UNCHANGED <<res, result>>
    BY <1>4 DEF Ping, Pinged, Goto
  <2> QED BY <2>1 DEF NoSqlInv, Leftover
<1>5. CASE DbSet BY <1>5 DEF DbSet, Begin, Goto, NoSqlInv, Leftover
<1>6. CASE DbGet
  <2>0. pc = "idle" /\ Leftover(res) /\ Leftover(result) /\ pc' \in {"idle", "use"}
    BY <1>6 DEF DbGet, Begin, Goto, NoSqlInv
  <2>1. CASE UNCHANGED <<res, result>> /\ (pc' = "use" => result' # Null)
    BY <2>0, <2>1 DEF NoSqlInv, Leftover
  <2>2. CASE res' = Null /\ result' = Null /\ pc' = "idle" BY <2>2 DEF NoSqlInv, Leftover
  <2>3. CASE res' = Reply(TRUE) /\ result' = Reply(TRUE) /\ (result' # Null => pc' = "use")
    <3>1. res' = result' /\ result'.of = op' /\ result' # Null BY <2>3 DEF Reply, Null
    <3> QED BY <2>3, <3>1 DEF NoSqlInv
  <2> QED BY <1>6, <2>1, <2>2, <2>3 DEF DbGet, Goto, conn
<1>7. CASE DbStatus
  <2>1. engine # "pgsql" BY DEF IsSql, SqlEngines
  <2>2. pc = "idle" /\ pc' = "idle" /\ (UNCHANGED <<res, result>> \/ (res' = Null /\ result' = Null))
    BY <1>7, <2>1 DEF DbStatus, RedisStatus, Pinged, Begin, Goto
  <2> QED BY <2>2 DEF NoSqlInv, Leftover
<1>8. CASE Use BY <1>8 DEF Use, Goto, NoSqlInv, Leftover
<1>9. CASE Open \/ Close \/ Free BY <1>9 DEF Open, Close, Free, Goto, NoSqlInv, Leftover
<1>10. CASE Outage \/ Mute \/ Recovery \/ UNCHANGED vars
  BY <1>10 DEF Outage, Mute, Recovery, vars, conn, NoSqlInv, Leftover
<1>11. CASE DbSelect \/ DbExecute \/ DbFetch \/ Drop \/ PgsqlConnCheck
  BY <1>11 DEF DbSelect, DbExecute, DbFetch, Drop, PgsqlConnCheck, NoSqlInv
<1> QED BY <1>1, <1>2, <1>3, <1>4, <1>5, <1>6, <1>7, <1>8, <1>9, <1>10, <1>11 DEF Next, Caller

\* Rows in use answer the operation just made, whatever is lost, refused or
\* retried on the way, unless they are the leftover of a RENAME (db.c).
THEOREM AnswersOwned == Spec => []OwnAnswer
<1>1. Init => ConnInv BY DEF Init, ConnInv, SqlInv, NoSqlInv, Leftover
<1>2. ConnInv /\ [Next]_vars => ConnInv'
  <2> SUFFICES ASSUME ConnInv, [Next]_vars PROVE ConnInv' OBVIOUS
  <2>1. IsSql' <=> IsSql BY EngineStays DEF IsSql
  <2> QED BY <2>1, StepSql, StepNoSql DEF ConnInv
<1>3. ConnInv => OwnAnswer BY DEF ConnInv, SqlInv, NoSqlInv, OwnAnswer, Leftover
<1> QED BY <1>1, <1>2, <1>3, PTL DEF Spec

------------------------------------------------------------------------------
(* Types and the retry counters *)

\* A retry counter that is about to be counted down is not yet at zero, and a
\* command belongs to an operation.
Counters ==
  /\ pc = "check" => n > 0
  /\ pc \in {"reconnect", "ping"} => c > 0
  /\ pc \in {"command", "reconnect", "ping"} => op >= 1 /\ kind \in Kinds

\* The types, with the counters that a retry decrements.
TypeInv == TypeOK /\ Counters

\* The bounds are numbers.
LEMMA Bounds ==
  /\ Retries \in Nat /\ Retries > 0 /\ CheckRetries \in Nat /\ CheckRetries > 0
  /\ MaxOps \in Nat /\ MaxOutages \in Nat /\ MaxRefused \in Nat
  /\ Engines \subseteq {"pgsql", "mysql", "duckdb", "redis", "mongodb"}
BY ConnAssumption

\* A fault is counted up to its bound.
LEMMA FaultTypes ==
  ASSUME TypeOK, NoFault \/ Refuse PROVE outages' \in 0 .. MaxOutages /\ refused' \in 0 .. MaxRefused
BY Bounds DEF TypeOK, NoFault, Refuse, faultVars

\* A connect leaves a handle in one of its states.
LEMMA ConnectTypes ==
  ASSUME TypeOK, EngineConnect PROVE rconn' \in {"null", "up", "lost"} /\ ret' \in {"ok", "err"}
<1>1. engine \in {"pgsql", "mysql", "duckdb", "redis", "mongodb"} BY Bounds DEF TypeOK
<1> QED BY <1>1 DEF TypeOK, EngineConnect, PgsqlConnect, MysqlConnect, DuckdbConnect, RedisConnect,
           MongodbConnect, Done

\* The answer to a new operation.
LEMMA AnswerTypes ==
  ASSUME op' \in 1 .. MaxOps, kind' \in Kinds
  PROVE \A rows \in BOOLEAN : Native(rows) \in Answers /\ Reply(rows) \in Answers
BY DEF Native, Reply, Answers

\* An operation begins.
LEMMA BeginTypes ==
  ASSUME TypeOK, NEW k \in Kinds, Begin(k)
  PROVE op' \in 1 .. MaxOps /\ op' \in 0 .. MaxOps /\ op' >= 1 /\ kind' = k /\ kind' \in Kinds
BY Bounds DEF TypeOK, Begin

\* A statement of an SQL engine.
LEMMA QueryTypes ==
  ASSUME TypeOK, IsSql, op' \in 1 .. MaxOps, kind' \in Kinds, Query
  PROVE /\ rconn' \in {"null", "up", "lost"} /\ res' \in Answers /\ ret' \in {"ok", "err"}
        /\ ran' \in Nat /\ (NoFault \/ Refuse)
<1>1. engine \in SqlEngines BY DEF IsSql
<1>2. Reads \in BOOLEAN BY DEF Reads
<1>3. /\ res' = res \/ \E rows \in BOOLEAN : res' = Native(rows)
      /\ rconn' = rconn \/ rconn' = "up"
      /\ ret' \in {"ok", "err"} /\ ran' \in {0, 1} /\ (NoFault \/ Refuse)
  BY <1>1, <1>2 DEF Query, SqlEngines, PgsqlQuery, MysqlQuery, DuckdbQuery, KeepRes, Done, Ran, NotRan
<1> QED BY <1>3, AnswerTypes DEF TypeOK

\* The places of the caller.
Places == {"new", "idle", "fetch", "use", "drop", "check", "command", "reconnect",
           "ping", "closed", "gone"}

\* One case for each operation.
LEMMA StepTypes == ASSUME TypeInv, [Next]_vars PROVE TypeInv'
<1>0. TypeOK /\ Counters BY DEF TypeInv
<1>1. UNCHANGED engine BY EngineStays
<1> DEFINE Fits ==
      /\ engine' \in Engines /\ server' \in {"up", "down", "mute"}
      /\ rconn' \in {"null", "up", "lost"}
      /\ res' \in Answers /\ result' \in Answers
      /\ op' \in 0 .. MaxOps /\ kind' \in Kinds \cup {"none"}
      /\ pc' \in Places
      /\ n' \in 0 .. Retries + CheckRetries /\ c' \in 0 .. Retries
      /\ ret' \in {"ok", "err", NoRet} /\ ran' \in Nat
      /\ outages' \in 0 .. MaxOutages /\ refused' \in 0 .. MaxRefused
      /\ pc' = "check" => n' > 0
      /\ pc' \in {"reconnect", "ping"} => c' > 0
      /\ pc' \in {"command", "reconnect", "ping"} => op' >= 1 /\ kind' \in Kinds
<1>2. SUFFICES Fits BY DEF TypeInv, TypeOK, Counters, Places
<1>3. Null \in Answers /\ "select" \in Kinds /\ "execute" \in Kinds /\ "status" \in Kinds
      /\ "keys" \in Kinds /\ "rename" \in Kinds /\ "set" \in Kinds /\ "get" \in Kinds
  BY DEF Answers, Kinds
<1>4. CASE Open
  BY <1>0, <1>1, <1>4, ConnectTypes, FaultTypes DEF Open, Goto, Same, TypeOK, Places
<1>5. CASE DbSelect \/ DbExecute
  BY <1>0, <1>1, <1>3, <1>5, BeginTypes, QueryTypes, FaultTypes DEF DbSelect, DbExecute, Goto, Same, TypeOK, Places
<1>6. CASE DbFetch \/ Drop \/ Use \/ Close \/ Free
  BY <1>0, <1>1, <1>3, <1>6, FaultTypes
  DEF DbFetch, Drop, Use, Close, Free, Goto, Same, Done, TypeOK, Places
<1>7. CASE DbStatus
  <2>1. op' \in 0 .. MaxOps /\ kind' \in Kinds BY <1>0, <1>3, <1>7, BeginTypes DEF DbStatus
  <2>2. UNCHANGED <<rconn, c, ran, server>> BY <1>7 DEF DbStatus, Same
  <2>3. /\ \/ n' = CheckRetries /\ pc' = "check" /\ UNCHANGED ret
           \/ UNCHANGED n /\ pc' = "idle" /\ ret' \in {"ok", "err"}
        /\ res' \in {res, Null} /\ result' \in {result, Null}
        /\ NoFault \/ Refuse
    BY <1>7 DEF DbStatus, RedisStatus, Pinged, Goto, Done
  <2>4. n' \in 0 .. Retries + CheckRetries /\ (pc' = "check" => n' > 0)
    BY <1>0, <2>3, Bounds DEF TypeOK
  <2> QED BY <1>0, <1>1, <1>3, <2>1, <2>2, <2>3, <2>4, FaultTypes DEF TypeOK, Places
<1>8. CASE PgsqlConnCheck
  <2>1. UNCHANGED <<res, result, op, kind, c, ran, server, outages, refused>> /\ pc = "check"
    BY <1>8 DEF PgsqlConnCheck, Same, NoFault, faultVars
  <2>2. /\ \/ n' = n /\ pc' = "idle" /\ ret' = "ok" /\ UNCHANGED rconn
           \/ n' = n - 1 /\ n' > 0 /\ UNCHANGED <<pc, ret>> /\ rconn' \in {"up", "lost"}
           \/ n' = n - 1 /\ ret' = "err" /\ pc' = "idle" /\ rconn' \in {"up", "lost"}
    BY <1>8 DEF PgsqlConnCheck, Goto, Done
  <2>3. n \in 0 .. Retries + CheckRetries /\ n > 0 BY <1>0, <2>1 DEF TypeOK, Counters
  <2>4. n' \in 0 .. Retries + CheckRetries /\ (pc' = "check" => n' > 0)
    BY <2>1, <2>2, <2>3, Bounds
  <2> QED BY <1>0, <1>1, <2>1, <2>2, <2>4 DEF TypeOK, Places
<1>9. CASE \E k \in {"keys", "rename"} : DbCommand(k)
  <2>1. op' \in 0 .. MaxOps /\ op' >= 1 /\ kind' \in Kinds
    BY <1>0, <1>3, <1>9, BeginTypes DEF DbCommand
  <2>2. /\ UNCHANGED <<rconn, res, result, ret, server, outages, refused>>
        /\ n' = Retries /\ c' = Retries /\ ran' = 0 /\ pc' = "command"
    BY <1>9 DEF DbCommand, conn, Same, NoFault, faultVars, Goto
  <2>3. n' \in 0 .. Retries + CheckRetries /\ c' \in 0 .. Retries BY <2>2, Bounds
  <2> QED BY <1>0, <1>1, <2>1, <2>2, <2>3 DEF TypeOK, Places
<1>10. CASE Again
  <2>1. UNCHANGED <<op, kind, n, c, server>> /\ pc = "command" BY <1>10 DEF Again, Same
  <2>2. op' \in 1 .. MaxOps /\ kind' \in Kinds
    BY <1>0, <2>1, Bounds DEF TypeOK, Counters
  <2>3. c > 0 \/ c = 0 BY <1>0, Bounds DEF TypeOK
  <2>4. CASE c = 0
    BY <1>0, <1>1, <1>10, <2>1, <2>2, <2>4, FaultTypes DEF Again, Done, Goto, conn, TypeOK, Places
  <2>5. CASE c # 0
    <3> DEFINE answer == Reply(TRUE)
    <3>0. answer \in Answers BY <2>2, AnswerTypes
    <3>3. /\ res' \in {res, Null, answer} /\ result' \in {result, Null, answer}
          /\ rconn' \in {rconn, "lost"} /\ ret' \in {"ok", "err"} /\ ran' \in {ran, ran + 1}
          /\ NoFault \/ Refuse
      BY <1>10, <2>5 DEF Again, RedisCommand, MongodbCommand, Done, conn
    <3> HIDE DEF answer
    <3>1. /\ res' \in Answers /\ result' \in Answers /\ rconn' \in {"null", "up", "lost"}
          /\ ret' \in {"ok", "err"} /\ ran' \in Nat /\ (NoFault \/ Refuse)
      BY <1>0, <1>3, <3>0, <3>3 DEF TypeOK
    <3>2. pc' \in {"idle", "use", "reconnect"} BY <1>10, <2>5 DEF Again, Goto, Returned
    <3> QED BY <1>0, <1>1, <2>1, <2>2, <2>3, <2>5, <3>1, <3>2, FaultTypes DEF TypeOK, Places
  <2> QED BY <2>4, <2>5
<1>11. CASE Reconnect
  <2>1. UNCHANGED <<op, kind, c, ran, server>> /\ pc = "reconnect" /\ NoFault
    BY <1>11 DEF Reconnect, Same
  <2>2. CASE n = 0
    BY <1>0, <1>1, <1>11, <2>1, <2>2, FaultTypes DEF Reconnect, Done, Goto, conn, TypeOK, Counters, Places
  <2>3. CASE n # 0
    <3>1. res' = Null /\ UNCHANGED result /\ EngineConnect BY <1>11, <2>3 DEF Reconnect
    <3>2. \/ pc' = "ping" /\ UNCHANGED n
          \/ pc' = "reconnect" /\ n' = n - 1
      BY <1>11, <2>1, <2>3 DEF Reconnect, Goto
    <3>3. n' \in 0 .. Retries + CheckRetries BY <1>0, <2>3, <3>2, Bounds DEF TypeOK
    <3> QED BY <1>0, <1>1, <1>3, <2>1, <3>1, <3>2, <3>3, ConnectTypes, FaultTypes DEF TypeOK, Counters, Places
  <2> QED BY <2>2, <2>3
<1>12. CASE Ping
  <2>1. /\ UNCHANGED <<op, kind, n, ran, ret, rconn, server>> /\ pc = "ping" /\ NoFault
        /\ c' = c - 1 /\ pc' = "command" /\ res' \in {res, Null} /\ result' \in {result, Null}
    BY <1>12 DEF Ping, Pinged, Same, Goto
  <2>2. c' \in 0 .. Retries BY <1>0, <2>1, Bounds DEF TypeOK, Counters
  <2> QED BY <1>0, <1>1, <1>3, <2>1, <2>2, FaultTypes DEF TypeOK, Counters, Places
<1>13. CASE DbSet
  <2>1. op' \in 0 .. MaxOps /\ kind' \in Kinds BY <1>0, <1>3, <1>13, BeginTypes DEF DbSet
  <2>2. /\ rconn' \in {rconn, "lost"} /\ ret' \in {"ok", "err"} /\ ran' \in {0, 1}
        /\ (NoFault \/ Refuse)
    BY <1>13 DEF DbSet, RedisSet, MongodbSet, NoAnswer, Done
  <2> QED BY <1>0, <1>1, <1>3, <1>13, <2>1, <2>2, FaultTypes DEF DbSet, Goto, Same, TypeOK, Places
<1>14. CASE DbGet
  <2> DEFINE answer == Reply(TRUE)
  <2>1. op' \in 1 .. MaxOps /\ op' \in 0 .. MaxOps /\ kind' \in Kinds
    BY <1>0, <1>3, <1>14, BeginTypes DEF DbGet
  <2>2. /\ rconn' \in {rconn, "lost"} /\ ret' \in {"ok", "err"} /\ ran' \in {0, 1}
        /\ (NoFault \/ Refuse) /\ pc' \in {"idle", "use"}
        /\ res' \in {res, Null, answer} /\ result' \in {result, Null, answer}
        /\ UNCHANGED <<n, c, server>>
    BY <1>14 DEF DbGet, Done, Goto, Same, conn
  <2>3. answer \in Answers BY <2>1, AnswerTypes
  <2> HIDE DEF answer
  <2> QED BY <1>0, <1>1, <1>3, <2>1, <2>2, <2>3, FaultTypes DEF TypeOK, Places
<1>15. CASE Outage \/ Mute \/ Recovery \/ UNCHANGED vars
  BY <1>0, <1>1, <1>15, Bounds DEF Outage, Mute, Recovery, vars, conn, faultVars, TypeOK, Counters, Places
<1> HIDE DEF Fits
<1> QED BY <1>4, <1>5, <1>6, <1>7, <1>8, <1>9, <1>10, <1>11, <1>12, <1>13, <1>14, <1>15 DEF Next, Caller

\* The connection keeps its types: in particular the counters of db_command and
\* of db_pgsql_conn_check stay within their limits and never run below zero.
THEOREM ConnTyped == Spec => []TypeOK
<1>1. Init => TypeInv
  BY Bounds DEF Init, TypeInv, TypeOK, Counters, Answers, NoRet
<1>2. TypeInv => TypeOK BY DEF TypeInv
<1> QED BY <1>1, <1>2, StepTypes, PTL DEF Spec
=============================================================================
