----------------------------- MODULE CdrProfile -----------------------------
(***************************************************************************)
(* The registration of a CDR profile in the local database each time it is *)
(* started (CDRMediator/cdr_cfg.c, cdr_cfg_profile_insert): the profile,   *)
(* its server, the remote storage of a database profile and the prefix     *)
(* filters, each looked up and inserted when it is not there, all in one   *)
(* transaction. Any statement may be refused or lose the connection.       *)
(* PostgreSQL aborts the transaction of a refused statement, and           *)
(* db_pgsql_exec connects again, outside any transaction. In MySQL (with a *)
(* transactional engine) the transaction goes on after a refused           *)
(* statement, nothing connects again, and db_mysql_query reports an error  *)
(* for a statement that yields no rows: for every insert that worked.      *)
(***************************************************************************)
EXTENDS CdrStore

CONSTANT NumFilters   \* prefix filters in a profile's file

ASSUME ProfileAssumption == NumFilters \in Nat

ProfileTypes == {"file", "db"}

VARIABLES
  reg,       \* [ProfileTypes -> rows of the profile in each table], committed
  regThread, \* [pc, tx, draft: what the transaction sees, pid, sid: ids found, in: filters done]
  lost       \* history: profiles whose registration lost its connection

regVars == <<reg, regThread, lost>>

NoRows == [profile |-> 0, servers |-> 0, dbstorage |-> 0, filters |-> 0]
RegOff == [pc |-> "off", tx |-> "none", draft |-> NoRows, pid |-> 0, sid |-> 0, in |-> 0]
RegPcs == {"off", "begin", "profile", "insert_profile", "new_profile", "server",
           "insert_server", "new_server", "dbstorage", "insert_dbstorage",
           "filters", "insert_filters", "commit"}

ProfileTypeOK ==
  /\ \A p \in ProfileTypes : reg[p].profile \in {0, 1} /\ reg[p].servers \in 0 .. 2
  /\ regThread.pc \in RegPcs /\ regThread.tx \in {"none", "open", "aborted", "gone"}
  /\ regThread.in \in 0 .. NumFilters
  /\ lost \subseteq ProfileTypes

ProfileInit == reg = [p \in ProfileTypes |-> NoRows] /\ regThread = RegOff /\ lost = {}

------------------------------------------------------------------------------
(* Statements on the local connection.                                     *)

RegAt(pc) == regThread.pc = pc
Sees(p) == IF regThread.tx = "open" THEN regThread.draft ELSE reg[p]
RegGoto(pc) == [regThread EXCEPT !.pc = pc]

\* The transaction after a refused statement and after a lost connection.
AfterError(tx) == IF tx = "open" /\ ~Mysql THEN "aborted" ELSE tx
AfterLoss == IF Mysql THEN "gone" ELSE "none"

\* A refused statement, or a lost link: the thread goes on with what r says.
Refused(p, r) ==
  /\ FailOnly
  /\ \/ regThread' = [r EXCEPT !.tx = AfterError(@)] /\ UNCHANGED lost
     \/ regThread' = [r EXCEPT !.tx = AfterLoss] /\ lost' = lost \cup {p}
  /\ UNCHANGED reg

\* A session that takes no statement any more.
Failing == regThread.tx \in {"aborted", "gone"}

\* An insert that makes rows of the tables; next is the thread after it. In a
\* failing session, and for a second profile of a name, it is refused.
RegInsert(p, rows, next) ==
  \/ /\ regThread.tx = "open" /\ rows.profile < 2
     /\ regThread' = [next EXCEPT !.draft = rows]
     /\ NoFault /\ UNCHANGED <<reg, lost>>
  \/ /\ regThread.tx = "none" /\ rows.profile < 2
     /\ reg' = [reg EXCEPT ![p] = rows] /\ regThread' = next
     /\ NoFault /\ UNCHANGED lost
  \/ /\ Failing \/ rows.profile = 2
     /\ regThread' = [next EXCEPT !.tx = AfterError(@)]
     /\ NoFault /\ UNCHANGED <<reg, lost>>
  \/ Refused(p, next)

\* A select that yields n rows, none in a failing session or when it fails
\* itself; After(n) is the thread that has read them.
RegSelect(p, n, After(_)) ==
  \/ /\ regThread' = After(IF Failing THEN 0 ELSE n)
     /\ NoFault /\ UNCHANGED <<reg, lost>>
  \/ Refused(p, After(0))

\* A count, whose caller is told by db_select of a failed statement in MySQL and
\* of a lost connection in PostgreSQL, and then goes to the place told.
RegCount(p, n, After(_), told) ==
  \/ /\ regThread' = IF Mysql /\ Failing THEN told ELSE After(IF Failing THEN 0 ELSE n)
     /\ NoFault /\ UNCHANGED <<reg, lost>>
  \/ ~Mysql /\ Refused(p, After(0))
  \/ Refused(p, told)

------------------------------------------------------------------------------
(* cdr_cfg_profile_insert, statement by statement.                         *)

RegBeginNot(p) ==
  /\ RegAt("begin") /\ regThread' = RegGoto("profile")
  /\ NoFault /\ UNCHANGED <<reg, lost>>

\* A NoSQL store has no transaction, and takes every profile for known. BEGIN
\* fails only with the connection: PostgreSQL runs what follows outside a
\* transaction.
RegBegin(p) ==
  /\ RegAt("begin")
  /\ \/ /\ regThread' = IF Sql THEN [RegGoto("profile") EXCEPT !.tx = "open", !.draft = reg[p]]
                        ELSE RegGoto("commit")
        /\ NoFault /\ UNCHANGED <<reg, lost>>
     \/ /\ Sql /\ FailOnly
        /\ regThread' = [RegGoto("profile") EXCEPT !.tx = AfterLoss]
        /\ lost' = lost \cup {p} /\ UNCHANGED reg

\* cdr_cfg_get_cdr_profile_id.
GetCdrProfileId(p) ==
  /\ RegAt("profile") \/ RegAt("new_profile")
  /\ RegSelect(p, Sees(p).profile, LAMBDA n :
       [regThread EXCEPT !.pid = n, !.pc = IF RegAt("new_profile") THEN "insert_server"
                                           ELSE IF n = 0 THEN "insert_profile" ELSE "server"])

InsertProfile(p) ==
  /\ RegAt("insert_profile")
  /\ RegInsert(p, [Sees(p) EXCEPT !.profile = @ + 1], RegGoto("new_profile"))

\* cdr_cfg_get_cdr_server_id: exactly one row counts.
OneOnly(n) == IF n = 1 THEN 1 ELSE 0
GetCdrServerId(p) ==
  /\ RegAt("server") \/ RegAt("new_server")
  /\ RegSelect(p, Sees(p).servers, LAMBDA n :
       [regThread EXCEPT !.sid = OneOnly(n),
          !.pc = IF RegAt("server") /\ OneOnly(n) = 0 THEN "insert_server"
                 ELSE IF p = "db" /\ OneOnly(n) = 1 THEN "dbstorage" ELSE "filters"])

\* A server of profile 0 belongs to no profile. Two rows stand for any number:
\* none of them is found again, and every start adds one.
InsertServer(p) ==
  /\ RegAt("insert_server")
  /\ RegInsert(p, [Sees(p) EXCEPT !.servers = IF @ = 2 THEN 2 ELSE @ + regThread.pid], RegGoto("new_server"))

\* cdr_cfg_get_cdr_dbstorage.
GetCdrDbstorage(p) ==
  /\ RegAt("dbstorage")
  /\ RegCount(p, Sees(p).dbstorage,
       LAMBDA n : RegGoto(IF n = 0 THEN "insert_dbstorage" ELSE "filters"), RegGoto("filters"))

InsertDbstorage(p) ==
  /\ RegAt("insert_dbstorage")
  /\ RegInsert(p, [Sees(p) EXCEPT !.dbstorage = @ + 1], RegGoto("filters"))

\* cdr_cfg_get_cdr_profile_filters: only a profile without filters gets them.
GetCdrProfileFilters(p) ==
  /\ RegAt("filters")
  /\ IF regThread.pid = 0 \/ NumFilters = 0
     THEN regThread' = RegGoto("commit") /\ NoFault /\ UNCHANGED <<reg, lost>>
     ELSE RegCount(p, Sees(p).filters,
            LAMBDA n : [regThread EXCEPT !.in = 0, !.pc = IF n = 0 THEN "insert_filters" ELSE "commit"],
            RegGoto("commit"))

\* One row; an insert that reports a failure ends the loop, and db_mysql_query
\* reports one for every insert.
FilterDone == IF Mysql THEN RegGoto("commit") ELSE [regThread EXCEPT !.in = @ + 1]

InsertFilters(p) ==
  /\ RegAt("insert_filters")
  /\ IF regThread.in = NumFilters
     THEN regThread' = RegGoto("commit") /\ NoFault /\ UNCHANGED <<reg, lost>>
     ELSE \/ RegInsert(p, [Sees(p) EXCEPT !.filters = @ + 1], FilterDone)
          \/ Refused(p, RegGoto("commit"))

\* COMMIT of an aborted transaction rolls back, and so does the server when the
\* session is gone; one that fails may be lost before or after it took effect.
RegCommit(p) ==
  /\ RegAt("commit")
  /\ regThread' = RegOff
  /\ \/ reg' = [reg EXCEPT ![p] = IF regThread.tx = "open" THEN regThread.draft ELSE @] /\ NoFault
     \/ UNCHANGED reg /\ FailOnly
  /\ UNCHANGED lost

RegisterStep(p) ==
  \/ RegBegin(p) \/ GetCdrProfileId(p) \/ InsertProfile(p)
  \/ GetCdrServerId(p) \/ InsertServer(p)
  \/ GetCdrDbstorage(p) \/ InsertDbstorage(p)
  \/ GetCdrProfileFilters(p) \/ InsertFilters(p) \/ RegCommit(p)

Whole(p) ==
  [profile |-> 1, servers |-> 1, dbstorage |-> IF p = "db" THEN 1 ELSE 0, filters |-> NumFilters]

\* "Register it atomically so a failure can't leave a half-registered profile"
\* (cdr_cfg_profile_insert): the tables hold all rows of a profile, each once,
\* or none, whatever statement is refused, wherever the process dies and however
\* often the profile is started again; only a connection that is lost within the
\* transaction leaves it half-registered. This is for PostgreSQL: in MySQL the
\* transaction is committed after the first filter and after a refused insert.
RegisteredWhole == \A p \in ProfileTypes : p \in lost \/ reg[p] \in {NoRows, Whole(p)}
=============================================================================
