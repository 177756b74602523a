------------------------------ MODULE CdrStore ------------------------------
(***************************************************************************)
(* The CDR table of the local database as the mediator and the rater use   *)
(* it (CDRMediator/cdr.c). An SQL store is the table cdrs with its         *)
(* UNIQUE(call_uid). A NoSQL store is asked for the key of the CDR first,  *)
(* with a command "GET get <key>" that redis answers with an error text,   *)
(* and db_redis_get reports no error: every CDR counts as known.           *)
(***************************************************************************)
EXTENDS Naturals, FiniteSets

CONSTANTS
  Calls,       \* call_uids
  Stores,      \* kinds of local database to consider: "pgsql", "mysql", "nosql"
  MaxFaults    \* how many statements, system calls or lives of the process fail

ASSUME StoreAssumption == Stores \subseteq {"pgsql", "mysql", "nosql"} /\ MaxFaults \in Nat

VARIABLES
  store,       \* the configured database: dbp->t and, of the sql ones, its driver
  unrated,     \* CDRs with leg 0
  rated,       \* CDRs with a leg mark
  twice,       \* history: CDRs that were rated and then rated again
  failed,      \* history: CDRs with an insert that failed
  faults       \* failures so far

storeVars == <<store, unrated, rated, twice, failed, faults>>

StoreTypeOK ==
  /\ store \in Stores
  /\ {unrated, rated, twice, failed} \subseteq SUBSET Calls
  /\ faults \in 0 .. MaxFaults

StoreInit ==
  /\ store \in Stores
  /\ unrated = {} /\ rated = {} /\ twice = {} /\ failed = {} /\ faults = 0

Sql == store # "nosql"
Mysql == store = "mysql"
Stored == unrated \cup rated

Fault == faults < MaxFaults /\ faults' = faults + 1

KnownUnratedOnly(c) == c \in unrated

\* SQL: the conflict on call_uid. NoSQL: cdr_get_cdr_id always answers 1.
Known(c) == Sql => c \in Stored

\* cdr_add_in_db succeeds, or finds the call and leaves it alone.
AddInDb(c) ==
  /\ unrated' = IF Known(c) THEN unrated ELSE unrated \cup {c}
  /\ UNCHANGED <<store, rated, twice, failed, faults>>

\* The insert, or the NoSQL lookup before it, fails: the callers only count it.
AddInDbFails(c) ==
  /\ Fault
  /\ failed' = failed \cup {c}
  /\ UNCHANGED <<store, unrated, rated, twice>>

\* The rater is done with a CDR: the leg mark.
UpdateCdr(c) ==
  /\ c \in unrated
  /\ unrated' = unrated \ {c}
  /\ rated' = rated \cup {c}
  /\ twice' = IF c \in rated THEN twice \cup {c} ELSE twice
  /\ UNCHANGED <<store, failed, faults>>

\* A step that touches the store only by failing, and one that does not fail.
FailOnly == Fault /\ UNCHANGED <<store, unrated, rated, twice, failed>>
NoFault == UNCHANGED storeVars
=============================================================================
