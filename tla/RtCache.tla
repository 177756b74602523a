------------------------------- MODULE RtCache -------------------------------
(***************************************************************************)
(* The process-wide reference cache of the Rating module (rt_cache.c) and  *)
(* the lookups through it (rt_data_q.c, rating.c, pcard.c): batch workers  *)
(* and call-control workers ask the cache, select on a miss and put what   *)
(* they found; the batch loop preloads accounts and cards. Entries live    *)
(* TTL seconds and are never removed. One rwlock guards all tables.        *)
(***************************************************************************)
EXTENDS Integers

CONSTANTS
  Workers,      \* rating threads and call-control workers
  Lookups,      \* what can be looked up: [kind, key, asker]; asker stands for
                \* what the select of an account depends on and its key leaves
                \* out: the CDR server, and the nadi of a trunk group
  Needs,        \* the lookups a system's CDRs may need and the faults
                \* that may hit them: [lookups, faults]
  Values,       \* contents of the reference tables
  None,         \* no rows
  TTL,          \* RT_CACHE_TTL
  Slow,         \* longest time between a select and the put of its rows
  MaxTime, MaxChanges

Kinds == {"rates", "tariff", "racc", "pcard", "tc", "fbs"}

Slot(l) == [kind |-> l.kind, key |-> l.key]

NoThread == "nobody"
Freed == "freed"

ASSUME CacheAssumption ==
  /\ {TTL, Slow, MaxTime, MaxChanges} \subseteq Nat
  /\ None \notin Values /\ Freed \notin Values \cup {None} /\ NoThread \notin Workers
  /\ \A l \in Lookups : l.kind \in Kinds
  /\ \A l, m \in Lookups : Slot(l) = Slot(m) /\ l.kind # "racc" => l = m
  /\ Needs \subseteq [lookups : SUBSET Lookups, faults : Nat]

NoEntry == [val |-> None, ts |-> -1]
PreIdle == [pc |-> "idle", todo |-> {}, need |-> {}, rows |-> [l \in Lookups |-> None],
            at |-> 0]

VARIABLES
  asked,        \* the lookups this system's CDRs need
  now,
  db,           \* [Lookups -> Values \cup {None}]: the tables of the database
  gone,         \* history: [Lookups -> [Values \cup {None} -> when last true]]
  cache,        \* [key, kind -> [val, ts]]
  readers, writer,   \* the rwlock
  th,           \* [Workers -> [pc, l, val, at: time of the select]]
  pre,          \* the preloader: [pc, todo, need, rows, at]
  changes,
  faults        \* failed selects and allocations still to come

vars == <<asked, now, db, gone, cache, readers, writer, th, pre, changes, faults>>

Answers == Values \cup {None}
Slots == {Slot(l) : l \in Lookups}
Pcs == {"idle", "get", "copy", "select", "put", "free", "store", "use"}
PrePcs == {"idle", "racc", "raccs", "pcard", "pcards"}
NoLookup == [kind |-> "none", key |-> 0, asker |-> 0]
Idle == [pc |-> "idle", l |-> NoLookup, val |-> None, at |-> 0]

TypeOK ==
  /\ asked \subseteq Lookups
  /\ now \in 0 .. MaxTime
  /\ db \in [Lookups -> Answers]
  /\ \A s \in Slots : cache[s].val \in Answers \cup {Freed} /\ cache[s].ts \in -1 .. now
  /\ readers \subseteq Workers
  /\ writer \in Workers \cup {NoThread}
  /\ \A t \in Workers : th[t].pc \in Pcs /\ th[t].val \in Answers \cup {Freed}
  /\ pre.pc \in PrePcs /\ pre.todo \subseteq Lookups /\ pre.need \subseteq Lookups

Init ==
  /\ \E n \in Needs : asked = n.lookups /\ faults = n.faults
  /\ now = 0
  /\ \E v \in Answers : db = [l \in Lookups |-> IF l \in asked THEN v ELSE None]
  /\ gone = [l \in Lookups |-> [v \in Answers |-> -1]]
  /\ cache = [s \in Slots |-> NoEntry]
  /\ readers = {} /\ writer = NoThread
  /\ th = [t \in Workers |-> Idle]
  /\ pre = PreIdle
  /\ changes = 0

Goto(t, pc) == th' = [th EXCEPT ![t].pc = pc]
Kind(t) == th[t].l.kind
Entry(l) == cache[Slot(l)]
FreshAtAnyAge(l) == Entry(l) # NoEntry
Fresh(l) == Entry(l) # NoEntry /\ now - Entry(l).ts <= TTL
DbUnchanged == UNCHANGED <<asked, now, db, changes>>
Worked(t) == DbUnchanged /\ UNCHANGED pre
Fault == faults > 0 /\ faults' = faults - 1

------------------------------------------------------------------------------
(* Get: copy a fresh entry under the read lock. *)

Ask(t) ==
  /\ th[t].pc = "idle"
  /\ \E l \in asked : th' = [th EXCEPT ![t] = [Idle EXCEPT !.pc = "get", !.l = l]]
  /\ Worked(t) /\ UNCHANGED <<gone, cache, readers, writer, faults>>

RdLockUnguarded(t) ==
  /\ th[t].pc = "get"
  /\ readers' = readers \cup {t}
  /\ Goto(t, "copy")
  /\ Worked(t) /\ UNCHANGED <<gone, cache, writer, faults>>

RdLock(t) ==
  /\ th[t].pc = "get"
  /\ writer = NoThread
  /\ readers' = readers \cup {t}
  /\ Goto(t, "copy")
  /\ Worked(t) /\ UNCHANGED <<gone, cache, writer, faults>>

Copy(t, kind) ==
  /\ th[t].pc = "copy" /\ Kind(t) = kind
  /\ readers' = readers \ {t}
  /\ th' = [th EXCEPT ![t] = IF Fresh(@.l)
                             THEN [@ EXCEPT !.pc = "use", !.val = Entry(th[t].l).val]
                             ELSE [@ EXCEPT !.pc = "select"]]
  /\ Worked(t) /\ UNCHANGED <<gone, cache, writer, faults>>

RatesGet(t) == Copy(t, "rates")
TariffGet(t) == Copy(t, "tariff")
RaccGet(t) == Copy(t, "racc")
PcardGet(t) == Copy(t, "pcard")
TcGet(t) == Copy(t, "tc")
FbsGet(t) == Copy(t, "fbs")

------------------------------------------------------------------------------
(* Select on a miss. A failed select is not told from an empty one. *)

FailedSelect(l) == Fault /\ gone' = [gone EXCEPT ![l][None] = now]

\* An empty answer is stored only by the kinds in "flags".
Query(t, kind, flag) ==
  /\ th[t].pc = "select" /\ Kind(t) = kind
  /\ \E v \in Answers :
       /\ \/ v = db[th[t].l] /\ UNCHANGED <<gone, faults>>
          \/ v = None /\ FailedSelect(th[t].l)
       /\ th' = [th EXCEPT ![t] = [@ EXCEPT !.pc = IF v = None /\ ~flag THEN "use" ELSE "put",
                                            !.val = v, !.at = now]]
  /\ Worked(t) /\ UNCHANGED <<cache, readers, writer>>

RateSql(t) == Query(t, "rates", FALSE)
TariffSql(t) == Query(t, "tariff", FALSE)
RaccSql(t) == Query(t, "racc", FALSE)
PcardSql(t) == Query(t, "pcard", FALSE)
TimeCondQueryId(t) == Query(t, "tc", TRUE)
FreeBillsecQuery(t) == Query(t, "fbs", TRUE)

------------------------------------------------------------------------------
(* Put: replace or add the entry under the write lock. Entries with an      *)
(* array free the old one first; the others are overwritten in place.       *)

WrLock(t) ==
  /\ th[t].pc = "put"
  /\ readers = {} /\ writer = NoThread
  /\ writer' = t
  /\ Goto(t, IF Kind(t) \in {"rates", "tariff", "pcard"} /\ Entry(th[t].l) # NoEntry
             THEN "free" ELSE "store")
  /\ Worked(t) /\ UNCHANGED <<gone, cache, readers, faults>>

FreeOld(t) ==
  /\ th[t].pc = "free"
  /\ cache' = [cache EXCEPT ![Slot(th[t].l)].val = Freed]
  /\ Goto(t, "store")
  /\ Worked(t) /\ UNCHANGED <<gone, readers, writer, faults>>

Stamped(l, v) == cache' = [cache EXCEPT ![Slot(l)] = [val |-> v, ts |-> now]]

\* The entry gets the rows and the time of the put; a new entry may lack memory.
Store(t, kind) ==
  /\ th[t].pc = "store" /\ Kind(t) = kind
  /\ \/ Stamped(th[t].l, th[t].val) /\ UNCHANGED faults
     \/ Entry(th[t].l) = NoEntry /\ Fault /\ UNCHANGED cache
  /\ writer' = NoThread
  /\ th' = [th EXCEPT ![t].pc = "use", ![t].at = 0]
  /\ Worked(t) /\ UNCHANGED <<gone, readers>>

RatesPut(t) == Store(t, "rates")
TariffPut(t) == Store(t, "tariff")
RaccPut(t) == Store(t, "racc")
PcardPut(t) == Store(t, "pcard")
TcPut(t) == Store(t, "tc")
FbsPut(t) == Store(t, "fbs")

\* The rating goes on with its own copy.
Use(t) ==
  /\ th[t].pc = "use"
  /\ th' = [th EXCEPT ![t] = Idle]
  /\ Worked(t) /\ UNCHANGED <<gone, cache, readers, writer, faults>>

Worker(t) ==
  \/ RdLock(t)
  \/ RatesGet(t) \/ TariffGet(t) \/ RaccGet(t) \/ PcardGet(t) \/ TcGet(t) \/ FbsGet(t)
  \/ RateSql(t) \/ TariffSql(t) \/ RaccSql(t) \/ PcardSql(t)
  \/ TimeCondQueryId(t) \/ FreeBillsecQuery(t)
  \/ WrLock(t) \/ FreeOld(t)
  \/ RatesPut(t) \/ TariffPut(t) \/ RaccPut(t) \/ PcardPut(t) \/ TcPut(t) \/ FbsPut(t)
  \/ Use(t)

------------------------------------------------------------------------------
(* The preload of the batch loop: accounts that are not fresh in one select, *)
(* then the cards of all cached accounts, which are walked without the lock. *)

OfKind(kind) == {l \in asked : l.kind = kind}
\* The numbers of a batch, all asked for with the CDR server of its first CDR.
Batch(first) == {l \in Lookups : /\ l.kind = "racc" /\ l.asker = first.asker
                                /\ \E m \in OfKind("racc") : m.key = l.key}
PreOnly == DbUnchanged /\ UNCHANGED <<readers, writer, th>>

PreloadStart ==
  /\ pre.pc = "idle"
  /\ \E first \in OfKind("racc") :
       pre' = [pre EXCEPT !.pc = "racc", !.todo = Batch(first), !.need = {}]
  /\ PreOnly /\ UNCHANGED <<gone, cache, faults>>

\* rt_cache_racc_get of one number of the batch.
PreloadSeen(l) ==
  /\ pre.pc = "racc" /\ l \in pre.todo
  /\ writer = NoThread
  /\ pre' = [pre EXCEPT !.todo = @ \ {l}, !.need = IF Fresh(l) THEN @ ELSE @ \cup {l}]
  /\ PreOnly /\ UNCHANGED <<gone, cache, faults>>

\* The select for all collected keys; a failure leaves nothing to put.
PreloadSelect(pc, next) ==
  /\ pre.pc = pc /\ pre.todo = {}
  /\ pre.need # {}
  /\ \/ /\ pre' = [pre EXCEPT !.pc = next, !.at = now,
                             !.rows = [l \in Lookups |-> IF l \in pre.need THEN db[l] ELSE @[l]],
                             !.need = {l \in @ : db[l] # None}]
        /\ UNCHANGED faults
     \/ /\ pre' = [pre EXCEPT !.pc = next, !.need = {}]
        /\ Fault
  /\ PreOnly /\ UNCHANGED <<gone, cache>>

PreloadPut(l) ==
  /\ pre.pc \in {"raccs", "pcards"} /\ l \in pre.need
  /\ readers = {} /\ writer = NoThread
  /\ Stamped(l, pre.rows[l])
  /\ pre' = [pre EXCEPT !.need = @ \ {l}]
  /\ PreOnly /\ UNCHANGED <<gone, faults>>

CachedAccounts == \E s \in Slots : s.kind = "racc" /\ cache[s] # NoEntry

\* The accounts are done; walk the account table for the keys of the cards.
PreloadWalk ==
  /\ \/ pre.pc = "raccs" /\ pre.need = {}
     \/ pre.pc = "racc" /\ pre.todo = {} /\ pre.need = {}
  /\ pre' = [PreIdle EXCEPT !.pc = "pcard",
                           !.need = IF CachedAccounts THEN OfKind("pcard") ELSE {}]
  /\ PreOnly /\ UNCHANGED <<gone, cache, faults>>

PreloadEnd ==
  /\ pre.pc \in {"pcard", "pcards"} /\ pre.need = {}
  /\ pre' = PreIdle
  /\ PreOnly /\ UNCHANGED <<gone, cache, faults>>

Preload ==
  \/ \E l \in Lookups : PreloadSeen(l) \/ PreloadPut(l)
  \/ PreloadSelect("racc", "raccs") \/ PreloadSelect("pcard", "pcards")
  \/ PreloadWalk \/ PreloadEnd

------------------------------------------------------------------------------
(* An administrator changes a table, or the prerating blocks a card (which  *)
(* does not touch the cache); time passes.                                  *)

Change(l) ==
  /\ changes < MaxChanges
  /\ l \in asked
  /\ \E v \in Answers \ {db[l]} : db' = [db EXCEPT ![l] = v]
  /\ gone' = [gone EXCEPT ![l][db[l]] = now]
  /\ changes' = changes + 1
  /\ UNCHANGED <<asked, now, cache, readers, writer, th, pre, faults>>

\* A put follows its select within Slow, and a copy is used at once.
InTime(pc, at) == pc \in {"put", "free", "store", "raccs", "pcards"} => now - at < Slow

Tick ==
  /\ now < MaxTime
  /\ \A t \in Workers : th[t].pc # "use" /\ InTime(th[t].pc, th[t].at)
  /\ InTime(pre.pc, pre.at)
  /\ now' = now + 1
  /\ UNCHANGED <<asked, db, gone, cache, readers, writer, th, pre, changes, faults>>

Next ==
  \/ \E t \in Workers : Ask(t) \/ Worker(t)
  \/ PreloadStart \/ Preload
  \/ \E l \in Lookups : Change(l)
  \/ Tick

Spec == Init /\ [][Next]_vars

------------------------------------------------------------------------------
\* The content of the database for lookup l, now or at most TTL + Slow ago;
\* for an empty answer a failed select counts as content.
Recent(l, v) == v = db[l] \/ (v \in Answers /\ gone[l][v] >= now - (TTL + Slow))
\* The lookups whose selects fill one entry.
Sharing(l) == {m \in Lookups : Slot(m) = Slot(l)}

\* What a rating uses was the content of the database at most TTL + Slow ago for
\* a select that fills the entry of its lookup, however gets, selects, puts and
\* preloads of the threads interleave (rt_cache_fresh, the put functions). All
\* entries but the accounts have one such select.
StaleBounded ==
  \A t \in Workers : th[t].pc = "use" => \E m \in Sharing(th[t].l) : Recent(m, th[t].val)

\* What a rating uses answers its own lookup. It fails for accounts: the key
\* "mode:number" (rt_data_q.c:674) leaves out the CDR server and the nadi that
\* the select takes (rt_data_q.c:696-713).
OwnRows == \A t \in Workers : th[t].pc = "use" => Recent(th[t].l, th[t].val)

\* No thread copies an array that another one has freed (the rwlock).
CopiesLive == \A t \in Workers : th[t].val # Freed
=============================================================================
