--------------------------- MODULE RtDuckdb_proofs ---------------------------
(***************************************************************************)
(* What the two transactions of rt_duckdb_rate_batch guarantee for any     *)
(* CDRs, accounts, legs, batch limits and numbers of faults. Committed     *)
(* tables change in the two commits only; the inductive invariant says,    *)
(* statement by statement, how the draft differs from what is committed.   *)
(***************************************************************************)
EXTENDS RtDuckdb, TLAPS

\* No connection is lost and replaced in the middle of a transaction.
NoReset == "reset" \notin Faults

\* k is the key of a CDR of S in the leg at hand.
IsIn(k, S) == k[1] \in S /\ k[2] = Legs[at]
\* All rating rows of a CDR exist where the leg says so, and none elsewhere.
Agree(s) == \A k \in Keys : s.rating[k] = IF s.leg[k] = Rated THEN Rows(k[1]) ELSE 0
\* A CDR is charged once at most, with its rows, and one within the free seconds never,
\* unless its rows came back from an insert that was not committed.
Paying(s) ==
  \A k \in Keys \ unsure : s.charged[k] > 0 =>
    s.charged[k] = 1 /\ k[1] \notin FreeCdrs /\ s.rating[k] >= Rows(k[1])

\* The CDRs of S are unrated.
Open(s, S) == \A k \in Keys : IsIn(k, S) => s.leg[k] = Unrated
\* The CDRs of S are rated and not charged yet, the unsure ones aside.
Rowed(s, S) == \A k \in Keys \ unsure : IsIn(k, S) => s.leg[k] = Rated /\ s.charged[k] = 0

\* The types.
IType ==
  /\ pg \in Stores /\ draft \in Stores /\ stored \subseteq Cdrs
  /\ window \subseteq Cdrs /\ batch \subseteq window /\ rated \subseteq batch
  /\ at \in DOMAIN Legs

\* Once the window was rated, the batch is what the query knew the account of.
Known ==
  pc \in Pcs \ {"off", "window", "rate", "cycle", "ended"} => batch = {c \in window : Owner[c] \in seen}

\* Where no transaction is open.
Idle == {"off", "window", "rate", "begin", "begin2", "cycle", "ended"}
\* Where the window has been read and nothing written.
Reading == {"rate", "begin"}
\* The second transaction.
Rest == {"balance", "free", "mark", "commit2"}

\* Before the insert nothing is written.
AtInsert == tx = "open" /\ draft = pg /\ Open(pg, window) /\ rated = {}
\* Before the update of the legs the rows are in the transaction.
AtUpdate ==
  /\ tx = "open" /\ rated = batch /\ Open(pg, window)
  /\ draft.leg = pg.leg /\ draft.charged = pg.charged
  /\ \A k \in Keys : draft.rating[k] = IF draft.leg[k] = Rated \/ IsIn(k, batch) THEN Rows(k[1]) ELSE 0
\* Before the first commit rows and legs agree in the transaction, or it is aborted.
AtCommit ==
  /\ Open(pg, window)
  /\ \/ tx = "aborted" /\ rated \in {{}, batch}
     \/ /\ tx = "open" /\ rated = batch /\ Agree(draft) /\ draft.charged = pg.charged
        /\ \A k \in Keys : draft.leg[k] = IF IsIn(k, batch) THEN Rated ELSE pg.leg[k]
\* In the second transaction rows are there already, and only unrated legs change.
AtRest ==
  /\ tx \in {"open", "aborted"} /\ Agree(draft) /\ Paying(draft)
  /\ \A k \in Keys :
       /\ draft.rating[k] = pg.rating[k]
       /\ pg.leg[k] # Unrated => draft.leg[k] = pg.leg[k]
       /\ draft.leg[k] # pg.leg[k] => draft.leg[k] = Unmatched /\ IsIn(k, window \ batch)

\* The transactions of the batch.
TxInv ==
  /\ pc \in Idle => tx = "none"
  /\ pc \in Reading => Open(pg, window) /\ rated = {}
  /\ pc = "insert" => AtInsert
  /\ pc = "update" => AtUpdate
  /\ pc = "commit" => AtCommit
  /\ pc \in {"begin2", "balance"} => rated \in {{}, batch}
  /\ pc \in {"begin2", "balance"} => Rowed(pg, rated)
  /\ pc = "balance" => draft = pg /\ rated = batch
  /\ pc \in Rest => AtRest

\* The inductive invariant.
IInv == IType /\ pc \in Pcs /\ Known /\ TxInv /\ Agree(pg) /\ Paying(pg)

------------------------------------------------------------------------------
(* The statements, key by key *)

\* The keys of a set of CDRs in the leg at hand.
LEMMA InKeys == ASSUME at \in DOMAIN Legs, NEW S \in SUBSET Cdrs
                PROVE \A k \in Keys : k \in KeysOf(S) <=> IsIn(k, S)
BY DEF Keys, KeysOf, Key, IsIn, LegSet

\* A CDR has a rating row at least.
LEMMA RowsPositive == ASSUME NEW c PROVE Rows(c) \in Nat /\ Rows(c) > 0
BY DEF Rows

\* The insert adds the rating rows of every CDR of the batch and leaves the rest.
LEMMA InsertedIs ==
  ASSUME NEW s \in Stores, IType
  PROVE /\ Inserted(s) \in Stores /\ Inserted(s).leg = s.leg /\ Inserted(s).charged = s.charged
        /\ \A k \in Keys : Inserted(s).rating[k] = s.rating[k] + IF IsIn(k, batch) THEN Rows(k[1]) ELSE 0
<1>1. \A k \in Keys : k \in KeysOf(batch) <=> IsIn(k, batch)
  BY InKeys DEF IType
<1>2. [k \in Keys |-> s.rating[k] + IF k \in KeysOf(batch) THEN Rows(k[1]) ELSE 0] \in [Keys -> Nat]
  BY RowsPositive DEF Stores
<1> QED BY <1>1, <1>2 DEF Inserted, Stores

\* The update gives the CDRs of the batch their leg and leaves the rest.
LEMMA LeggedIs ==
  ASSUME NEW s \in Stores, IType
  PROVE /\ Legged(s) \in Stores /\ Legged(s).rating = s.rating /\ Legged(s).charged = s.charged
        /\ \A k \in Keys : Legged(s).leg[k] = IF IsIn(k, rated) THEN Rated ELSE s.leg[k]
<1>1. \A k \in Keys : k \in KeysOf(rated) <=> IsIn(k, rated)
  BY InKeys DEF IType
<1>2. [k \in Keys |-> IF k \in KeysOf(rated) THEN Rated ELSE s.leg[k]] \in [Keys -> {Unrated, Rated, Unmatched}]
  BY DEF Stores
<1> QED BY <1>1, <1>2 DEF Legged, Stores

\* The balances get the price of every paid CDR of the batch.
LEMMA ChargedIs ==
  ASSUME NEW s \in Stores, IType
  PROVE /\ Charged(s) \in Stores /\ Charged(s).rating = s.rating /\ Charged(s).leg = s.leg
        /\ \A k \in Keys : Charged(s).charged[k] =
             s.charged[k] + IF IsIn(k, batch) /\ k[1] \notin FreeCdrs THEN 1 ELSE 0
<1>1. \A k \in Keys : k \in Paid <=> IsIn(k, batch \ FreeCdrs)
  BY InKeys DEF IType, Paid
<1>2. [k \in Keys |-> s.charged[k] + IF k \in Paid THEN 1 ELSE 0] \in [Keys -> Nat]
  BY DEF Stores
<1> QED BY <1>1, <1>2 DEF Charged, Stores, IsIn

\* The recount of the free seconds touches neither rows, legs nor charges.
LEMMA CountedIs ==
  ASSUME NEW s \in Stores
  PROVE /\ Counted(s) \in Stores /\ Counted(s).rating = s.rating /\ Counted(s).leg = s.leg
        /\ Counted(s).charged = s.charged
<1>1. UNION {Recount(a) : a \in Recounted} \subseteq Keys
  BY DEF Recount
<1>2. {k \in s.free : Owner[k[1]] \notin Recounted} \subseteq Keys
  BY DEF Stores
<1> QED BY <1>1, <1>2 DEF Counted, Stores

\* The mark reaches unrated CDRs of the window outside the batch only.
LEMMA MarkedIs ==
  ASSUME NEW s \in Stores, IType
  PROVE /\ Marked(s) \in Stores /\ Marked(s).rating = s.rating /\ Marked(s).charged = s.charged
        /\ \A k \in Keys : Marked(s).leg[k] =
             IF IsIn(k, window \ batch) /\ s.leg[k] = Unrated THEN Unmatched ELSE s.leg[k]
<1>1. \A k \in Keys : k \in KeysOf(window \ batch) <=> IsIn(k, window \ batch)
  BY InKeys DEF IType
<1>2. [k \in Keys |-> IF k \in KeysOf(window \ batch) /\ s.leg[k] = Unrated THEN Unmatched ELSE s.leg[k]]
        \in [Keys -> {Unrated, Rated, Unmatched}]
  BY DEF Stores
<1> QED BY <1>1, <1>2 DEF Marked, Stores

------------------------------------------------------------------------------
(* One lemma per action *)

\* STEP 0: the window holds unrated CDRs.
LEMMA StepWindow == ASSUME NoReset, IInv, Window PROVE IInv'
<1>1. /\ window' \subseteq Waiting /\ window' \subseteq Cdrs
      /\ pc' = "rate" => at' = at
      /\ pc' \in {"rate", "window", "cycle"} /\ at' \in DOMAIN Legs
      /\ pg' = pg /\ draft' = draft /\ tx' = tx /\ batch' = {} /\ rated' = {}
  <2>1. window' \subseteq Waiting BY DEF Window, Lowest
  <2>2. Waiting \subseteq Cdrs BY DEF IInv, IType, Waiting
  <2>3. at' \in DOMAIN Legs /\ pc' \in {"rate", "window", "cycle"} /\ (pc' = "rate" => at' = at)
    BY DuckdbAssumption DEF Window, Return, Goto, IInv, IType
  <2> QED BY <2>1, <2>2, <2>3 DEF Window, Tables
<1>2. tx = "none" BY DEF IInv, TxInv, Idle, Window
<1>3. pc' = "rate" => Open(pg, window)'
  <2> SUFFICES ASSUME pc' = "rate", NEW k \in Keys, k[1] \in window', k[2] = Legs[at]
               PROVE pg.leg[k] = Unrated
    BY <1>1 DEF Open, IsIn
  <2>1. k = Key(k[1]) BY DEF Keys, Key
  <2> QED BY <1>1, <2>1 DEF Waiting
<1>4. IType' BY <1>1 DEF IInv, IType, Window, World
<1>5. Agree(pg)' /\ Paying(pg)' BY <1>1 DEF IInv, Agree, Paying, Window, World
<1> QED BY <1>1, <1>2, <1>3, <1>4, <1>5 DEF IInv, TxInv, Known, Idle, Reading, Rest, Pcs

\* A batch that fails before it writes leaves the tables alone.
LEMMA StepBatchFails == ASSUME NoReset, IInv, BatchFails PROVE IInv'
BY DEF BatchFails, Return, Tables, World, Unread, Pcs, IInv, TxInv, Known, Idle, Rest, Open, IsIn,
       IType, Paying, Agree

\* STEP 1: the batch holds the CDRs of the accounts seen.
LEMMA StepRate == ASSUME NoReset, IInv, Rate PROVE IInv'
<1>1. /\ pg' = pg /\ draft' = draft /\ tx' = tx /\ window' = window /\ rated' = rated /\ at' = at
      /\ batch' = {c \in window : Owner[c] \in seen'}
      /\ pc' \in {"begin", "begin2"}
  BY DEF Rate, Goto, Tables
<1>2. tx = "none" /\ Open(pg, window) /\ rated = {}
  BY DEF IInv, TxInv, Idle, Reading, Rate
<1>3. Open(pg, window)' /\ Rowed(pg, rated)'
  BY <1>1, <1>2 DEF Open, Rowed, IsIn
<1>4. IType' BY <1>1, <1>2 DEF IInv, IType, Rate, World
<1>5. Agree(pg)' /\ Paying(pg)' BY <1>1 DEF IInv, Agree, Paying, Rate, World
<1> QED BY <1>1, <1>2, <1>3, <1>4, <1>5 DEF IInv, TxInv, Known, Idle, Reading, Rest, Pcs

\* BEGIN of the first transaction: the draft is the committed state.
LEMMA StepBeginRating == ASSUME NoReset, IInv, BeginRating PROVE IInv'
BY DEF BeginRating, Begin, Goto, World, Batch, Pcs, IInv, TxInv, Known, AtInsert, Idle, Reading,
       Rest, Open, IsIn, IType, Paying, Agree

\* The insert: rows come first; a failure aborts the transaction.
LEMMA StepInsertRating == ASSUME NoReset, IInv, InsertRating PROVE IInv'
<1>1. AtInsert /\ IType BY DEF IInv, TxInv, InsertRating
<1>2. /\ pg' = pg /\ window' = window /\ batch' = batch /\ seen' = seen /\ at' = at
      /\ \/ /\ draft' = Inserted(draft) /\ tx' = "open" /\ rated' = batch /\ pc' = "update"
         \/ draft' = draft /\ tx' = "aborted" /\ rated' = rated /\ pc' = "commit"
  BY <1>1 DEF NoReset, InsertRating, AtInsert, Statement, Written, Failed, ReRun, Sees, Fault, Goto
<1>3. Open(pg, window)' BY <1>1, <1>2 DEF AtInsert, Open, IsIn
<1>4. ASSUME pc' = "update" PROVE AtUpdate'
  <2>1. draft' = Inserted(draft) BY <1>2, <1>4
  <2>2. /\ draft'.leg = pg.leg /\ draft'.charged = pg.charged
        /\ \A k \in Keys : draft'.rating[k] = pg.rating[k] + IF IsIn(k, batch) THEN Rows(k[1]) ELSE 0
    BY <1>1, <2>1, InsertedIs DEF IType, AtInsert
  <2>3. ASSUME NEW k \in Keys
        PROVE draft'.rating[k] = IF draft'.leg[k] = Rated \/ IsIn(k, batch) THEN Rows(k[1]) ELSE 0
    <3>1. pg.rating[k] = IF pg.leg[k] = Rated THEN Rows(k[1]) ELSE 0 BY DEF IInv, Agree
    <3>2. IsIn(k, batch) => pg.leg[k] = Unrated
      BY <1>1 DEF AtInsert, Open, IsIn, IType
    <3> QED BY <2>2, <3>1, <3>2, RowsPositive DEF Unrated, Rated
  <2> QED BY <1>2, <1>3, <1>4, <2>2, <2>3 DEF AtUpdate, IsIn
<1>5. ASSUME pc' = "commit" PROVE AtCommit'
  BY <1>1, <1>2, <1>3, <1>5 DEF AtCommit, AtInsert
<1>6. IType' BY <1>1, <1>2, InsertedIs DEF IType, InsertRating, World
<1>7. Agree(pg)' /\ Paying(pg)' BY <1>2 DEF IInv, Agree, Paying, InsertRating, World
<1>8. Known' BY <1>2 DEF IInv, Known, Pcs, InsertRating
<1> QED BY <1>2, <1>4, <1>5, <1>6, <1>7, <1>8 DEF IInv, TxInv, Idle, Reading, Rest, Pcs

\* The update of the legs makes rows and legs agree again in the draft.
LEMMA StepUpdateLeg == ASSUME NoReset, IInv, UpdateLeg PROVE IInv'
<1>1. AtUpdate /\ IType BY DEF IInv, TxInv, UpdateLeg
<1>2. /\ pg' = pg /\ window' = window /\ batch' = batch /\ seen' = seen /\ at' = at
      /\ rated' = rated /\ pc' = "commit"
      /\ \/ draft' = Legged(draft) /\ tx' = "open"
         \/ draft' = draft /\ tx' = "aborted"
  BY <1>1 DEF NoReset, UpdateLeg, AtUpdate, Statement, Written, Failed, ReRun, Sees, Fault, Goto, Batch
<1>3. Open(pg, window)' BY <1>1, <1>2 DEF AtUpdate, Open, IsIn
<1>4. ASSUME tx' = "open"
      PROVE /\ Agree(draft)' /\ draft'.charged = pg.charged
            /\ \A k \in Keys : draft'.leg[k] = IF IsIn(k, batch) THEN Rated ELSE pg.leg[k]
  <2>1. draft' = Legged(draft) BY <1>2, <1>4
  <2>2. /\ draft'.rating = draft.rating /\ draft'.charged = draft.charged
        /\ \A k \in Keys : draft'.leg[k] = IF IsIn(k, batch) THEN Rated ELSE draft.leg[k]
    BY <1>1, <2>1, LeggedIs DEF AtUpdate, IType
  <2> QED BY <1>1, <2>2 DEF AtUpdate, Agree
<1>5. AtCommit' BY <1>1, <1>2, <1>3, <1>4 DEF AtCommit, AtUpdate, IsIn
<1>6. IType' BY <1>1, <1>2, LeggedIs DEF IType, UpdateLeg, World
<1>7. Agree(pg)' /\ Paying(pg)' BY <1>2 DEF IInv, Agree, Paying, UpdateLeg, World
<1>8. Known' BY <1>2 DEF IInv, Known, Pcs, UpdateLeg
<1> QED BY <1>2, <1>5, <1>6, <1>7, <1>8 DEF IInv, TxInv, Idle, Reading, Rest, Pcs

\* COMMIT: rows and legs become visible together, and none of them is charged.
LEMMA StepCommitRating == ASSUME NoReset, IInv, CommitRating PROVE IInv'
<1>1. AtCommit /\ IType BY DEF IInv, TxInv, CommitRating
<1>2. /\ window' = window /\ batch' = batch /\ seen' = seen /\ at' = at
      /\ rated' = rated /\ pc' = "begin2" /\ tx' = "none" /\ draft' = draft
      /\ \/ pg' = draft /\ tx = "open"
         \/ pg' = pg
      /\ unsure \subseteq unsure' /\ \A k \in KeysOf(rated) : pg'.leg[k] = Rated \/ k \in unsure'
  BY <1>1 DEF NoReset, CommitRating, AtCommit, Commit, CommitAll, Rollback, Sees, Fault, Goto, Batch
<1>3. Agree(pg)'
  BY <1>1, <1>2 DEF AtCommit, Agree, IInv
<1>4. rated \in {{}, batch} /\ \A k \in Keys : k \in KeysOf(rated) <=> IsIn(k, rated)
  BY <1>1, InKeys DEF AtCommit, IType
<1>5. Paying(pg)' /\ Rowed(pg, rated)'
  <2>1. CASE pg' = pg
    <3>1. Paying(pg)' BY <1>2, <2>1 DEF Paying, IInv
    <3>2. ASSUME NEW k \in Keys, IsIn(k, rated) PROVE k \in unsure'
      <4>1. pg'.leg[k] = Unrated BY <1>1, <1>4, <2>1, <3>2 DEF AtCommit, Open, IsIn, IType
      <4> QED BY <1>2, <1>4, <3>2, <4>1 DEF Unrated, Rated
    <3> QED BY <1>2, <3>1, <3>2 DEF Rowed, IsIn
  <2>2. CASE pg' = draft /\ tx = "open"
    <3>1. ASSUME NEW k \in Keys
          PROVE /\ pg'.charged[k] = pg.charged[k] /\ pg'.rating[k] >= pg.rating[k]
                /\ k \notin unsure /\ IsIn(k, batch) => pg'.leg[k] = Rated /\ pg.charged[k] = 0
      <4>1. pg'.charged[k] = pg.charged[k] /\ pg.charged[k] \in Nat
        BY <1>1, <2>2 DEF AtCommit, IType, Stores
      <4>2. pg'.rating[k] = IF pg'.leg[k] = Rated THEN Rows(k[1]) ELSE 0 BY <1>3 DEF Agree
      <4>3. pg.rating[k] = IF pg.leg[k] = Rated THEN Rows(k[1]) ELSE 0 BY DEF IInv, Agree
      <4>4. pg'.leg[k] = IF IsIn(k, batch) THEN Rated ELSE pg.leg[k]
        BY <1>1, <2>2 DEF AtCommit
      <4>5. IsIn(k, batch) => pg.leg[k] = Unrated
        BY <1>1 DEF AtCommit, Open, IsIn, IType
      <4>6. k \notin unsure /\ pg.charged[k] > 0 => pg.rating[k] >= Rows(k[1])
        BY DEF IInv, Paying
      <4> QED BY <4>1, <4>2, <4>3, <4>4, <4>5, <4>6, RowsPositive DEF Rated, Unrated
    <3>2. \A k \in Keys \ unsure : pg.charged[k] > 0 =>
            pg.charged[k] = 1 /\ k[1] \notin FreeCdrs /\ pg.rating[k] >= Rows(k[1])
      BY DEF IInv, Paying
    <3>3. \A k \in Keys : pg'.rating[k] \in Nat /\ pg.rating[k] \in Nat /\ Rows(k[1]) \in Nat
      BY <1>1, <1>2, <2>2, RowsPositive DEF IType, Stores
    <3>4. rated = batch BY <1>1, <2>2 DEF AtCommit
    <3>5. Paying(pg)' BY <1>2, <3>1, <3>2, <3>3 DEF Paying, Rows
    <3> QED BY <1>2, <3>1, <3>4, <3>5 DEF Rowed, IsIn
  <2> QED BY <1>2, <2>1, <2>2
<1>6. IType' BY <1>1, <1>2 DEF IType, CommitRating, World
<1>7. Known' BY <1>2 DEF IInv, Known, Pcs, CommitRating
<1>8. rated' \in {{}, batch'} BY <1>1, <1>2 DEF AtCommit
<1> QED BY <1>2, <1>3, <1>5, <1>6, <1>7, <1>8 DEF IInv, TxInv, Idle, Reading, Rest, Pcs

\* BEGIN of the second transaction.
LEMMA StepBeginRest == ASSUME NoReset, IInv, BeginRest PROVE IInv'
BY DEF BeginRest, Begin, Goto, World, Batch, Pcs, IInv, TxInv, Known, AtRest, Idle, Reading,
       Rowed, IsIn, IType, Paying, Agree

\* STEP 2.5: only rows that were not charged are charged.
LEMMA StepBalance == ASSUME NoReset, IInv, Balance PROVE IInv'
<1>1. AtRest /\ IType BY DEF IInv, TxInv, Rest, Balance
<1>2. /\ pg' = pg /\ window' = window /\ batch' = batch /\ seen' = seen /\ at' = at
      /\ rated' = rated /\ pc' = "free" /\ tx' \in {"open", "aborted"}
      /\ draft' = Charged(draft) \/ draft' = draft
  BY <1>1 DEF NoReset, Balance, AtRest, Statement, Written, Failed, ReRun, Sees, Fault, Goto, Batch, Tables
<1>3. /\ draft'.leg = draft.leg /\ draft'.rating = draft.rating /\ Agree(draft)'
  BY <1>1, <1>2, ChargedIs DEF IType, Agree, AtRest
<1>4. Paying(draft)'
  <2>1. draft = pg /\ rated = batch /\ Rowed(pg, batch)
    BY DEF IInv, TxInv, Balance
  <2>2. ASSUME NEW k \in Keys \ unsure, draft'.charged[k] > 0
        PROVE draft'.charged[k] = 1 /\ k[1] \notin FreeCdrs /\ draft'.rating[k] >= Rows(k[1])
    <3>1. draft.charged[k] \in Nat /\ draft.rating[k] \in Nat BY <1>1 DEF IType, Stores
    <3>2. draft.charged[k] > 0 =>
            draft.charged[k] = 1 /\ k[1] \notin FreeCdrs /\ draft.rating[k] >= Rows(k[1])
      BY <1>1 DEF AtRest, Paying
    <3>3. draft'.charged[k] =
            draft.charged[k] + (IF IsIn(k, batch) /\ k[1] \notin FreeCdrs THEN 1 ELSE 0)
          \/ draft'.charged[k] = draft.charged[k]
      BY <1>1, <1>2, ChargedIs DEF IType
    <3>4. IsIn(k, batch) => draft.charged[k] = 0 /\ draft.rating[k] = Rows(k[1])
      BY <1>1, <2>1 DEF Rowed, AtRest, Agree
    <3> QED BY <1>3, <2>2, <3>1, <3>2, <3>3, <3>4, RowsPositive
  <2>3. unsure' = unsure BY DEF Balance, World
  <2> QED BY <2>2, <2>3 DEF Paying, Rows
<1>5. AtRest' BY <1>1, <1>2, <1>3, <1>4 DEF AtRest, IsIn
<1>6. IType' BY <1>1, <1>2, ChargedIs DEF IType, Balance, World
<1>7. Agree(pg)' /\ Paying(pg)' BY <1>2 DEF IInv, Agree, Paying, Balance, World
<1>8. Known' BY <1>2 DEF IInv, Known, Pcs, Balance
<1> QED BY <1>2, <1>5, <1>6, <1>7, <1>8 DEF IInv, TxInv, Idle, Reading, Rest, Pcs

\* STEP 2.6: the recount of the free seconds.
LEMMA StepFreeBalance == ASSUME NoReset, IInv, FreeBalance PROVE IInv'
<1>1. AtRest /\ IType BY DEF IInv, TxInv, Rest, FreeBalance
<1>2. /\ pg' = pg /\ window' = window /\ batch' = batch /\ seen' = seen /\ at' = at
      /\ rated' = rated /\ pc' = "mark" /\ tx' \in {"open", "aborted"}
      /\ draft' = Counted(draft) \/ draft' = draft
  BY <1>1 DEF NoReset, FreeBalance, AtRest, Statement, Written, Failed, ReRun, Sees, Fault, Goto, Batch, Tables
<1>3. /\ draft'.leg = draft.leg /\ draft'.rating = draft.rating /\ draft'.charged = draft.charged
  BY <1>1, <1>2, CountedIs DEF IType
<1>4. Agree(draft)' /\ Paying(draft)' BY <1>1, <1>3 DEF AtRest, Agree, Paying, FreeBalance, World
<1>5. AtRest' BY <1>1, <1>2, <1>3, <1>4 DEF AtRest, IsIn
<1>6. IType' BY <1>1, <1>2, CountedIs DEF IType, FreeBalance, World
<1>7. Agree(pg)' /\ Paying(pg)' BY <1>2 DEF IInv, Agree, Paying, FreeBalance, World
<1>8. Known' BY <1>2 DEF IInv, Known, Pcs, FreeBalance
<1> QED BY <1>2, <1>5, <1>6, <1>7, <1>8 DEF IInv, TxInv, Idle, Reading, Rest, Pcs

\* STEP 3: only unrated CDRs outside the batch are marked.
LEMMA StepMark == ASSUME NoReset, IInv, Mark PROVE IInv'
<1>1. AtRest /\ IType BY DEF IInv, TxInv, Rest, Mark
<1>2. /\ pg' = pg /\ window' = window /\ batch' = batch /\ seen' = seen /\ at' = at
      /\ rated' = rated /\ pc' = "commit2" /\ tx' \in {"open", "aborted"}
      /\ draft' = Marked(draft) \/ draft' = draft
  BY <1>1 DEF NoReset, Mark, AtRest, Statement, Written, Failed, ReRun, Sees, Fault, Goto, Batch, Tables
<1>3. /\ draft'.rating = draft.rating /\ draft'.charged = draft.charged
      /\ \A k \in Keys : \/ draft'.leg[k] = draft.leg[k]
                         \/ /\ draft.leg[k] = Unrated /\ draft'.leg[k] = Unmatched
                            /\ IsIn(k, window \ batch)
  BY <1>1, <1>2, MarkedIs DEF IType
<1>4. Agree(draft)' /\ Paying(draft)'
  BY <1>1, <1>3 DEF AtRest, Agree, Paying, Mark, World, Rated, Unrated, Unmatched
<1>5. AtRest' BY <1>1, <1>2, <1>3, <1>4 DEF AtRest, IsIn
<1>6. IType' BY <1>1, <1>2, MarkedIs DEF IType, Mark, World
<1>7. Agree(pg)' /\ Paying(pg)' BY <1>2 DEF IInv, Agree, Paying, Mark, World
<1>8. Known' BY <1>2 DEF IInv, Known, Pcs, Mark
<1> QED BY <1>2, <1>5, <1>6, <1>7, <1>8 DEF IInv, TxInv, Idle, Reading, Rest, Pcs

\* COMMIT of charges, free seconds and marks.
LEMMA StepCommitRest == ASSUME NoReset, IInv, CommitRest PROVE IInv'
BY DEF CommitRest, Commit, CommitAll, Rollback, Sees, Return, World, Batch, Pcs, IInv, TxInv,
       Known, AtRest, Reading, Rest, IType, Paying, Agree

\* The start of the engine.
LEMMA StepStart == ASSUME NoReset, IInv, Start PROVE IInv'
BY DuckdbAssumption DEF Start, NewCycle, World, Batch, Tables, Pcs, IInv, TxInv, Known, Idle,
       Reading, Rest, IType, Paying, Agree

\* The next cycle.
LEMMA StepCycle == ASSUME NoReset, IInv, Cycle PROVE IInv'
BY DuckdbAssumption DEF Cycle, NewCycle, World, Batch, Tables, Pcs, IInv, TxInv, Known, Idle,
       Reading, Rest, IType, Paying, Agree

\* The end of a run in the foreground.
LEMMA StepStop == ASSUME NoReset, IInv, Stop PROVE IInv'
BY DEF Stop, World, Batch, Pcs, IInv, TxInv, Known, Reading, Rest, IType, Paying, Agree

\* The process dies: the draft is lost.
LEMMA StepCrash == ASSUME NoReset, IInv, Crash PROVE IInv'
BY DuckdbAssumption DEF Crash, World, Pcs, IInv, TxInv, Known, Rest, Open, IsIn, IType, Paying, Agree

\* The mediator stores a CDR.
LEMMA StepNewCdr == ASSUME NoReset, IInv, NewCdr PROVE IInv'
BY DEF NewCdr, Tables, rater, Pcs, Unmatched, IInv, TxInv, Known, AtInsert, AtUpdate, AtCommit,
       AtRest, Open, Rowed, IsIn, IType, Paying, Agree

\* The administrator adds an account.
LEMMA StepNewAccount == ASSUME NoReset, IInv, NewAccount PROVE IInv'
BY DEF NewAccount, Tables, rater, IInv, TxInv, Known, AtInsert, AtUpdate, AtCommit, AtRest, Open,
       Rowed, IsIn, IType, Paying, Agree

------------------------------------------------------------------------------
(* The theorems *)

\* The inductive invariant holds while nothing was rated and is kept by every
\* step of the engine, the mediator, the administrator and a crash.
LEMMA IInvInductive ==
  ASSUME NoReset
  PROVE (Init => IInv) /\ (IInv /\ [Next]_vars => IInv')
<1>1. Init => IInv
  <2> SUFFICES ASSUME Init PROVE IInv OBVIOUS
  <2>1. pg \in Stores /\ draft = pg BY DEF Init, Stores, Unrated
  <2>2. 1 \in DOMAIN Legs BY DuckdbAssumption
  <2>3. IType BY <2>1, <2>2 DEF Init, IType
  <2>4. Agree(pg) /\ Paying(pg) BY DEF Init, Agree, Paying, Unrated, Rated
  <2> QED BY <2>3, <2>4 DEF IInv, Init, Pcs, Known, TxInv, Idle, Reading, Rest
<1>2. IInv /\ Next => IInv'
  BY StepWindow, StepBatchFails, StepRate, StepBeginRating, StepInsertRating, StepUpdateLeg,
     StepCommitRating, StepBeginRest, StepBalance, StepFreeBalance, StepMark, StepCommitRest,
     StepStart, StepCycle, StepStop, StepCrash, StepNewCdr, StepNewAccount
     DEF Next, Engine, RateBatch
<1>3. IInv /\ UNCHANGED vars => IInv'
  BY DEF vars, rater, IInv, IType, Known, TxInv, AtInsert, AtUpdate, AtCommit, AtRest, Agree, Paying,
         Open, Rowed, IsIn
<1> QED BY <1>1, <1>2, <1>3

\* Without lost connections every behaviour satisfies the inductive invariant.
LEMMA IInvHolds == ASSUME NoReset PROVE Spec => []IInv
BY IInvInductive, PTL DEF Spec

\* The committed tables change in the two commits only, and become the draft.
LEMMA OnlyCommits ==
  ASSUME NoReset, IInv, [Next]_vars
  PROVE \/ pg' = pg
        \/ CommitRating /\ tx = "open" /\ pg' = draft
        \/ CommitRest /\ tx = "open" /\ pg' = draft
<1>1. CASE InsertRating \/ UpdateLeg \/ Balance \/ FreeBalance \/ Mark
  BY <1>1 DEF NoReset, IInv, TxInv, AtInsert, AtUpdate, AtRest, Rest, InsertRating, UpdateLeg, Balance,
              FreeBalance, Mark, Statement, Written, Failed, ReRun, Fault, Tables
<1>2. CASE CommitRating \/ CommitRest
  BY <1>2 DEF IInv, TxInv, AtCommit, AtRest, Rest, CommitRating, CommitRest, Commit, CommitAll, Rollback, Sees
<1>3. CASE Window \/ BatchFails \/ Rate \/ BeginRating \/ BeginRest \/ Start \/ Cycle \/ Stop
           \/ Crash \/ NewCdr \/ NewAccount \/ UNCHANGED vars
  BY <1>3 DEF Window, BatchFails, Rate, BeginRating, BeginRest, Begin, Start, Cycle, Stop, Crash,
              NewCdr, NewAccount, Tables, vars
<1> QED BY <1>1, <1>2, <1>3 DEF Next, Engine, RateBatch

\* What the two commits change: the first one rates CDRs of the window that
\* were unrated, the second one marks CDRs of the window outside the batch.
LEMMA CommitsDecide ==
  ASSUME NoReset, IInv, [Next]_vars, NEW k \in Keys
  PROVE /\ pg.leg[k] # Unrated => pg'.leg[k] = pg.leg[k] /\ pg'.rating[k] = pg.rating[k]
        /\ pg.leg[k] = Unrated /\ pg'.leg[k] = Unmatched => Owner[k[1]] \notin seen
<1>1. CASE pg' = pg
  BY <1>1 DEF Unrated, Unmatched
<1>2. CASE CommitRating /\ tx = "open" /\ pg' = draft
  <2>1. AtCommit /\ IType BY <1>2 DEF IInv, TxInv, CommitRating
  <2>2. pg'.leg[k] = IF IsIn(k, batch) THEN Rated ELSE pg.leg[k]
    BY <1>2, <2>1 DEF AtCommit
  <2>3. IsIn(k, batch) => pg.leg[k] = Unrated
    BY <2>1 DEF AtCommit, Open, IsIn, IType
  <2>4. pg'.rating[k] = IF pg'.leg[k] = Rated THEN Rows(k[1]) ELSE 0
    BY <1>2, <2>1 DEF AtCommit, Agree
  <2>5. pg.rating[k] = IF pg.leg[k] = Rated THEN Rows(k[1]) ELSE 0 BY DEF IInv, Agree
  <2> QED BY <2>2, <2>3, <2>4, <2>5 DEF Unrated, Rated, Unmatched
<1>3. CASE CommitRest /\ tx = "open" /\ pg' = draft
  <2>1. AtRest BY <1>3 DEF IInv, TxInv, Rest, CommitRest
  <2>2. batch = {c \in window : Owner[c] \in seen} BY <1>3 DEF IInv, Known, CommitRest, Pcs
  <2>3. draft.leg[k] # pg.leg[k] => k[1] \in window \ batch BY <2>1 DEF AtRest, IsIn
  <2>4. pg'.rating[k] = pg.rating[k] /\ (pg.leg[k] # Unrated => pg'.leg[k] = pg.leg[k])
    BY <1>3, <2>1 DEF AtRest
  <2>5. ASSUME pg.leg[k] = Unrated, pg'.leg[k] = Unmatched PROVE Owner[k[1]] \notin seen
    <3>1. draft.leg[k] # pg.leg[k] BY <1>3, <2>5 DEF Unrated, Unmatched
    <3> QED BY <2>2, <2>3, <3>1
  <2> QED BY <2>4, <2>5
<1> QED BY <1>1, <1>2, <1>3, OnlyCommits

\* The rating rows of a CDR, both of them for a boundary call, are committed together
\* and with its leg, or not at all: whatever
\* statements of rt_duckdb_rate_batch and whatever commits fail and wherever the
\* process dies, as long as no connection is lost inside a transaction.
THEOREM RatingsWithLegs == ASSUME NoReset PROVE Spec => []RatingWithLeg
<1>1. IInv => RatingWithLeg BY DEF IInv, Agree, RatingWithLeg
<1> QED BY <1>1, IInvHolds, PTL

\* No CDR is charged twice, without its rating rows or for free seconds, save those
\* (unsure) whose leg or whose first commit failed after the insert had returned rows.
THEOREM NeverOvercharged == ASSUME NoReset PROVE Spec => []NoOvercharge
<1>1. IInv => NoOvercharge BY DEF IInv, Paying, NoOvercharge
<1> QED BY <1>1, IInvHolds, PTL

\* A CDR that is rated or marked keeps its outcome in every later step of
\* rt_duckdb_rate_batch and RateEngine.
THEOREM OutcomesFinal == ASSUME NoReset PROVE Spec => OutcomeFinal
<1>1. IInv /\ [Next]_vars =>
        [\A k \in Keys : pg.leg[k] # Unrated =>
           pg'.leg[k] = pg.leg[k] /\ pg'.rating[k] = pg.rating[k]]_vars
  BY CommitsDecide
<1> QED BY <1>1, IInvHolds, PTL DEF Spec, OutcomeFinal

\* The mark of STEP 3 is never committed for a CDR whose account was known
\* to the query that rated the window, even when its rating row was not written.
THEOREM RateableNeverBuried == ASSUME NoReset PROVE Spec => NeverBuried
<1>1. IInv /\ [Next]_vars =>
        [\A k \in Keys : pg.leg[k] = Unrated /\ pg'.leg[k] = Unmatched => Owner[k[1]] \notin seen]_vars
  BY CommitsDecide
<1> QED BY <1>1, IInvHolds, PTL DEF Spec, NeverBuried
==============================================================================
