--------------------------- MODULE CallTable_proofs ---------------------------
(***************************************************************************)
(* Proofs about CallTable for any number of slots, workers and requests.   *)
(* IInv is inductive; the safety properties the runs check follow from it. *)
(***************************************************************************)
EXTENDS CallTable, FiniteSetTheorems, TLAPS

-----------------------------------------------------------------------------
(* Facts about single states. *)

\* A subscriber's slots form a finite set.
LEMMA HeldFinite ==
  ASSUME NEW s
  PROVE  IsFiniteSet(Held(s)) /\ Cardinality(Held(s)) \in Nat
<1>1. IsFiniteSet(Slots)
  BY FS_Interval, TableAssumption DEF Slots
<1>2. Held(s) \subseteq Slots
  BY DEF Held
<1>3. QED
  BY <1>1, <1>2, FS_Subset, FS_CardinalityType

\* So do the workers with a pending grant, and there are at most all of them.
LEMMA InFlightFinite ==
  ASSUME NEW s
  PROVE  /\ IsFiniteSet(InFlight(s))
         /\ Cardinality(InFlight(s)) \in Nat
         /\ Cardinality(InFlight(s)) <= Cardinality(Workers)
<1>1. InFlight(s) \subseteq Workers
  BY DEF InFlight
<1>2. QED
  BY <1>1, WorkerAssumption, FS_Subset, FS_CardinalityType

\* There is at least one worker.
LEMMA SomeWorker == Cardinality(Workers) \in Nat \ {0}
  BY WorkerAssumption, FS_CardinalityType, FS_EmptySet

\* The request of a worker that serves a maxsec, or a term.
LEMMA WorkerRequest ==
  ASSUME IInv, NEW w \in Workers
  PROVE  /\ ServesMaxsec(w) => req[w] \in Maxsecs
         /\ ServesTerm(w) => req[w] \in Terms
         /\ pc[w] = "term" => seen[w] \in Slots
  BY DEF IInv, WorkerInv

\* The call the janitor is settling.
LEMMA JanitorCall ==
  ASSUME IInv, jpc # "scan"
  PROVE  /\ ji \in Slots
         /\ cc[ji] \in Maxsecs
         /\ rtp[ji] = cc[ji]
         /\ jpc # "clear" => term[cc[ji]] \in Terms
  BY TableAssumption DEF IInv, TypeOK, JanitorSlotStable, TableSound, Slots

-----------------------------------------------------------------------------
(* IInv is inductive: one lemma per conjunct, one step per action. *)

\* The initial state satisfies the invariant.
LEMMA InitInv == Init => IInv
<1> SUFFICES ASSUME Init PROVE IInv
  OBVIOUS
<1> USE TableAssumption, RequestAssumption, WorkerAssumption DEF Init
<1>1. TypeOK
  BY DEF TypeOK, Slots, HeapState, Code, WorkerPc, JanPc, Charge
<1>2. WorkerInv
  BY DEF WorkerInv, ServesMaxsec, ServesTerm
<1>3. TableSound /\ JanitorSlotStable
  BY DEF TableSound, JanitorSlotStable
<1>4. GrantInv
  BY DEF GrantInv, GrantedIsHeld
<1>5. LimitInv
  <2> SUFFICES ASSUME NEW s \in Subscribers
               PROVE  Cardinality(Held(s)) + Cardinality(InFlight(s))
                        <= CallNumber[s] + Cardinality(Workers) - 1
    BY DEF LimitInv
  <2>1. Held(s) = {} /\ InFlight(s) = {}
    BY DEF Held, InFlight
  <2>2. QED
    BY <2>1, SomeWorker, FS_EmptySet
<1>6. TermInv
  BY DEF TermInv, TermHeld, TermUnique, TermPending, TermRefused, TermOwn
<1>7. ChargeInv
  BY DEF ChargeInv, ChargeIsForOwnCall
<1>8. QED
  BY <1>1, <1>2, <1>3, <1>4, <1>5, <1>6, <1>7 DEF IInv

\* Every variable keeps its type.
LEMMA TypeStep == IInv /\ [Next]_vars => TypeOK'
<1> SUFFICES ASSUME IInv, [Next]_vars PROVE TypeOK'
  OBVIOUS
<1> USE TableAssumption, RequestAssumption
    DEF TypeOK, HeapState, Code, WorkerPc, JanPc,
        tblVars, memVars, workerVars, janVars, ratingVars
<1>t. TypeOK
  BY DEF IInv
<1>1. ASSUME NEW w \in Workers, NEW m \in Maxsecs, SearchRacc(w, m) PROVE TypeOK'
  BY <1>1, <1>t, HeldFinite DEF SearchRacc, Goto
<1>2. ASSUME NEW w \in Workers, NEW t \in Terms, SearchCallUid(w, t) PROVE TypeOK'
  <2>1. Slots \subseteq Int
    BY DEF Slots
  <2>2. QED
    BY <1>2, <1>t, <2>1 DEF SearchCallUid, Goto, Matches
<1>3. ASSUME NEW w \in Workers, RtMaxsec(w) PROVE TypeOK'
  <2>1. req[w] \in Maxsecs
    BY <1>3, WorkerRequest DEF RtMaxsec, Goto, ServesMaxsec
  <2>2. QED
    BY <1>3, <1>t, <2>1 DEF RtMaxsec, Goto
<1>4. ASSUME NEW w \in Workers, CallInit(w) PROVE TypeOK'
  <2>1. req[w] \in Maxsecs
    BY <1>4, WorkerRequest DEF CallInit, Goto, ServesMaxsec
  <2>2. QED
    BY <1>4, <1>t, <2>1 DEF CallInit, Goto, Free
<1>5. ASSUME NEW w \in Workers, MaxsecAck(w) PROVE TypeOK'
  <2>1. req[w] \in Maxsecs
    BY <1>5, WorkerRequest DEF MaxsecAck, Goto, ServesMaxsec
  <2>2. QED
    BY <1>5, <1>t, <2>1 DEF MaxsecAck, Goto
<1>6. ASSUME NEW w \in Workers, CallTerm(w) PROVE TypeOK'
  <2>1. req[w] \in Terms /\ seen[w] \in Slots
    BY <1>6, WorkerRequest DEF CallTerm, Goto, ServesTerm
  <2>2. QED
    BY <1>6, <1>t, <2>1 DEF CallTerm, Goto
<1>7. ASSUME NEW w \in Workers, TermAck(w) PROVE TypeOK'
  <2>1. req[w] \in Terms
    BY <1>7, WorkerRequest DEF TermAck, Goto, ServesTerm
  <2>2. QED
    BY <1>7, <1>t, <2>1 DEF TermAck, Goto
<1>8. CASE Visit
  BY <1>8, <1>t DEF Visit, NextSlot
<1>9. CASE ReadStatus \/ ReadBillsec
  BY <1>9, <1>t DEF ReadStatus, ReadBillsec
<1>10. CASE AddCdr
  <2>1. rtp[ji] \in Maxsecs /\ term[cc[ji]] \in Terms
    BY <1>10, JanitorCall DEF AddCdr
  <2>2. QED
    BY <1>10, <1>t, <2>1 DEF AddCdr, Contents
<1>11. CASE CallRating
  <2>1. rtp[ji] \in Maxsecs
    BY <1>11, JanitorCall DEF CallRating
  <2>2. QED
    BY <1>11, <1>t, <2>1 DEF CallRating, Charge
<1>12. CASE CallClear
  <2>1. ji \in Slots /\ cc[ji] \in Maxsecs
    BY <1>12, JanitorCall DEF CallClear
  <2>2. ji + 1 \in 0 .. SimCalls
    BY <2>1 DEF Slots
  <2>3. QED
    BY <1>12, <1>t, <2>1, <2>2 DEF CallClear, NextSlot
<1>13. CASE EndPass
  BY <1>13, <1>t DEF EndPass
<1>14. ASSUME NEW m \in Maxsecs, Expire(m) PROVE TypeOK'
  BY <1>14, <1>t DEF Expire
<1>15. CASE UNCHANGED vars
  BY <1>15, <1>t DEF vars
<1>16. QED
  BY <1>1, <1>2, <1>3, <1>4, <1>5, <1>6, <1>7, <1>8, <1>9, <1>10, <1>11, <1>12,
     <1>13, <1>14, <1>15 DEF Next, Worker, Janitor

\* Each request stays with the one worker that took it.
LEMMA WorkerStep == IInv /\ [Next]_vars => WorkerInv'
<1> SUFFICES ASSUME IInv, [Next]_vars PROVE WorkerInv'
  OBVIOUS
<1> USE TableAssumption
    DEF TypeOK, WorkerInv, ServesMaxsec, ServesTerm, HeapState, WorkerPc,
        tblVars, memVars, workerVars, janVars, ratingVars
<1>t. TypeOK /\ WorkerInv
  BY DEF IInv
<1>1. ASSUME NEW w \in Workers, NEW m \in Maxsecs, SearchRacc(w, m) PROVE WorkerInv'
  BY <1>1, <1>t DEF SearchRacc, Goto
<1>2. ASSUME NEW w \in Workers, NEW t \in Terms, SearchCallUid(w, t) PROVE WorkerInv'
  BY <1>2, <1>t DEF SearchCallUid, Goto, Matches
<1>3. ASSUME NEW w \in Workers, RtMaxsec(w) PROVE WorkerInv'
  BY <1>3, <1>t DEF RtMaxsec, Goto
<1>4. ASSUME NEW w \in Workers, CallInit(w) PROVE WorkerInv'
  BY <1>4, <1>t DEF CallInit, Goto
<1>5. ASSUME NEW w \in Workers, MaxsecAck(w) PROVE WorkerInv'
  BY <1>5, <1>t DEF MaxsecAck, Goto
<1>6. ASSUME NEW w \in Workers, CallTerm(w) PROVE WorkerInv'
  BY <1>6, <1>t DEF CallTerm, Goto
<1>7. ASSUME NEW w \in Workers, TermAck(w) PROVE WorkerInv'
  BY <1>7, <1>t DEF TermAck, Goto
<1>8. CASE Visit
  BY <1>8, <1>t DEF Visit
<1>9. CASE ReadStatus \/ ReadBillsec
  BY <1>9, <1>t DEF ReadStatus, ReadBillsec
<1>10. CASE AddCdr
  BY <1>10, <1>t DEF AddCdr
<1>11. CASE CallRating
  BY <1>11, <1>t DEF CallRating
<1>12. CASE CallClear
  BY <1>12, <1>t DEF CallClear
<1>13. CASE EndPass
  BY <1>13, <1>t DEF EndPass
<1>14. ASSUME NEW m \in Maxsecs, Expire(m) PROVE WorkerInv'
  BY <1>14, <1>t DEF Expire
<1>15. CASE UNCHANGED vars
  BY <1>15, <1>t DEF vars
<1>16. QED
  BY <1>1, <1>2, <1>3, <1>4, <1>5, <1>6, <1>7, <1>8, <1>9, <1>10, <1>11, <1>12,
     <1>13, <1>14, <1>15 DEF Next, Worker, Janitor

\* The table holds live, granted calls, each once.
LEMMA TableStep == IInv /\ [Next]_vars => TableSound'
<1> SUFFICES ASSUME IInv, [Next]_vars PROVE TableSound'
  OBVIOUS
<1> USE TableAssumption
    DEF TypeOK, TableSound, tblVars, memVars, workerVars, janVars, ratingVars
<1>t. TypeOK /\ TableSound
  BY DEF IInv
<1>1. ASSUME NEW w \in Workers, NEW m \in Maxsecs, SearchRacc(w, m) PROVE TableSound'
  BY <1>1, <1>t DEF SearchRacc
<1>2. ASSUME NEW w \in Workers, NEW t \in Terms, SearchCallUid(w, t) PROVE TableSound'
  BY <1>2, <1>t DEF SearchCallUid
<1>3. ASSUME NEW w \in Workers, RtMaxsec(w) PROVE TableSound'
  <2>1. req[w] \in Maxsecs /\ ~InTable(req[w])
    BY <1>3, WorkerRequest DEF RtMaxsec, Goto, ServesMaxsec, IInv, GrantInv
  <2>2. QED
    BY <1>3, <1>t, <2>1 DEF RtMaxsec, InTable
<1>4. ASSUME NEW w \in Workers, CallInit(w) PROVE TableSound'
  <2>1. /\ req[w] \in Maxsecs /\ ~InTable(req[w])
        /\ ccMem[req[w]] = "live" /\ maxsec[req[w]] = "granted"
    BY <1>4, WorkerRequest DEF CallInit, Goto, ServesMaxsec, IInv, GrantInv
  <2>2. QED
    BY <1>4, <1>t, <2>1 DEF CallInit, Free, InTable
<1>5. ASSUME NEW w \in Workers, MaxsecAck(w) PROVE TableSound'
  <2>1. req[w] \in Maxsecs
    BY <1>5, WorkerRequest DEF MaxsecAck, Goto, ServesMaxsec
  <2>2. InTable(req[w]) => UNCHANGED <<ccMem, maxsec>>
    BY <1>5, <1>t, <2>1 DEF MaxsecAck, Over, InTable
  <2>3. QED
    BY <1>5, <1>t, <2>1, <2>2 DEF MaxsecAck, InTable
<1>6. ASSUME NEW w \in Workers, CallTerm(w) PROVE TableSound'
  BY <1>6, <1>t DEF CallTerm
<1>7. ASSUME NEW w \in Workers, TermAck(w) PROVE TableSound'
  BY <1>7, <1>t DEF TermAck
<1>8. CASE Visit \/ ReadStatus \/ ReadBillsec \/ AddCdr \/ CallRating \/ EndPass
  BY <1>8, <1>t DEF Visit, ReadStatus, ReadBillsec, AddCdr, CallRating, EndPass
<1>9. CASE CallClear
  <2>1. ji \in Slots /\ cc[ji] \in Maxsecs
    BY <1>9, JanitorCall DEF CallClear
  <2>2. QED
    BY <1>9, <1>t, <2>1 DEF CallClear
<1>10. ASSUME NEW m \in Maxsecs, Expire(m) PROVE TableSound'
  BY <1>10, <1>t DEF Expire
<1>11. CASE UNCHANGED vars
  BY <1>11, <1>t DEF vars
<1>12. QED
  BY <1>1, <1>2, <1>3, <1>4, <1>5, <1>6, <1>7, <1>8, <1>9, <1>10, <1>11
     DEF Next, Worker, Janitor

\* No other thread takes away the call the janitor settles, or its term.
LEMMA JanitorStep == IInv /\ [Next]_vars => JanitorSlotStable'
<1> SUFFICES ASSUME IInv, [Next]_vars PROVE JanitorSlotStable'
  OBVIOUS
<1> USE TableAssumption
    DEF TypeOK, JanitorSlotStable, JanPc, tblVars, memVars, workerVars, janVars, ratingVars
<1>t. TypeOK /\ JanitorSlotStable
  BY DEF IInv
<1>j. jpc # "scan" => ji \in Slots
  BY JanitorCall
<1>1. ASSUME NEW w \in Workers, NEW m \in Maxsecs, SearchRacc(w, m) PROVE JanitorSlotStable'
  BY <1>1, <1>t DEF SearchRacc
<1>2. ASSUME NEW w \in Workers, NEW t \in Terms, SearchCallUid(w, t) PROVE JanitorSlotStable'
  BY <1>2, <1>t, <1>j DEF SearchCallUid, Matches
<1>3. ASSUME NEW w \in Workers, RtMaxsec(w) PROVE JanitorSlotStable'
  BY <1>3, <1>t DEF RtMaxsec
<1>4. ASSUME NEW w \in Workers, CallInit(w) PROVE JanitorSlotStable'
  BY <1>4, <1>t, <1>j DEF CallInit, Free
<1>5. ASSUME NEW w \in Workers, MaxsecAck(w) PROVE JanitorSlotStable'
  BY <1>5, <1>t DEF MaxsecAck
<1>6. ASSUME NEW w \in Workers, CallTerm(w) PROVE JanitorSlotStable'
  <2>1. req[w] \in Terms /\ seen[w] \in Slots
    BY <1>6, WorkerRequest DEF CallTerm, Goto, ServesTerm
  <2>2. QED
    BY <1>6, <1>t, <1>j, <2>1 DEF CallTerm
<1>7. ASSUME NEW w \in Workers, TermAck(w) PROVE JanitorSlotStable'
  BY <1>7, <1>t DEF TermAck
<1>8. CASE Visit
  BY <1>8, <1>t DEF Visit, NextSlot
<1>9. CASE ReadStatus \/ ReadBillsec \/ AddCdr \/ CallRating \/ EndPass
  BY <1>9, <1>t DEF ReadStatus, ReadBillsec, AddCdr, CallRating, EndPass
<1>10. CASE CallClear
  BY <1>10 DEF CallClear, NextSlot
<1>11. ASSUME NEW m \in Maxsecs, Expire(m) PROVE JanitorSlotStable'
  BY <1>11, <1>t DEF Expire
<1>12. CASE UNCHANGED vars
  BY <1>12, <1>t DEF vars
<1>13. QED
  BY <1>1, <1>2, <1>3, <1>4, <1>5, <1>6, <1>7, <1>8, <1>9, <1>10, <1>11, <1>12
     DEF Next, Worker, Janitor

\* Grants, table entries and answers agree.
LEMMA GrantStep == IInv /\ [Next]_vars => GrantInv'
<1> SUFFICES ASSUME IInv, [Next]_vars PROVE GrantInv'
  OBVIOUS
<1> USE TableAssumption
    DEF TypeOK, GrantInv, GrantedIsHeld, InTable, HeapState, WorkerPc,
        tblVars, memVars, workerVars, janVars, ratingVars
<1>t. TypeOK /\ GrantInv /\ TableSound /\ WorkerInv
  BY DEF IInv
<1>1. ASSUME NEW w \in Workers, NEW m \in Maxsecs, SearchRacc(w, m) PROVE GrantInv'
  BY <1>1, <1>t DEF SearchRacc, Goto, TableSound, WorkerInv, ServesMaxsec
<1>2. ASSUME NEW w \in Workers, NEW t \in Terms, SearchCallUid(w, t) PROVE GrantInv'
  BY <1>2, <1>t DEF SearchCallUid, Goto
<1>3. ASSUME NEW w \in Workers, RtMaxsec(w) PROVE GrantInv'
  BY <1>3, <1>t DEF RtMaxsec, Goto, WorkerInv, ServesMaxsec
<1>4. ASSUME NEW w \in Workers, CallInit(w) PROVE GrantInv'
  BY <1>4, <1>t DEF CallInit, Goto, Free, WorkerInv, ServesMaxsec
<1>5. ASSUME NEW w \in Workers, MaxsecAck(w) PROVE GrantInv'
  BY <1>5, <1>t DEF MaxsecAck, Goto, Over, WorkerInv, ServesMaxsec
<1>6. ASSUME NEW w \in Workers, CallTerm(w) PROVE GrantInv'
  BY <1>6, <1>t DEF CallTerm, Goto
<1>7. ASSUME NEW w \in Workers, TermAck(w) PROVE GrantInv'
  BY <1>7, <1>t DEF TermAck, Goto
<1>8. CASE Visit \/ ReadStatus \/ ReadBillsec \/ AddCdr \/ CallRating \/ EndPass
  BY <1>8, <1>t DEF Visit, ReadStatus, ReadBillsec, AddCdr, CallRating, EndPass
<1>9. CASE CallClear
  <2>1. ji \in Slots /\ cc[ji] \in Maxsecs
    BY <1>9, JanitorCall DEF CallClear
  <2>2. QED
    BY <1>9, <1>t, <2>1 DEF CallClear, WorkerInv, ServesMaxsec, TableSound
<1>10. ASSUME NEW m \in Maxsecs, Expire(m) PROVE GrantInv'
  BY <1>10, <1>t DEF Expire
<1>11. CASE UNCHANGED vars
  BY <1>11, <1>t DEF vars
<1>12. QED
  BY <1>1, <1>2, <1>3, <1>4, <1>5, <1>6, <1>7, <1>8, <1>9, <1>10, <1>11
     DEF Next, Worker, Janitor

\* A term structure belongs to one call at a time; it is the call's own, and
\* allocated, unless the call is crossed.
LEMMA TermStep == IInv /\ [Next]_vars => TermInv'
<1> SUFFICES ASSUME IInv, [Next]_vars PROVE TermInv'
  OBVIOUS
<1> USE TableAssumption
    DEF TypeOK, TermHeld, TermUnique, TermPending, TermRefused, TermOwn, InTable,
        HeapState, WorkerPc,
        tblVars, memVars, workerVars, janVars, ratingVars
<1>t. /\ TypeOK /\ TableSound /\ WorkerInv
      /\ TermHeld /\ TermUnique /\ TermPending /\ TermRefused /\ TermOwn
  BY DEF IInv, TermInv
<1>1. ASSUME NEW w \in Workers, NEW m \in Maxsecs, SearchRacc(w, m) PROVE TermInv'
  BY <1>1, <1>t DEF TermInv, SearchRacc, Goto
<1>2. ASSUME NEW w \in Workers, NEW t \in Terms, SearchCallUid(w, t) PROVE TermInv'
  <2>1. TermHeld'
    BY <1>2, <1>t DEF SearchCallUid, Goto, Matches, TableSound, WorkerInv, ServesTerm, Slots
  <2>2. TermUnique'
    BY <1>2, <1>t DEF SearchCallUid, Goto, Matches, TableSound, WorkerInv, ServesTerm, Slots
  <2>3. TermPending'
    BY <1>2, <1>t DEF SearchCallUid, Goto, Matches, TableSound, WorkerInv, ServesTerm, Slots
  <2>4. TermRefused'
    BY <1>2, <1>t DEF SearchCallUid, Goto, Matches, TableSound, WorkerInv, ServesTerm, Slots
  <2>5. TermOwn'
    BY <1>2, <1>t DEF SearchCallUid, Goto, Matches, TableSound, WorkerInv, ServesTerm, Slots
  <2>6. QED
    BY <2>1, <2>2, <2>3, <2>4, <2>5 DEF TermInv
<1>3. ASSUME NEW w \in Workers, RtMaxsec(w) PROVE TermInv'
  BY <1>3, <1>t DEF TermInv, RtMaxsec, Goto
<1>4. ASSUME NEW w \in Workers, CallInit(w) PROVE TermInv'
  <2>1. \A i \in Slots : cc[i] # NULL => cc'[i] = cc[i]
    BY <1>4, <1>t DEF CallInit, Free
  <2>2. UNCHANGED <<term, termMem, req, seen, crossed>>
    BY <1>4 DEF CallInit
  <2>3. \A v \in Workers : pc'[v] \in {"term", "termack"} => pc[v] = pc'[v]
    BY <1>4, <1>t DEF CallInit, Goto
  <2>4. TermHeld' /\ TermUnique' /\ TermRefused' /\ TermOwn'
    BY <1>t, <2>1, <2>2, <2>3
  <2>5. TermPending'
    BY <1>t, <2>1, <2>2, <2>3 DEF WorkerInv
  <2>6. QED
    BY <2>4, <2>5 DEF TermInv
<1>5. ASSUME NEW w \in Workers, MaxsecAck(w) PROVE TermInv'
  BY <1>5, <1>t DEF TermInv, MaxsecAck, Goto
<1>6. ASSUME NEW w \in Workers, CallTerm(w) PROVE TermInv'
  <2> DEFINE c == cc[seen[w]]
  <2>1. /\ req[w] \in Terms /\ seen[w] \in Slots /\ pc[w] = "term"
        /\ termMem[req[w]] # "none"
    BY <1>6, <1>t, WorkerRequest DEF CallTerm, Goto, ServesTerm, WorkerInv
  <2>2. c \in Maxsecs \cup {NULL}
    BY <1>t, <2>1
  <2>3. \A v \in Workers : pc'[v] \in {"term", "termack"} /\ v # w =>
          pc[v] = pc'[v] /\ req[v] # req[w]
    BY <1>6, <1>t, <2>1 DEF CallTerm, Goto, WorkerInv
  <2>4. \A m \in Maxsecs : term'[m] = term[m] \/ (m = c /\ term'[m] = req[w])
    BY <1>6, <1>t, <2>2 DEF CallTerm
  <2>5. UNCHANGED <<cc, req, seen, termMem>> /\ crossed \subseteq crossed'
    BY <1>6 DEF CallTerm
  <2>6. TermHeld'
    <3> SUFFICES ASSUME NEW m \in Maxsecs, term'[m] # NULL
                 PROVE  InTable(m)' /\ termMem'[term'[m]] # "none"
      OBVIOUS
    <3>1. CASE term'[m] = term[m]
      BY <1>t, <2>5, <3>1
    <3>2. CASE m = c /\ term'[m] = req[w]
      BY <2>1, <2>5, <3>2
    <3>3. QED
      BY <2>4, <3>1, <3>2
  <2>7. TermUnique'
    <3>1. \A m \in Maxsecs : term[m] = req[w] => m = c
      BY <1>t, <2>1
    <3>2. QED
      BY <1>t, <2>4, <3>1
  <2>8. TermPending'
    <3> SUFFICES ASSUME NEW v \in Workers, NEW m \in Maxsecs,
                        pc'[v] = "term", term'[m] = req'[v]
                 PROVE  cc'[seen'[v]] = m
      OBVIOUS
    <3>1. v # w
      BY <1>6, <1>t DEF CallTerm, Goto
    <3>2. QED
      BY <1>t, <2>3, <2>4, <2>5, <3>1
  <2>9. TermRefused'
    <3> SUFFICES ASSUME NEW v \in Workers, NEW m \in Maxsecs,
                        pc'[v] = "termack", seen'[v] < 0
                 PROVE  term'[m] # req'[v]
      OBVIOUS
    <3>1. v # w
      BY <2>1, <2>5 DEF Slots
    <3>2. QED
      BY <1>t, <2>3, <2>4, <2>5, <3>1
  <2>10. TermOwn'
    BY <1>6, <1>t, <2>1 DEF CallTerm, Goto, WorkerInv, ServesTerm, Slots
  <2>11. QED
    BY <2>6, <2>7, <2>8, <2>9, <2>10 DEF TermInv
<1>7. ASSUME NEW w \in Workers, TermAck(w) PROVE TermInv'
  <2>1. req[w] \in Terms
    BY <1>7, WorkerRequest DEF TermAck, Goto, ServesTerm
  <2>2. QED
    BY <1>7, <1>t, <2>1 DEF TermInv, TermAck, Goto
<1>8. CASE Visit \/ ReadStatus \/ ReadBillsec \/ AddCdr \/ CallRating \/ EndPass
  BY <1>8, <1>t DEF TermInv, Visit, ReadStatus, ReadBillsec, AddCdr, CallRating, EndPass
<1>9. CASE CallClear
  <2>1. ji \in Slots /\ cc[ji] \in Maxsecs
    BY <1>9, JanitorCall DEF CallClear
  <2>2. QED
    BY <1>9, <1>t, <2>1 DEF TermInv, CallClear, TableSound, WorkerInv, ServesTerm
<1>10. ASSUME NEW m \in Maxsecs, Expire(m) PROVE TermInv'
  BY <1>10, <1>t DEF TermInv, Expire
<1>11. CASE UNCHANGED vars
  BY <1>11, <1>t DEF TermInv, vars
<1>12. QED
  BY <1>1, <1>2, <1>3, <1>4, <1>5, <1>6, <1>7, <1>8, <1>9, <1>10, <1>11
     DEF Next, Worker, Janitor

\* Only a crossed call can be charged for another call's CDR.
LEMMA ChargeStep == IInv /\ [Next]_vars => ChargeInv'
<1> SUFFICES ASSUME IInv, [Next]_vars PROVE ChargeInv'
  OBVIOUS
<1> USE TableAssumption
    DEF TypeOK, ChargeInv, ChargeIsForOwnCall, Charge,
        tblVars, memVars, workerVars, janVars, ratingVars
<1>t. TypeOK /\ ChargeInv
  BY DEF IInv
<1>1. ASSUME NEW w \in Workers, NEW m \in Maxsecs, SearchRacc(w, m) PROVE ChargeInv'
  BY <1>1, <1>t DEF SearchRacc
<1>2. ASSUME NEW w \in Workers, NEW t \in Terms, SearchCallUid(w, t) PROVE ChargeInv'
  BY <1>2, <1>t DEF SearchCallUid
<1>3. ASSUME NEW w \in Workers, RtMaxsec(w) \/ CallInit(w) \/ MaxsecAck(w) PROVE ChargeInv'
  BY <1>3, <1>t DEF RtMaxsec, CallInit, MaxsecAck
<1>4. ASSUME NEW w \in Workers, CallTerm(w) \/ TermAck(w) PROVE ChargeInv'
  BY <1>4, <1>t DEF CallTerm, TermAck
<1>5. CASE Visit \/ ReadStatus \/ ReadBillsec \/ EndPass
  BY <1>5, <1>t DEF Visit, ReadStatus, ReadBillsec, EndPass
<1>6. CASE AddCdr
  <2>1. /\ cc[ji] \in Maxsecs /\ rtp[ji] = cc[ji] /\ term[cc[ji]] \in Terms
    BY <1>6, JanitorCall DEF AddCdr
  <2>2. cc[ji] \in crossed \/ \A c \in Contents(term[cc[ji]]) : c.uid = MaxUid[cc[ji]]
    BY <2>1, TableAssumption DEF IInv, TermInv, TermOwn, Contents
  <2>3. QED
    BY <1>6, <1>t, <2>1, <2>2 DEF AddCdr
<1>7. CASE CallRating
  <2>1. rtp[ji] \in Maxsecs
    BY <1>7, JanitorCall DEF CallRating
  <2>2. QED
    BY <1>7, <1>t, <2>1 DEF CallRating
<1>8. CASE CallClear
  <2>1. cc[ji] \in Maxsecs
    BY <1>8, JanitorCall DEF CallClear
  <2>2. QED
    BY <1>8, <1>t, <2>1 DEF CallClear
<1>9. ASSUME NEW m \in Maxsecs, Expire(m) PROVE ChargeInv'
  BY <1>9, <1>t DEF Expire
<1>10. CASE UNCHANGED vars
  BY <1>10, <1>t DEF vars
<1>11. QED
  BY <1>1, <1>2, <1>3, <1>4, <1>5, <1>6, <1>7, <1>8, <1>9, <1>10
     DEF Next, Worker, Janitor

\* Fewer held calls and fewer pending grants keep the bound of a subscriber.
LEMMA LimitShrinks ==
  ASSUME NEW s, NEW n \in Int,
         Held(s)' \subseteq Held(s), InFlight(s)' \subseteq InFlight(s),
         Cardinality(Held(s)) + Cardinality(InFlight(s)) <= n
  PROVE  Cardinality(Held(s)') + Cardinality(InFlight(s)') <= n
<1>1. /\ Cardinality(Held(s)') <= Cardinality(Held(s))
      /\ Cardinality(Held(s)') \in Nat
  BY HeldFinite, FS_Subset, FS_CardinalityType
<1>2. /\ Cardinality(InFlight(s)') <= Cardinality(InFlight(s))
      /\ Cardinality(InFlight(s)') \in Nat
  BY InFlightFinite, FS_Subset, FS_CardinalityType
<1>3. QED
  BY <1>1, <1>2, HeldFinite, InFlightFinite

\* Calls up and pending grants of a subscriber stay within the bound.
LEMMA LimitStep == IInv /\ [Next]_vars => LimitInv'
<1> SUFFICES ASSUME IInv, [Next]_vars, NEW s \in Subscribers
             PROVE  Cardinality(Held(s)') + Cardinality(InFlight(s)')
                      <= CallNumber[s] + Cardinality(Workers) - 1
  BY DEF LimitInv
<1> DEFINE N == CallNumber[s] + Cardinality(Workers) - 1
           Goal == Cardinality(Held(s)') + Cardinality(InFlight(s)') <= N
<1> USE DEF tblVars, memVars, workerVars, janVars, ratingVars
<1>t. TypeOK /\ WorkerInv
  BY DEF IInv
<1>n. N \in Int /\ CallNumber[s] \in Nat
  BY SomeWorker, RequestAssumption
<1>b. Cardinality(Held(s)) + Cardinality(InFlight(s)) <= N
  BY DEF IInv, LimitInv
<1>h. ASSUME UNCHANGED cc PROVE Held(s)' = Held(s)
  BY <1>h DEF Held
<1>f. ASSUME NEW w \in Workers, pc'[w] \notin {"decide", "insert"},
             \A v \in Workers \ {w} : pc'[v] = pc[v] /\ req'[v] = req[v] /\ seen'[v] = seen[v]
      PROVE  InFlight(s)' \subseteq InFlight(s) \ {w}
  BY <1>f DEF InFlight
<1>k. ASSUME UNCHANGED workerVars PROVE InFlight(s)' = InFlight(s)
  BY <1>k DEF InFlight
<1>s. ASSUME Held(s)' \subseteq Held(s), InFlight(s)' \subseteq InFlight(s) PROVE Goal
  BY <1>s, <1>n, <1>b, LimitShrinks
<1>1. ASSUME NEW w \in Workers, NEW m \in Maxsecs, SearchRacc(w, m) PROVE Goal
  <2>1. Held(s)' = Held(s)
    BY <1>1, <1>h DEF SearchRacc
  <2>2. CASE w \in InFlight(s)'
    <3>1. Cardinality(Held(s)) < CallNumber[s]
      BY <1>1, <1>t, <2>2, TableAssumption DEF SearchRacc, Goto, InFlight, TypeOK
    <3>2. Cardinality(InFlight(s)') \in Nat /\ Cardinality(InFlight(s)') <= Cardinality(Workers)
      <4>1. InFlight(s)' \subseteq Workers
        BY DEF InFlight
      <4>2. QED
        BY <4>1, WorkerAssumption, FS_Subset, FS_CardinalityType
    <3>3. QED
      BY <2>1, <3>1, <3>2, <1>n, HeldFinite, SomeWorker
  <2>3. CASE w \notin InFlight(s)'
    <3>1. InFlight(s)' \subseteq InFlight(s)
      BY <1>1, <1>t, <2>3 DEF SearchRacc, Goto, InFlight, TypeOK
    <3>2. QED
      BY <2>1, <3>1, <1>s
  <2>4. QED
    BY <2>2, <2>3
<1>2. ASSUME NEW w \in Workers, NEW t \in Terms, SearchCallUid(w, t) PROVE Goal
  <2>1. pc'[w] \notin {"decide", "insert"} /\ UNCHANGED cc
    BY <1>2, <1>t DEF SearchCallUid, Goto, TypeOK
  <2>2. \A v \in Workers \ {w} : pc'[v] = pc[v] /\ req'[v] = req[v] /\ seen'[v] = seen[v]
    BY <1>2, <1>t DEF SearchCallUid, Goto, TypeOK
  <2>3. QED
    BY <2>1, <2>2, <1>f, <1>h, <1>s
<1>3. ASSUME NEW w \in Workers, RtMaxsec(w) PROVE Goal
  <2>1. InFlight(s)' \subseteq InFlight(s) /\ UNCHANGED cc
    BY <1>3, <1>t DEF RtMaxsec, Goto, InFlight, TypeOK, WorkerPc
  <2>2. QED
    BY <2>1, <1>h, <1>s
<1>4. ASSUME NEW w \in Workers, CallInit(w) PROVE Goal
  <2>1. InFlight(s)' \subseteq InFlight(s) \ {w}
    BY <1>4, <1>t, <1>f DEF CallInit, Goto, TypeOK
  <2>2. CASE UNCHANGED cc
    BY <2>1, <2>2, <1>h, <1>s
  <2>3. CASE cc' # cc
    <3>1. PICK i \in Slots : cc' = [cc EXCEPT ![i] = req[w]]
      BY <1>4, <2>3 DEF CallInit
    <3>2. CASE Clg[MaxUid[req[w]]] = s
      <4>1. w \in InFlight(s)
        BY <1>4, <3>2 DEF CallInit, Goto, IInv, GrantInv, InFlight
      <4>2. Cardinality(InFlight(s) \ {w}) = Cardinality(InFlight(s)) - 1
        BY <4>1, InFlightFinite, FS_RemoveElement
      <4>3. /\ Cardinality(InFlight(s)') \in Nat
            /\ Cardinality(InFlight(s)') <= Cardinality(InFlight(s)) - 1
        BY <2>1, <4>2, InFlightFinite, FS_Subset, FS_RemoveElement, FS_CardinalityType
      <4>4. Held(s)' \subseteq Held(s) \cup {i}
        BY <3>1, <1>t DEF Held, TypeOK
      <4>5. /\ Cardinality(Held(s)') \in Nat
            /\ Cardinality(Held(s)') <= Cardinality(Held(s)) + 1
        <5>1. /\ IsFiniteSet(Held(s) \cup {i})
              /\ Cardinality(Held(s) \cup {i}) <= Cardinality(Held(s)) + 1
          <6>1. IsFiniteSet(Held(s)) /\ Cardinality(Held(s)) \in Nat
            BY HeldFinite
          <6>2. IsFiniteSet(Held(s) \cup {i})
            BY <6>1, FS_AddElement
          <6>3. \/ Cardinality(Held(s) \cup {i}) = Cardinality(Held(s))
                \/ Cardinality(Held(s) \cup {i}) = Cardinality(Held(s)) + 1
            BY <6>1, FS_AddElement
          <6>4. QED
            BY <6>1, <6>2, <6>3
        <5>2. QED
          BY <4>4, <5>1, HeldFinite, FS_Subset, FS_CardinalityType
      <4>6. QED
        BY <4>3, <4>5, <1>b, <1>n, HeldFinite, InFlightFinite
    <3>3. CASE Clg[MaxUid[req[w]]] # s
      <4>1. Held(s)' \subseteq Held(s)
        BY <3>1, <3>3, <1>t DEF Held, TypeOK
      <4>2. QED
        BY <2>1, <4>1, <1>s
    <3>4. QED
      BY <3>2, <3>3
  <2>4. QED
    BY <2>2, <2>3
<1>5. ASSUME NEW w \in Workers, MaxsecAck(w) \/ CallTerm(w) \/ TermAck(w) PROVE Goal
  <2>1. pc'[w] \notin {"decide", "insert"} /\ UNCHANGED cc
    BY <1>5, <1>t DEF MaxsecAck, CallTerm, TermAck, Goto, TypeOK
  <2>2. \A v \in Workers \ {w} : pc'[v] = pc[v] /\ req'[v] = req[v] /\ seen'[v] = seen[v]
    BY <1>5, <1>t DEF MaxsecAck, CallTerm, TermAck, Goto, TypeOK
  <2>3. QED
    BY <2>1, <2>2, <1>f, <1>h, <1>s
<1>6. CASE Visit \/ ReadStatus \/ ReadBillsec \/ AddCdr \/ CallRating \/ EndPass
  BY <1>6, <1>h, <1>k, <1>s DEF Visit, ReadStatus, ReadBillsec, AddCdr, CallRating, EndPass
<1>7. CASE CallClear
  <2>1. Held(s)' \subseteq Held(s)
    BY <1>7, <1>t DEF CallClear, Held, TypeOK
  <2>2. QED
    BY <1>7, <2>1, <1>k, <1>s DEF CallClear
<1>8. ASSUME NEW m \in Maxsecs, Expire(m) PROVE Goal
  BY <1>8, <1>h, <1>k, <1>s DEF Expire
<1>9. CASE UNCHANGED vars
  BY <1>9, <1>h, <1>k, <1>s DEF vars
<1>10. QED
  BY <1>1, <1>2, <1>3, <1>4, <1>5, <1>6, <1>7, <1>8, <1>9 DEF Next, Worker, Janitor

-----------------------------------------------------------------------------
(* The theorems. *)

\* IInv holds in every reachable state.
THEOREM Invariance == SafeSpec => []IInv
<1>1. IInv /\ [Next]_vars => IInv'
  BY TypeStep, WorkerStep, TableStep, JanitorStep, GrantStep, LimitStep, TermStep, ChargeStep
     DEF IInv
<1>2. QED
  BY InitInv, <1>1, PTL DEF SafeSpec

\* Type correctness of the call table, its workers and its janitor.
THEOREM TypeCorrect == SafeSpec => []TypeOK
  BY Invariance, PTL DEF IInv

\* The table never points to a freed cc_t, holds a call once, and pairs cc_ptr
\* with the racc_t of the same call.
THEOREM TableSoundness == SafeSpec => []TableSound
  BY Invariance, PTL DEF IInv

\* The janitor's unlocked reads are stable.
THEOREM JanitorStability == SafeSpec => []JanitorSlotStable
  BY Invariance, PTL DEF IInv

\* A granted call is in the table until the janitor clears it.
THEOREM GrantedHeld == SafeSpec => []GrantedIsHeld
  BY Invariance, PTL DEF IInv, GrantInv

\* The concurrent-call limit is overrun by less than the number of workers.
THEOREM LimitBound == SafeSpec => []LimitOverrunBounded
<1>1. IInv => LimitOverrunBounded
  <2> SUFFICES ASSUME IInv, NEW s \in Subscribers
               PROVE  Cardinality(Held(s)) <= CallNumber[s] + Cardinality(Workers) - 1
    BY DEF LimitOverrunBounded
  <2>1. Cardinality(Held(s)) + Cardinality(InFlight(s))
          <= CallNumber[s] + Cardinality(Workers) - 1
    BY DEF IInv, LimitInv
  <2>2. QED
    BY <2>1, HeldFinite, InFlightFinite, SomeWorker, RequestAssumption
<1>2. QED
  BY <1>1, Invariance, PTL

\* An uncrossed call is charged for its own CDR only.
THEOREM OwnCharge == SafeSpec => []ChargeIsForOwnCall
  BY Invariance, PTL DEF IInv, ChargeInv

\* A call leaves the table only for its own term, its timeout or a foreign term.
THEOREM ClearCause == SafeSpec => ClearedForCause
<1> DEFINE Cause == \A i \in Slots : cc[i] # NULL /\ cc'[i] # cc[i] =>
                      OwnTerm(cc[i]) \/ cc[i] \in expired \/ cc[i] \in crossed
<1>1. IInv /\ [Next]_vars => [Cause]_cc
  <2> SUFFICES ASSUME IInv, [Next]_vars, NEW i \in Slots, cc[i] # NULL, cc'[i] # cc[i]
               PROVE  OwnTerm(cc[i]) \/ cc[i] \in expired \/ cc[i] \in crossed
    OBVIOUS
  <2>t. TypeOK
    BY DEF IInv
  <2>1. CallClear
    <3>1. ASSUME NEW w \in Workers, CallInit(w) PROVE FALSE
      BY <3>1, <2>t DEF CallInit, Free, TypeOK
    <3>2. QED
      BY <3>1 DEF Next, Worker, Janitor, vars, tblVars, SearchRacc, SearchCallUid, RtMaxsec,
                  MaxsecAck, CallTerm, TermAck, Visit, ReadStatus, ReadBillsec, AddCdr, CallRating,
                  EndPass, Expire
  <2>2. i = ji
    BY <2>1, <2>t DEF CallClear, TypeOK
  <2>3. term[cc[i]] # NULL \/ cc[i] \in expired
    BY <2>1, <2>2 DEF IInv, JanitorSlotStable, CallClear
  <2>4. cc[i] \in Maxsecs
    BY <2>t DEF TypeOK
  <2>5. QED
    BY <2>3, <2>4 DEF IInv, TermInv, TermOwn, OwnTerm
<1>2. QED
  BY <1>1, Invariance, PTL DEF SafeSpec, ClearedForCause

===============================================================================
