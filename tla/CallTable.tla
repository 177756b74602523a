------------------------------ MODULE CallTable ------------------------------
(***************************************************************************)
(* The CallControl call table: cc_tbl of mod/CallControl/cc_server.c, the  *)
(* worker threads that serve `maxsec' and `term' requests (cc.c and the    *)
(* request loop of the my_cc and jsonrpc_cc codecs), and the janitor       *)
(* thread cc_server_thread that rates terminated calls and clears slots.   *)
(*                                                                         *)
(* Every section under cc_tbl_lock is one action.  The janitor reads the   *)
(* table WITHOUT the lock, so each of its reads that can see a different   *)
(* table is an action of its own.  Only the janitor empties a slot.        *)
(*                                                                         *)
(* A maxsec request m stands for the cc_t it allocates and for the racc_t  *)
(* (with its rating_t `pre') that rt_maxsec returns for it; a term request *)
(* t stands for the term structure it allocates.  The cc_t wrapper of a    *)
(* term request never leaves its worker and is not modelled.               *)
(***************************************************************************)
EXTENDS Integers, FiniteSets

CONSTANTS
  SimCalls,      \* sim_calls: number of slots of cc_tbl
  Workers,       \* worker threads of all the interfaces
  MyCC,          \* the workers whose interface speaks my_cc (others: jsonrpc_cc)
  DbWorkers,     \* the workers whose cc_worker_init got a DB connection
  Maxsecs,       \* maxsec requests
  Terms,         \* term requests
  Uids,          \* call_uid values
  MaxUid,        \* call_uid of a maxsec request
  TermUid,       \* call_uid of a term request
  NormalClear,   \* the term requests with status normal_clear
  Billed,        \* the term requests with billsec > 0
  Subscribers,   \* calling numbers
  Clg,           \* calling number of a call
  CallNumber,    \* pcard call_number: concurrent calls allowed
  NULL

ASSUME TableAssumption ==
  /\ SimCalls \in Nat \ {0}
  /\ NULL \notin Maxsecs \cup Terms \cup Uids
  /\ Maxsecs \cap Terms = {}

ASSUME RequestAssumption ==
  /\ MaxUid \in [Maxsecs -> Uids]
  /\ TermUid \in [Terms -> Uids]
  /\ Clg \in [Uids -> Subscribers]
  /\ CallNumber \in [Subscribers -> Nat]
  /\ NormalClear \subseteq Terms
  /\ Billed \subseteq Terms

ASSUME WorkerAssumption ==
  /\ IsFiniteSet(Workers)
  /\ Workers # {}
  /\ MyCC \subseteq Workers
  /\ DbWorkers \subseteq Workers

Slots == 0 .. SimCalls - 1

VARIABLES
  cc,        \* cc_tbl[i].cc_ptr
  rtp,       \* cc_tbl[i].rtp
  term,      \* cc_ptr->term of a maxsec's cc_t
  maxsec,    \* cc_ptr->max->maxsec, as a class of values
  cdrId,     \* rtp->pre->cdr_id: the call_uid of the CDR, NULL for 0
  ccMem,     \* heap state of a cc_t
  termMem,   \* heap state of a term structure
  pc,        \* where a worker is in its request
  req,       \* the request a worker serves
  seen,      \* what the worker read under the lock: `sim' or the slot index
  reply,     \* the answer sent for a maxsec request
  jpc,       \* where the janitor is in the visit of a slot
  ji,        \* the slot the janitor visits
  expired,   \* calls older than call_maxsec_limit + CALL_MAXSEC_LIMIT_WAIT
  charges,   \* calls of rt_exec by the janitor
  crossed    \* history: calls that CallTerm gave a term that is not theirs

tblVars    == <<cc, rtp, term>>
memVars    == <<ccMem, termMem>>
workerVars == <<pc, req, seen>>
janVars    == <<jpc, ji>>
ratingVars == <<charges, crossed>>
vars == <<cc, rtp, term, maxsec, cdrId, ccMem, termMem, pc, req, seen, reply,
          jpc, ji, expired, charges, crossed>>

HeapState == {"none", "live", "freed"}
Code      == {"none", "granted", "denied", "zero"}
WorkerPc  == {"idle", "decide", "insert", "maxack", "term", "termack"}
JanPc     == {"scan", "status", "billsec", "cdr", "rate", "clear"}
Charge    == [cdr: Uids, call: Maxsecs]

(***************************************************************************)
(* What a read of a term structure may return: its fields while it is      *)
(* allocated, anything once it has been freed.                             *)
(***************************************************************************)
Contents(t) ==
  IF termMem[t] = "live"
  THEN {[uid |-> TermUid[t], normal |-> t \in NormalClear, billed |-> t \in Billed]}
  ELSE [uid: Uids, normal: BOOLEAN, billed: BOOLEAN]

Held(s) == {i \in Slots : cc[i] # NULL /\ Clg[MaxUid[cc[i]]] = s}

InTable(m) == \E i \in Slots : cc[i] = m

Init ==
  /\ cc = [i \in Slots |-> NULL]
  /\ rtp = [i \in Slots |-> NULL]
  /\ term = [m \in Maxsecs |-> NULL]
  /\ maxsec = [m \in Maxsecs |-> "none"]
  /\ cdrId = [m \in Maxsecs |-> NULL]
  /\ ccMem = [m \in Maxsecs |-> "none"]
  /\ termMem = [t \in Terms |-> "none"]
  /\ pc = [w \in Workers |-> "idle"]
  /\ req = [w \in Workers |-> NULL]
  /\ seen = [w \in Workers |-> 0]
  /\ reply = [m \in Maxsecs |-> "none"]
  /\ jpc = "scan"
  /\ ji = 0
  /\ expired = {}
  /\ charges = {}
  /\ crossed = {}

-----------------------------------------------------------------------------
(***************************************************************************)
(* Workers: a maxsec request.                                              *)
(***************************************************************************)

Goto(w, from, to) ==
  /\ pc[w] = from
  /\ pc' = [pc EXCEPT ![w] = to]

\* The request is parsed into a cc_t; cc_server_call_search_racc counts the
\* calls already up for the subscriber.
SearchRacc(w, m) ==
  /\ ccMem[m] = "none"
  /\ Goto(w, "idle", "decide")
  /\ req' = [req EXCEPT ![w] = m]
  /\ seen' = [seen EXCEPT ![w] = Cardinality(Held(Clg[MaxUid[m]]))]
  /\ ccMem' = [ccMem EXCEPT ![m] = "live"]
  /\ UNCHANGED <<tblVars, maxsec, cdrId, termMem, reply, janVars, expired, ratingVars>>

\* Mutant of RtMaxsec: the concurrent calls are not compared with call_number.
RtMaxsecUnlimited(w) ==
  /\ Goto(w, "decide", "insert")
  /\ maxsec' = [maxsec EXCEPT ![req[w]] = "granted"]
  /\ UNCHANGED <<tblVars, cdrId, memVars, req, seen, reply, janVars, expired, ratingVars>>

\* rt_maxsec(dbp, pre, sim).  Without a connection it returns NULL and leaves
\* pre->maxsec at the 0 it was allocated with; otherwise it refuses with a
\* negative code (always when sim has reached call_number) or returns the racc_t.
\* The refusal CC_MAXSEC_NO_PRE, decided before the count when `pre' cannot be
\* built, is the refusal of any worker here.
RtMaxsec(w) ==
  LET m == req[w]
  IN  /\ \/ /\ w \notin DbWorkers
            /\ Goto(w, "decide", "maxack")
            /\ maxsec' = [maxsec EXCEPT ![m] = "zero"]
         \/ /\ Goto(w, "decide", "maxack")
            /\ maxsec' = [maxsec EXCEPT ![m] = "denied"]
         \/ /\ w \in DbWorkers
            /\ Goto(w, "decide", "insert")
            /\ seen[w] < CallNumber[Clg[MaxUid[m]]]
            /\ maxsec' = [maxsec EXCEPT ![m] = "granted"]
      /\ UNCHANGED <<tblVars, cdrId, memVars, req, seen, reply, janVars, expired, ratingVars>>

Free(i) == cc[i] = NULL /\ rtp[i] = NULL

\* Mutant of CallInit: a full table leaves the granted maxsec as it is.
CallInitFullGranted(w) ==
  /\ Goto(w, "insert", "maxack")
  /\ \/ \E i \in Slots :
          /\ Free(i)
          /\ cc' = [cc EXCEPT ![i] = req[w]]
          /\ rtp' = [rtp EXCEPT ![i] = req[w]]
     \/ /\ \A i \in Slots : ~Free(i)
        /\ UNCHANGED <<cc, rtp>>
  /\ UNCHANGED <<term, maxsec, cdrId, memVars, req, seen, reply, janVars, expired, ratingVars>>

\* cc_server_call_init: the first free slot takes the call; a full table turns
\* the grant into CC_MAXSEC_NO_CCTBL.
CallInit(w) ==
  LET m == req[w]
  IN  /\ Goto(w, "insert", "maxack")
      /\ \/ \E i \in Slots :
              /\ Free(i)
              /\ \A j \in 0 .. i - 1 : ~Free(j)
              /\ cc' = [cc EXCEPT ![i] = m]
              /\ rtp' = [rtp EXCEPT ![i] = m]
              /\ UNCHANGED maxsec
         \/ /\ \A i \in Slots : ~Free(i)
            /\ maxsec' = [maxsec EXCEPT ![m] = "denied"]
            /\ UNCHANGED <<cc, rtp>>
      /\ UNCHANGED <<term, cdrId, memVars, req, seen, reply, janVars, expired, ratingVars>>

\* Mutant of Over: every maxsec answer frees its cc_t.
OverAlways(w, code) == code \in Code

\* The codec reads max->maxsec into the answer and frees the cc_t of a request
\* that is over: maxsec < 0 for my_cc, maxsec <= 0 for jsonrpc_cc.
Over(w, code) == code = "denied" \/ (code = "zero" /\ w \notin MyCC)

MaxsecAck(w) ==
  LET m == req[w]
  IN  /\ Goto(w, "maxack", "idle")
      /\ req' = [req EXCEPT ![w] = NULL]
      /\ \E code \in IF ccMem[m] = "live" THEN {maxsec[m]} ELSE Code \ {"none"} :
           /\ reply' = [reply EXCEPT ![m] = code]
           /\ IF Over(w, code)
              THEN /\ ccMem' = [ccMem EXCEPT ![m] = "freed"]
                   /\ maxsec' = [maxsec EXCEPT ![m] = "none"]
              ELSE UNCHANGED <<ccMem, maxsec>>
      /\ seen' = [seen EXCEPT ![w] = 0]
      /\ UNCHANGED <<tblVars, cdrId, termMem, janVars, expired, ratingVars>>

-----------------------------------------------------------------------------
(***************************************************************************)
(* Workers: a term request.                                                *)
(***************************************************************************)

\* Mutant of Matches: the call_uid is not compared.
MatchesAnyCall(i, t) == cc[i] # NULL /\ t \in Terms

Matches(i, t) == cc[i] # NULL /\ MaxUid[cc[i]] = TermUid[t]

\* cc_server_call_search_call_uid: the first slot with the call_uid already gets
\* the term structure here, before cc_server_call_term.
SearchCallUid(w, t) ==
  /\ termMem[t] = "none"
  /\ termMem' = [termMem EXCEPT ![t] = "live"]
  /\ req' = [req EXCEPT ![w] = t]
  /\ \/ \E i \in Slots :
          /\ Matches(i, t)
          /\ \A j \in 0 .. i - 1 : ~Matches(j, t)
          /\ Goto(w, "idle", "term")
          /\ seen' = [seen EXCEPT ![w] = i]
          /\ term' = [term EXCEPT ![cc[i]] = t]
     \/ /\ \A i \in Slots : ~Matches(i, t)
        /\ Goto(w, "idle", "termack")
        /\ seen' = [seen EXCEPT ![w] = -1]
        /\ UNCHANGED term
  /\ UNCHANGED <<cc, rtp, maxsec, cdrId, ccMem, reply, janVars, expired, ratingVars>>

\* Mutant of CallTerm: the worker empties the slot itself.
CallTermClears(w) ==
  LET i == seen[w]
  IN  /\ Goto(w, "term", "termack")
      /\ cc' = [cc EXCEPT ![i] = NULL]
      /\ rtp' = [rtp EXCEPT ![i] = NULL]
      /\ UNCHANGED <<term, maxsec, cdrId, memVars, req, seen, reply, janVars, expired,
                     ratingVars>>

\* cc_server_call_term(&cc_tbl[i], cc_ptr): whatever call the slot holds by now
\* gets the term structure.
CallTerm(w) ==
  LET i == seen[w]
      t == req[w]
      m == cc[i]
  IN  /\ Goto(w, "term", "termack")
      /\ \/ /\ m = NULL
            /\ UNCHANGED <<term, crossed>>
         \/ /\ m # NULL
            /\ term' = [term EXCEPT ![m] = t]
            /\ crossed' = IF TermUid[t] = MaxUid[m] /\ termMem[t] = "live"
                          THEN crossed ELSE crossed \cup {m}
      /\ UNCHANGED <<cc, rtp, maxsec, cdrId, memVars, req, seen, reply, janVars,
                     expired, charges>>

\* term->tbl_idx is written and read back for the answer: "ok", or "nok" (the
\* index is negative) and the term is freed.  If the janitor freed the structure
\* meanwhile, the read is arbitrary, and a second free changes nothing here.
TermAck(w) ==
  LET t == req[w]
  IN  /\ Goto(w, "termack", "idle")
      /\ req' = [req EXCEPT ![w] = NULL]
      /\ seen' = [seen EXCEPT ![w] = 0]
      /\ termMem' = IF seen[w] < 0 THEN [termMem EXCEPT ![t] = "freed"] ELSE termMem
      /\ UNCHANGED <<tblVars, maxsec, cdrId, ccMem, reply, janVars, expired, ratingVars>>

-----------------------------------------------------------------------------
(***************************************************************************)
(* The janitor, cc_server_thread.                                          *)
(***************************************************************************)

\* The janitor goes on to the next slot.
NextSlot == ji' = ji + 1 /\ jpc' = "scan"

\* Mutant of Visit: calls without a term are never looked at.
VisitNoTimeout ==
  /\ jpc = "scan"
  /\ ji < SimCalls
  /\ IF cc[ji] # NULL /\ term[cc[ji]] # NULL
     THEN jpc' = "status" /\ UNCHANGED ji
     ELSE NextSlot
  /\ UNCHANGED <<tblVars, maxsec, cdrId, memVars, workerVars, reply, expired, ratingVars>>

\* Mutant of Visit: the age of a call without a term is not compared with the limit.
VisitNoLimit ==
  /\ jpc = "scan"
  /\ ji < SimCalls
  /\ IF cc[ji] = NULL THEN NextSlot
     ELSE /\ jpc' = IF term[cc[ji]] # NULL THEN "status" ELSE "clear"
          /\ UNCHANGED ji
  /\ UNCHANGED <<tblVars, maxsec, cdrId, memVars, workerVars, reply, expired, ratingVars>>

\* One visit of the for loop: an empty slot and a running call are passed over.
Visit ==
  /\ jpc = "scan"
  /\ ji < SimCalls
  /\ \/ /\ \/ cc[ji] = NULL
           \/ cc[ji] # NULL /\ term[cc[ji]] = NULL /\ cc[ji] \notin expired
        /\ NextSlot
     \/ /\ cc[ji] # NULL
        /\ term[cc[ji]] # NULL
        /\ jpc' = "status"
        /\ UNCHANGED ji
     \/ /\ cc[ji] # NULL
        /\ term[cc[ji]] = NULL
        /\ cc[ji] \in expired
        /\ jpc' = "clear"
        /\ UNCHANGED ji
  /\ UNCHANGED <<tblVars, maxsec, cdrId, memVars, workerVars, reply, expired, ratingVars>>

\* term->status == normal_clear && rtp != NULL
ReadStatus ==
  /\ jpc = "status"
  /\ \E c \in Contents(term[cc[ji]]) :
       jpc' = IF c.normal /\ rtp[ji] # NULL THEN "billsec" ELSE "clear"
  /\ UNCHANGED <<tblVars, maxsec, cdrId, memVars, workerVars, reply, ji, expired, ratingVars>>

\* term->billsec > 0
ReadBillsec ==
  /\ jpc = "billsec"
  /\ \E c \in Contents(term[cc[ji]]) : jpc' = IF c.billed THEN "cdr" ELSE "rate"
  /\ UNCHANGED <<tblVars, maxsec, cdrId, memVars, workerVars, reply, ji, expired, ratingVars>>

\* cc_server_add_cdr: the insert skips a call_uid that is already there and
\* returns DB_OK, or fails and leaves cdr_id at 0.
AddCdr ==
  /\ jpc = "cdr"
  /\ jpc' = "rate"
  /\ \/ \E c \in Contents(term[cc[ji]]) : cdrId' = [cdrId EXCEPT ![rtp[ji]] = c.uid]
     \/ cdrId' = [cdrId EXCEPT ![rtp[ji]] = NULL]
  /\ UNCHANGED <<tblVars, maxsec, memVars, workerVars, reply, ji, expired, charges, crossed>>

\* Mutant of CallRating: a call whose CDR was not stored is rated too.
CallRatingUnchecked ==
  /\ jpc = "rate"
  /\ jpc' = "clear"
  /\ charges' = charges \cup {[cdr |-> cdrId[rtp[ji]], call |-> rtp[ji]]}
  /\ UNCHANGED <<tblVars, maxsec, cdrId, memVars, workerVars, reply, ji, expired, crossed>>

\* cc_call_rating when there is a CDR to rate.
CallRating ==
  /\ jpc = "rate"
  /\ jpc' = "clear"
  /\ charges' = IF cdrId[rtp[ji]] = NULL THEN charges
                ELSE charges \cup {[cdr |-> cdrId[rtp[ji]], call |-> rtp[ji]]}
  /\ UNCHANGED <<tblVars, maxsec, cdrId, memVars, workerVars, reply, ji, expired, crossed>>

\* cc_server_call_clear: racc_t, pre, max, term and cc_t are freed, the slot emptied.
CallClear ==
  LET m == cc[ji]
      t == term[m]
  IN  /\ jpc = "clear"
      /\ NextSlot
      /\ cc' = [cc EXCEPT ![ji] = NULL]
      /\ rtp' = [rtp EXCEPT ![ji] = NULL]
      /\ term' = [term EXCEPT ![m] = NULL]
      /\ maxsec' = [maxsec EXCEPT ![m] = "none"]
      /\ cdrId' = [cdrId EXCEPT ![m] = NULL]
      /\ expired' = expired \ {m}
      /\ ccMem' = [ccMem EXCEPT ![m] = "freed"]
      /\ termMem' = IF t = NULL THEN termMem ELSE [termMem EXCEPT ![t] = "freed"]
      /\ UNCHANGED <<workerVars, reply, ratingVars>>

\* The loop is over: usleep, then a new pass.
EndPass ==
  /\ jpc = "scan"
  /\ ji = SimCalls
  /\ ji' = 0
  /\ UNCHANGED <<tblVars, maxsec, cdrId, memVars, workerVars, reply, jpc, expired, ratingVars>>

\* Time passes: a held call gets older than call_maxsec_limit + the wait.
Expire(m) ==
  /\ InTable(m)
  /\ m \notin expired
  /\ expired' = expired \cup {m}
  /\ UNCHANGED <<tblVars, maxsec, cdrId, memVars, workerVars, reply, janVars, ratingVars>>

-----------------------------------------------------------------------------

Worker(w) ==
  \/ \E m \in Maxsecs : SearchRacc(w, m)
  \/ \E t \in Terms : SearchCallUid(w, t)
  \/ RtMaxsec(w)
  \/ CallInit(w)
  \/ MaxsecAck(w)
  \/ CallTerm(w)
  \/ TermAck(w)

Janitor == Visit \/ ReadStatus \/ ReadBillsec \/ AddCdr \/ CallRating \/ CallClear \/ EndPass

Next ==
  \/ \E w \in Workers : Worker(w)
  \/ Janitor
  \/ \E m \in Maxsecs : Expire(m)

\* The janitor is a loop with no blocking call but the short table lock, and
\* clocks do not stop; nothing is assumed of the clients or of the workers.
Fairness ==
  /\ WF_vars(Janitor)
  /\ \A m \in Maxsecs : WF_vars(Expire(m))

SafeSpec == Init /\ [][Next]_vars

Spec == SafeSpec /\ Fairness

-----------------------------------------------------------------------------
(***************************************************************************)
(* Properties.                                                             *)
(***************************************************************************)

TypeOK ==
  /\ cc \in [Slots -> Maxsecs \cup {NULL}]
  /\ rtp \in [Slots -> Maxsecs \cup {NULL}]
  /\ term \in [Maxsecs -> Terms \cup {NULL}]
  /\ maxsec \in [Maxsecs -> Code]
  /\ cdrId \in [Maxsecs -> Uids \cup {NULL}]
  /\ ccMem \in [Maxsecs -> HeapState]
  /\ termMem \in [Terms -> HeapState]
  /\ pc \in [Workers -> WorkerPc]
  /\ req \in [Workers -> Maxsecs \cup Terms \cup {NULL}]
  /\ seen \in [Workers -> Int]
  /\ reply \in [Maxsecs -> Code]
  /\ jpc \in JanPc
  /\ ji \in 0 .. SimCalls
  /\ expired \subseteq Maxsecs
  /\ charges \subseteq Charge
  /\ crossed \subseteq Maxsecs

\* The table holds each live call once, cc_ptr and rtp of a slot belong to the
\* same call, and no slot points to a freed cc_t (cc_server_call_init and
\* cc_server_call_clear under cc_tbl_lock).
TableSound ==
  /\ \A i \in Slots : cc[i] = rtp[i]
  /\ \A i \in Slots : cc[i] # NULL => ccMem[cc[i]] = "live" /\ maxsec[cc[i]] = "granted"
  /\ \A i, j \in Slots : cc[i] # NULL /\ cc[i] = cc[j] => i = j

\* The janitor reads the table without the lock, yet the call it has begun to
\* settle stays in its slot until the janitor itself clears it, with a term
\* unless it was found expired.
JanitorSlotStable ==
  jpc # "scan" =>
    /\ ji < SimCalls
    /\ cc[ji] # NULL
    /\ term[cc[ji]] # NULL \/ (jpc = "clear" /\ cc[ji] \in expired)

\* Workers that counted the subscriber's calls below the limit and have not
\* inserted theirs yet.
InFlight(s) ==
  {w \in Workers : /\ pc[w] \in {"decide", "insert"}
                   /\ Clg[MaxUid[req[w]]] = s
                   /\ seen[w] < CallNumber[s]}

\* cc_maxsec_f counts, decides and inserts in three steps, so a subscriber can
\* get more calls than the card's call_number; the excess is below the number
\* of workers.
LimitOverrunBounded ==
  \A s \in Subscribers :
    Cardinality(Held(s)) <= CallNumber[s] + Cardinality(Workers) - 1

\* A granted call is in the table, or the janitor has cleared it: the codec
\* keeps the cc_t alive exactly when cc_server_call_init took it.
GrantedIsHeld ==
  \A m \in Maxsecs : reply[m] = "granted" => InTable(m) \/ ccMem[m] = "freed"

\* A charge is made to the account of the call its CDR names, unless
\* cc_server_call_term had given the call a foreign term.
ChargeIsForOwnCall ==
  \A c \in charges : c.cdr = MaxUid[c.call] \/ c.call \in crossed

\* The term that arrived for a call: attached, with the call's own call_uid.
OwnTerm(m) == term[m] # NULL /\ TermUid[term[m]] = MaxUid[m]

\* The janitor clears a call only after its term or its timeout, unless
\* cc_server_call_term had given the call a foreign term.
ClearedForCause ==
  [][\A i \in Slots : cc[i] # NULL /\ cc'[i] # cc[i] =>
       OwnTerm(cc[i]) \/ cc[i] \in expired \/ cc[i] \in crossed]_cc

\* Every held call leaves the table: lost terms do not use it up.
SlotEventuallyReleased ==
  \A m \in Maxsecs : InTable(m) ~> ~InTable(m)

-----------------------------------------------------------------------------
(***************************************************************************)
(* What the documentation and the comments say, which the code breaks.     *)
(***************************************************************************)

\* rt_maxsec.c: a call is refused when "already at/over the allowed number of
\* concurrent calls", so no subscriber has more than call_number calls up.
LimitRespected ==
  \A s \in Subscribers : Cardinality(Held(s)) <= CallNumber[s]

\* doc/call_control.md: "the call is held in the in-memory call table until
\* `term'" (or until the documented timeout).
HeldUntilTerm ==
  [][\A i \in Slots : cc[i] # NULL /\ cc'[i] # cc[i] =>
       OwnTerm(cc[i]) \/ cc[i] \in expired]_cc

\* jsonrpc_cc.c: "same lifecycle as my_cc: a live (ACTIVE) maxsec stays in
\* cc_tbl": a cc_t that survives its request is in the table.
ActiveIsInTable ==
  \A m \in Maxsecs : reply[m] # "none" /\ ccMem[m] = "live" => InTable(m)

-----------------------------------------------------------------------------
(***************************************************************************)
(* The inductive invariant behind the safety properties.                   *)
(***************************************************************************)

\* What a worker works on: a maxsec until its answer, a term until its answer.
ServesMaxsec(w) == pc[w] \in {"decide", "insert", "maxack"}
ServesTerm(w)   == pc[w] \in {"term", "termack"}

WorkerInv ==
  /\ \A w \in Workers : ServesMaxsec(w) => req[w] \in Maxsecs /\ ccMem[req[w]] # "none"
  /\ \A w \in Workers : ServesTerm(w) => req[w] \in Terms /\ termMem[req[w]] # "none"
  /\ \A w, v \in Workers : pc[w] # "idle" /\ pc[v] # "idle" /\ req[w] = req[v] => w = v
  /\ \A w \in Workers : pc[w] = "term" => seen[w] \in Slots

\* A cc_t is in the table only after cc_server_call_init; the grants of the
\* codec and the table agree.
GrantInv ==
  /\ \A w \in Workers : pc[w] \in {"decide", "insert"} =>
       ccMem[req[w]] = "live" /\ ~InTable(req[w])
  /\ \A w \in Workers : pc[w] = "insert" =>
       maxsec[req[w]] = "granted" /\ seen[w] < CallNumber[Clg[MaxUid[req[w]]]]
  /\ \A w \in Workers :
       pc[w] = "maxack" /\ ccMem[req[w]] = "live" /\ maxsec[req[w]] = "granted" =>
         InTable(req[w])
  /\ GrantedIsHeld

\* Each pending grant is accounted for.
LimitInv ==
  \A s \in Subscribers :
    Cardinality(Held(s)) + Cardinality(InFlight(s)) <= CallNumber[s] + Cardinality(Workers) - 1

\* Who points to a term structure: one call of the table at most; the worker
\* that still has to run cc_server_call_term points to the slot of that call; a
\* refused term has no call; an uncrossed call has its own, allocated term.
TermHeld    == \A m \in Maxsecs : term[m] # NULL => InTable(m) /\ termMem[term[m]] # "none"
TermUnique  == \A m, n \in Maxsecs : term[m] # NULL /\ term[m] = term[n] => m = n
TermPending == \A w \in Workers, m \in Maxsecs :
                 pc[w] = "term" /\ term[m] = req[w] => cc[seen[w]] = m
TermRefused == \A w \in Workers, m \in Maxsecs :
                 pc[w] = "termack" /\ seen[w] < 0 => term[m] # req[w]
TermOwn     == \A m \in Maxsecs : term[m] # NULL /\ m \notin crossed =>
                 termMem[term[m]] = "live" /\ TermUid[term[m]] = MaxUid[m]

TermInv == TermHeld /\ TermUnique /\ TermPending /\ TermRefused /\ TermOwn

ChargeInv ==
  /\ \A m \in Maxsecs : cdrId[m] \in {NULL, MaxUid[m]} \/ m \in crossed
  /\ ChargeIsForOwnCall

IInv ==
  /\ TypeOK
  /\ WorkerInv
  /\ TableSound
  /\ JanitorSlotStable
  /\ GrantInv
  /\ LimitInv
  /\ TermInv
  /\ ChargeInv

==============================================================================
