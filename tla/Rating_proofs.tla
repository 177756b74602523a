---------------------------- MODULE Rating_proofs ----------------------------
(***************************************************************************)
(* Proofs about Rating, for any number of CDRs, accounts and workers.      *)
(*                                                                         *)
(* OneRowPerCall and ChargedOnce are not inductive: a rater that has       *)
(* stored the row of a call and not yet written the balance carries a      *)
(* charge with it, and every copy of a balance that some rater, or the     *)
(* racc_t of an online call, has read may be written back later.  The      *)
(* inductive invariant therefore says of all these copies what ChargedOnce *)
(* says of the balances, and that a call whose charge is still under way   *)
(* is in none of them.                                                     *)
(***************************************************************************)
EXTENDS Rating, FiniteSetTheorems, TLAPS

\* What the proofs need of the types; the sums of seconds are left open.
Shape ==
  /\ DOMAIN rows = Cdrs
  /\ amount \in [Accs -> Amounts]
  /\ work \in [Threads -> SUBSET Cdrs]
  /\ pc \in [Raters -> Pcs]
  /\ job \in [Raters -> Job]
  /\ \A r \in Raters : pc[r] # "idle" => job[r].cdr \in Cdrs
  /\ DOMAIN auth = Cdrs
  /\ \A c \in Cdrs : auth[c] # NULL => auth[c].bal \in Amounts /\ auth[c].balid \in BOOLEAN
  /\ lost \subseteq Cdrs

\* Rater r has stored the row of c and not yet charged it.
Pending(r, c) ==
  /\ pc[r] \in {"mark", "charge"}
  /\ job[r].cdr = c
  /\ job[r].rid = "id"
  /\ job[r].phase # "first"

\* The amount f of account a has no part of c, or just the price of c's row.
Clean(f, a, c) ==
  f[<<c, "main">>] # 0 =>
    /\ f[<<c, "main">>] = 1
    /\ Acc[c] = a
    /\ rows[c] # <<>>
    /\ \A r \in Raters : ~Pending(r, c)

\* Rows, charges and copies of balances, seen from call c.
CallSound(c) ==
  /\ rows[c] = <<>> \/ Len(rows[c]) = 1
  /\ \A r \in Raters : Pending(r, c) => rows[c] # <<>>
  /\ \A r, s \in Raters : Pending(r, c) /\ Pending(s, c) => r = s
  /\ \A a \in Accs : Clean(amount[a], a, c)
  /\ \A r \in Raters : pc[r] # "idle" => Clean(job[r].bal, Acc[job[r].cdr], c)
  /\ \A d \in Cdrs : auth[d] # NULL => Clean(auth[d].bal, Acc[d], c)

\* Only a rater with a rating id goes on to the balance, except after phase 1.
ChargeHasId ==
  \A r \in Raters : pc[r] = "charge" /\ job[r].phase # "first" => job[r].rid = "id"

\* The inductive invariant.
IInv ==
  /\ Shape
  /\ ChargeHasId
  /\ \A c \in Cdrs \ lost : CallSound(c)

-----------------------------------------------------------------------------
\* The empty amount is an amount, and NoJob is a job.
LEMMA NoJobFacts ==
  /\ Nothing \in Amounts
  /\ NoJob \in Job
  /\ \A c \in Cdrs : Nothing[<<c, "main">>] = 0
BY DEF Nothing, Amounts, Units, NoJob, Job

\* Adding a unit gives an amount that differs in that unit only.
LEMMA AddFacts ==
  ASSUME NEW f \in Amounts, NEW u \in Units
  PROVE  /\ Add(f, u) \in Amounts
         /\ f[u] = 0 => Add(f, u)[u] = 1
         /\ \A v \in Units : v # u => Add(f, u)[v] = f[v]
BY DEF Add, Amounts

\* Initially nothing is stored and nobody is at work.
LEMMA InitInv == Init => IInv
<1> SUFFICES ASSUME Init PROVE IInv
  OBVIOUS
<1>1. Shape
  BY NoJobFacts, CdrAssumption, NumberAssumption DEF Init, Shape, Pcs, Threads, Raters
<1>2. ChargeHasId
  BY DEF Init, ChargeHasId
<1>3. \A c \in Cdrs : CallSound(c)
  BY NoJobFacts DEF Init, CallSound, Pending, Clean
<1> QED
  BY <1>1, <1>2, <1>3 DEF IInv

\* The same, where rater r itself may be the one that is about to charge c.
CleanBut(f, a, c, r) ==
  f[<<c, "main">>] # 0 =>
    /\ f[<<c, "main">>] = 1
    /\ Acc[c] = a
    /\ rows[c] # <<>>
    /\ \A s \in Raters \ {r} : ~Pending(s, c)

\* Rater r, going to `to' with job j, carries the charge of c with it.
Carries(to, j, c) ==
  /\ to \in {"mark", "charge"}
  /\ j.cdr = c
  /\ j.rid = "id"
  /\ j.phase # "first"

\* A step of one rater preserves the invariant if it stores no second row, what it
\* carries and what it writes is clean but for its own charge, and a charge that
\* it still carries is in neither of them.
LEMMA RaterStep ==
  ASSUME IInv, NEW r \in Raters, NEW to \in Pcs, NEW j \in Job, NEW p,
         Goto(r, to, j, p),
         DOMAIN rows' = Cdrs, amount' \in [Accs -> Amounts], auth' = auth,
         lost \subseteq lost', lost' \subseteq Cdrs,
         work' \in [Threads -> SUBSET Cdrs],
         to # "idle" => j.cdr \in Cdrs,
         to = "charge" /\ j.phase # "first" => j.rid = "id",
         \A c \in Cdrs \ lost' :
           /\ rows'[c] = rows[c] \/ (rows[c] = <<>> /\ Len(rows'[c]) = 1 /\ rows'[c] # <<>>)
           /\ to # "idle" => CleanBut(j.bal, Acc[j.cdr], c, r)
           /\ \A a \in Accs : CleanBut(amount'[a], a, c, r)
           /\ Carries(to, j, c) => /\ Pending(r, c) \/ rows[c] = <<>>
                                   /\ rows'[c] # <<>>
                                   /\ j.bal[<<c, "main">>] = 0
                                   /\ \A a \in Accs : amount'[a][<<c, "main">>] = 0
  PROVE  IInv'
<1>1. /\ pc' = [pc EXCEPT ![r] = to]
      /\ job' = [job EXCEPT ![r] = IF to = "idle" THEN NoJob ELSE j]
  BY DEF Goto
<1>2. /\ pc \in [Raters -> Pcs]
      /\ job \in [Raters -> Job]
      /\ \A s \in Raters : pc[s] # "idle" => job[s].cdr \in Cdrs
  BY DEF IInv, Shape
<1>3. /\ pc'[r] = to
      /\ job'[r] = IF to = "idle" THEN NoJob ELSE j
      /\ \A s \in Raters : s # r => pc'[s] = pc[s] /\ job'[s] = job[s]
      /\ pc' \in [Raters -> Pcs]
      /\ job' \in [Raters -> Job]
  BY <1>1, <1>2, NoJobFacts
<1>4. Shape'
  BY <1>2, <1>3 DEF IInv, Shape
<1>5. ChargeHasId'
  BY <1>3 DEF IInv, ChargeHasId
<1>6. ASSUME NEW c \in Cdrs \ lost'
      PROVE  CallSound(c)'
  <2>1. CallSound(c)
    BY DEF IInv
  <2>2. \A s \in Raters : s # r => (Pending(s, c)' <=> Pending(s, c))
    BY <1>3 DEF Pending
  <2>3. Pending(r, c)' => Carries(to, j, c)
    BY <1>3 DEF Pending, Carries
  <2>4. rows'[c] = rows[c] \/ (rows[c] = <<>> /\ Len(rows'[c]) = 1 /\ rows'[c] # <<>>)
    OBVIOUS
  <2>5. /\ (rows[c] = <<>> \/ Len(rows[c]) = 1)'
        /\ \A s \in Raters : Pending(s, c)' => (rows[c] # <<>>)'
    BY <2>1, <2>2, <2>3, <2>4 DEF CallSound
  <2>6. \A s, q \in Raters : Pending(s, c)' /\ Pending(q, c)' => s = q
    BY <2>1, <2>2, <2>3 DEF CallSound
  <2>7. rows[c] # <<>> => rows'[c] # <<>>
    BY <2>4
  <2>8. \A a \in Accs : Clean(amount[a], a, c)'
    BY <2>2, <2>3, <2>7 DEF Clean, CleanBut
  <2>9. ASSUME NEW s \in Raters, (pc[s] # "idle")'
        PROVE  Clean(job[s].bal, Acc[job[s].cdr], c)'
    <3>1. CASE s = r
      <4>1. CleanBut(j.bal, Acc[j.cdr], c, r) /\ job'[s] = j
        BY <3>1, <1>3, <2>9
      <4> QED
        BY <4>1, <2>2, <2>3, <2>7 DEF Clean, CleanBut
    <3>2. CASE s # r
      <4>1. Clean(job[s].bal, Acc[job[s].cdr], c) /\ job'[s] = job[s]
        BY <3>2, <1>3, <2>9, <2>1 DEF CallSound
      <4> QED
        BY <4>1, <2>2, <2>3, <2>7 DEF Clean
    <3> QED
      BY <3>1, <3>2
  <2>10. \A d \in Cdrs : (auth[d] # NULL)' => Clean(auth[d].bal, Acc[d], c)'
    BY <2>1, <2>2, <2>3, <2>7 DEF CallSound, Clean
  <2> QED
    BY <2>5, <2>6, <2>8, <2>9, <2>10 DEF CallSound
<1> QED
  BY <1>4, <1>5, <1>6 DEF IInv

\* The same for a step that writes no table: the balance it carries was clean.
LEMMA RaterKeeps ==
  ASSUME IInv, NEW r \in Raters, NEW to \in Pcs, NEW j \in Job, NEW p,
         Goto(r, to, j, p),
         UNCHANGED <<rows, amount, auth>>,
         lost \subseteq lost', lost' \subseteq Cdrs,
         work' \in [Threads -> SUBSET Cdrs],
         to # "idle" => j.cdr \in Cdrs,
         to = "charge" /\ j.phase # "first" => j.rid = "id",
         to # "idle" => \A c \in Cdrs \ lost' : Clean(j.bal, Acc[j.cdr], c),
         \A c \in Cdrs \ lost' : Carries(to, j, c) => Pending(r, c)
  PROVE  IInv'
<1>1. ASSUME NEW c \in Cdrs \ lost'
      PROVE  /\ to # "idle" => CleanBut(j.bal, Acc[j.cdr], c, r)
             /\ \A a \in Accs : CleanBut(amount[a], a, c, r)
             /\ Carries(to, j, c) => /\ Pending(r, c)
                                     /\ rows[c] # <<>>
                                     /\ j.bal[<<c, "main">>] = 0
                                     /\ \A a \in Accs : amount[a][<<c, "main">>] = 0
  <2>1. CallSound(c)
    BY DEF IInv
  <2>2. to # "idle" => CleanBut(j.bal, Acc[j.cdr], c, r)
    BY DEF Clean, CleanBut
  <2>3. \A a \in Accs : CleanBut(amount[a], a, c, r)
    BY <2>1 DEF Clean, CleanBut, CallSound
  <2>4. Carries(to, j, c) => to # "idle" /\ Pending(r, c)
    BY DEF Carries
  <2> QED
    BY <2>1, <2>2, <2>3, <2>4 DEF Clean, CallSound
<1>2. DOMAIN rows' = Cdrs /\ amount' \in [Accs -> Amounts] /\ auth' = auth
  BY DEF IInv, Shape
<1>3. \A c \in Cdrs \ lost' :
        /\ rows'[c] = rows[c] \/ (rows[c] = <<>> /\ Len(rows'[c]) = 1 /\ rows'[c] # <<>>)
        /\ to # "idle" => CleanBut(j.bal, Acc[j.cdr], c, r)
        /\ \A a \in Accs : CleanBut(amount'[a], a, c, r)
        /\ Carries(to, j, c) => /\ Pending(r, c) \/ rows[c] = <<>>
                                /\ rows'[c] # <<>>
                                /\ j.bal[<<c, "main">>] = 0
                                /\ \A a \in Accs : amount'[a][<<c, "main">>] = 0
  BY <1>1
<1> QED
  BY <1>2, <1>3, RaterStep

\* rt_exec up to the first rt_rating_save, with a clean balance in hand.
LEMMA CalculateKeeps ==
  ASSUME IInv, NEW r \in Raters, NEW j \in Job, NEW p,
         Calculate(r, j, p),
         UNCHANGED <<rows, amount, auth, lost>>,
         work' \in [Threads -> SUBSET Cdrs],
         j.cdr \in Cdrs,
         \A c \in Cdrs \ lost : Clean(j.bal, Acc[j.cdr], c)
  PROVE  IInv'
<1> DEFINE jn == [j EXCEPT !.rid = "neg"]
           jf == [j EXCEPT !.phase = "first"]
<1>1. lost \subseteq Cdrs
  BY DEF IInv, Shape
<1>2. /\ jn \in Job /\ jn.cdr = j.cdr /\ jn.bal = j.bal /\ jn.rid = "neg"
      /\ jf \in Job /\ jf.cdr = j.cdr /\ jf.bal = j.bal
  BY DEF Job
<1>3. "mark" \in Pcs /\ "save" \in Pcs
  BY DEF Pcs
<1>4. CASE Goto(r, "mark", jn, p)
  <2>1. \A c : ~Carries("mark", jn, c)
    BY <1>2 DEF Carries
  <2> QED
    BY <1>4, <2>1, <1>1, <1>2, <1>3, RaterKeeps
<1>5. \A c, i : ~Carries("save", i, c)
  BY DEF Carries
<1>6. CASE Goto(r, "save", jf, FirstPhase(p))
  BY <1>6, <1>1, <1>2, <1>3, <1>5, RaterKeeps
<1>7. CASE Goto(r, "save", j, Priced(p))
  BY <1>7, <1>1, <1>3, <1>5, RaterKeeps
<1> QED
  BY <1>4, <1>6, <1>7 DEF Calculate

\* What a rater at work has in hand.
LEMMA InHand ==
  ASSUME IInv, NEW r \in Raters, pc[r] # "idle"
  PROVE  /\ job[r] \in Job
         /\ job[r].cdr \in Cdrs
         /\ \A c \in Cdrs \ lost : Clean(job[r].bal, Acc[job[r].cdr], c)
         /\ lost \subseteq Cdrs
         /\ work \in [Threads -> SUBSET Cdrs]
BY DEF IInv, Shape, CallSound

\* The workers and the janitor are raters.
LEMMA RaterFacts == Threads \subseteq Raters /\ Janitor \in Raters
BY NumberAssumption DEF Threads, Janitor, Raters

\* A step that only deals out work preserves the invariant.
LEMMA StillStep ==
  ASSUME IInv,
         UNCHANGED <<rows, amount, auth, pc, job, lost>>,
         work' \in [Threads -> SUBSET Cdrs]
  PROVE  IInv'
<1>1. Shape'
  BY DEF IInv, Shape
<1>2. ChargeHasId'
  BY DEF IInv, ChargeHasId
<1>3. ASSUME NEW c \in Cdrs \ lost'
      PROVE  CallSound(c)'
  <2>1. CallSound(c)
    BY DEF IInv
  <2> QED
    BY <2>1 DEF CallSound, Clean, Pending
<1> QED
  BY <1>1, <1>2, <1>3 DEF IInv

\* A CDR is stored.
LEMMA AddCdrInv == ASSUME IInv, NEW c \in Cdrs, AddCdr(c) PROVE IInv'
<1>1. work' \in [Threads -> SUBSET Cdrs]
  BY DEF IInv, Shape, AddCdr
<1> QED
  BY <1>1, StillStep DEF AddCdr

\* rt_loop deals out a batch.
LEMMA FetchInv == ASSUME IInv, Fetch PROVE IInv'
<1>1. Batch \subseteq Cdrs
  BY DEF Batch
<1>2. work' \in [Threads -> SUBSET Cdrs]
  BY <1>1 DEF Fetch
<1> QED
  BY <1>2, StillStep DEF Fetch, dbVars

\* maxsec copies a balance, or nothing, into the racc_t of the call.
LEMMA MaxsecInv == ASSUME IInv, NEW c \in Cdrs, Maxsec(c) PROVE IInv'
<1> USE CdrAssumption
<1>1. UNCHANGED <<rows, amount, work, pc, job, lost>>
  BY DEF Maxsec, dbVars
<1>2. PICK b : auth' = [auth EXCEPT ![c] = b] /\ b.balid \in BOOLEAN
               /\ (b.bal = amount[Acc[c]] \/ b.bal = Nothing)
  <2> DEFINE b1 == [balid |-> Acc[c] \in balrow, bal |-> amount[Acc[c]],
                    fsum |-> IF Limit > 0 THEN Sum(fbal) ELSE 0]
             b2 == [balid |-> FALSE, bal |-> Nothing, fsum |-> 0]
  <2>1. b1.balid \in BOOLEAN /\ b1.bal = amount[Acc[c]]
    OBVIOUS
  <2>2. b2.balid \in BOOLEAN /\ b2.bal = Nothing
    OBVIOUS
  <2>3. auth' = [auth EXCEPT ![c] = b1] \/ auth' = [auth EXCEPT ![c] = b2]
    BY DEF Maxsec
  <2> HIDE DEF b1, b2
  <2> QED
    BY <2>1, <2>2, <2>3
<1>3. DOMAIN auth = Cdrs /\ amount \in [Accs -> Amounts] /\ Acc[c] \in Accs
  BY DEF IInv, Shape
<1>4. /\ DOMAIN auth' = Cdrs
      /\ auth'[c] = b
      /\ \A d \in Cdrs : d # c => auth'[d] = auth[d]
  BY <1>2, <1>3
<1>5. b.bal \in Amounts
  BY <1>2, <1>3, NoJobFacts
<1>6. Shape'
  BY <1>1, <1>2, <1>4, <1>5 DEF IInv, Shape
<1>7. ChargeHasId'
  BY <1>1 DEF IInv, ChargeHasId
<1>8. ASSUME NEW e \in Cdrs \ lost'
      PROVE  CallSound(e)'
  <2>1. CallSound(e)
    BY <1>1 DEF IInv
  <2>2. \A r \in Raters : Pending(r, e)' <=> Pending(r, e)
    BY <1>1 DEF Pending
  <2>3. Clean(b.bal, Acc[c], e)
    <3>1. CASE b.bal = amount[Acc[c]]
      BY <3>1, <2>1, <1>3 DEF CallSound
    <3>2. CASE b.bal = Nothing
      BY <3>2, NoJobFacts DEF Clean
    <3> QED
      BY <3>1, <3>2, <1>2
  <2>4. ASSUME NEW d \in Cdrs, (auth[d] # NULL)'
        PROVE  Clean(auth[d].bal, Acc[d], e)'
    <3>1. CASE d = c
      BY <3>1, <1>1, <1>4, <2>2, <2>3 DEF Clean
    <3>2. CASE d # c
      BY <3>2, <1>1, <1>4, <2>1, <2>2, <2>4 DEF CallSound, Clean
    <3> QED
      BY <3>1, <3>2
  <2>5. /\ \A a \in Accs : Clean(amount[a], a, e)'
        /\ \A r \in Raters : (pc[r] # "idle")' => Clean(job[r].bal, Acc[job[r].cdr], e)'
    BY <1>1, <2>1, <2>2 DEF CallSound, Clean
  <2> QED
    BY <1>1, <2>1, <2>2, <2>4, <2>5 DEF CallSound
<1> QED
  BY <1>6, <1>7, <1>8 DEF IInv

\* The janitor takes the balance that maxsec left in the racc_t.
LEMMA TermInv == ASSUME IInv, NEW c \in Cdrs, Term(c) PROVE IInv'
<1> DEFINE j == [NoJob EXCEPT !.cdr = c, !.card = TRUE,
                              !.balid = auth[c].balid, !.bal = auth[c].bal]
<1>1. auth[c].bal \in Amounts /\ auth[c].balid \in BOOLEAN
  BY DEF IInv, Shape, Term
<1>2. j \in Job /\ j.cdr = c /\ j.bal = auth[c].bal
  BY <1>1 DEF NoJob, Job
<1>3. \A d \in Cdrs \ lost : Clean(j.bal, Acc[j.cdr], d)
  BY <1>2 DEF Term, IInv, CallSound
<1>4. \A d : ~Carries("prerate", j, d)
  BY DEF Carries
<1>5. Goto(Janitor, "prerate", j, [NoPre EXCEPT !.sec = Billsec[c], !.fsum = auth[c].fsum])
  BY DEF Term
<1>6. UNCHANGED <<rows, amount, auth, work, lost>>
  BY DEF Term
<1>7. work \in [Threads -> SUBSET Cdrs] /\ lost \subseteq Cdrs /\ "prerate" \in Pcs
  BY DEF IInv, Shape, Pcs
<1> HIDE DEF j
<1> QED
  BY <1>2, <1>3, <1>4, <1>5, <1>6, <1>7, RaterFacts, RaterKeeps

\* A worker takes its next CDR.
LEMMA RtMainInv == ASSUME IInv, NEW t \in Threads, RtMain(t) PROVE IInv'
<1>1. PICK c \in work[t] :
        /\ work' = [work EXCEPT ![t] = @ \ {c}]
        /\ \/ UNCHANGED <<pc, job, pre>>
           \/ Goto(t, "prerate", [[NoJob EXCEPT !.cdr = c] EXCEPT !.card = TRUE],
                   [NoPre EXCEPT !.sec = Billsec[c]])
           \/ Calculate(t, [NoJob EXCEPT !.cdr = c], [NoPre EXCEPT !.sec = Billsec[c]])
  BY DEF RtMain
<1>2. UNCHANGED <<rows, amount, auth, lost>>
  BY DEF RtMain, dbVars
<1>3. /\ work \in [Threads -> SUBSET Cdrs]
      /\ lost \subseteq Cdrs
      /\ "prerate" \in Pcs
      /\ t \in Raters
  BY RaterFacts DEF IInv, Shape, Pcs
<1>4. c \in Cdrs /\ work' \in [Threads -> SUBSET Cdrs]
  BY <1>1, <1>3
<1>5. CASE UNCHANGED <<pc, job, pre>>
  BY <1>5, <1>2, <1>4, StillStep
<1> DEFINE j == [NoJob EXCEPT !.cdr = c]
           k == [j EXCEPT !.card = TRUE]
<1>6. /\ j \in Job /\ j.cdr = c /\ j.bal = Nothing
      /\ k \in Job /\ k.cdr = c /\ k.bal = Nothing
  BY <1>4, NoJobFacts DEF NoJob, Job
<1>7. \A d \in Cdrs : Clean(Nothing, Acc[c], d)
  BY NoJobFacts DEF Clean
<1>8. \A d : ~Carries("prerate", k, d)
  BY DEF Carries
<1>9. CASE Goto(t, "prerate", k, [NoPre EXCEPT !.sec = Billsec[c]])
  <2> HIDE DEF j, k
  <2> QED
    BY <1>2, <1>3, <1>4, <1>6, <1>7, <1>8, <1>9, RaterKeeps
<1>10. CASE Calculate(t, j, [NoPre EXCEPT !.sec = Billsec[c]])
  <2> HIDE DEF j, k
  <2> QED
    BY <1>2, <1>3, <1>4, <1>6, <1>7, <1>10, CalculateKeeps
<1> QED
  BY <1>1, <1>5, <1>9, <1>10

\* The prerating takes the balance of the account, which is clean.
LEMMA PreRateInv == ASSUME IInv, NEW r \in Raters, PreRate(r) PROVE IInv'
<1> DEFINE c == job[r].cdr
           j == IF Acc[c] \in balrow
                THEN [job[r] EXCEPT !.balid = TRUE, !.bal = amount[Acc[c]]]
                ELSE job[r]
<1>1. UNCHANGED <<rows, amount, auth, lost, work>> /\ pc[r] # "idle"
  BY DEF PreRate, dbVars
<1>2. /\ job[r] \in Job /\ c \in Cdrs
      /\ \A d \in Cdrs \ lost : Clean(job[r].bal, Acc[c], d)
      /\ lost \subseteq Cdrs /\ work' \in [Threads -> SUBSET Cdrs]
  BY <1>1, InHand
<1>3. Acc[c] \in Accs /\ amount \in [Accs -> Amounts]
  BY <1>2, CdrAssumption DEF IInv, Shape
<1>4. j \in Job /\ j.cdr = c /\ (j.bal = job[r].bal \/ j.bal = amount[Acc[c]])
  BY <1>2, <1>3 DEF Job
<1>5. \A d \in Cdrs \ lost : Clean(amount[Acc[c]], Acc[c], d)
  BY <1>3 DEF IInv, CallSound
<1>6. \A d \in Cdrs \ lost : Clean(j.bal, Acc[j.cdr], d)
  BY <1>2, <1>4, <1>5
<1>7. Goto(r, "freesum", j, pre[r]) \/ Calculate(r, j, pre[r])
  BY DEF PreRate
<1>8. "freesum" \in Pcs /\ \A d : ~Carries("freesum", j, d)
  BY DEF Pcs, Carries
<1> HIDE DEF j, c
<1>9. CASE Goto(r, "freesum", j, pre[r])
  <2>1. j.cdr \in Cdrs
    BY <1>2, <1>4
  <2> QED
    BY <1>1, <1>2, <1>4, <1>6, <1>8, <1>9, <2>1, RaterKeeps
<1>10. CASE Calculate(r, j, pre[r])
  <2>1. j.cdr \in Cdrs
    BY <1>2, <1>4
  <2> QED
    BY <1>1, <1>2, <1>4, <1>6, <1>10, <2>1, CalculateKeeps
<1> QED
  BY <1>7, <1>9, <1>10

\* The prerating refuses.
LEMMA RefuseInv == ASSUME IInv, NEW r \in Raters, Refuse(r) PROVE IInv'
<1>1. /\ UNCHANGED <<rows, amount, auth, lost, work>>
      /\ pc[r] # "idle"
      /\ Calculate(r, job[r], pre[r])
  BY DEF Refuse, dbVars
<1> QED
  BY <1>1, InHand, CalculateKeeps

\* The free seconds are summed.
LEMMA FreeSumInv == ASSUME IInv, NEW r \in Raters, FreeSum(r) PROVE IInv'
<1>1. /\ UNCHANGED <<rows, amount, auth, lost, work>>
      /\ pc[r] # "idle"
      /\ Calculate(r, job[r], [pre[r] EXCEPT !.fsum = Sum(fbal)])
  BY DEF FreeSum, dbVars
<1> QED
  BY <1>1, InHand, CalculateKeeps

\* The end of rt_exec: a rater goes on to the balance with the charge it had.
LEMMA MarkInv == ASSUME IInv, NEW r \in Raters, Mark(r) PROVE IInv'
<1> DEFINE to == IF job[r].rid = "id" /\ job[r].card THEN "charge" ELSE "idle"
<1>1. /\ UNCHANGED <<rows, amount, auth, lost, work>>
      /\ pc[r] = "mark"
      /\ Goto(r, to, job[r], pre[r])
  BY DEF Mark
<1>2. \A d : Carries(to, job[r], d) => Pending(r, d)
  BY <1>1 DEF Carries, Pending
<1>3. to \in Pcs /\ (to = "charge" => job[r].rid = "id")
  BY DEF Pcs
<1> HIDE DEF to
<1> QED
  BY <1>1, <1>2, <1>3, InHand, RaterKeeps

\* The free seconds of the account are counted.
LEMMA FreeCountInv == ASSUME IInv, NEW r \in Raters, FreeCount(r) PROVE IInv'
<1>1. PICK p : Goto(r, "fbfind", job[r], p)
  BY DEF FreeCount
<1>2. UNCHANGED <<rows, amount, auth, lost, work>> /\ pc[r] # "idle"
  BY DEF FreeCount, dbVars
<1>3. "fbfind" \in Pcs /\ \A d : ~Carries("fbfind", job[r], d)
  BY DEF Pcs, Carries
<1> QED
  BY <1>1, <1>2, <1>3, InHand, RaterKeeps

\* The row of the free seconds is looked for.
LEMMA FreeFindInv == ASSUME IInv, NEW r \in Raters, FreeFind(r) PROVE IInv'
<1>1. PICK p : Goto(r, "fbstore", job[r], p)
  BY DEF FreeFind
<1>2. UNCHANGED <<rows, amount, auth, lost, work>> /\ pc[r] # "idle"
  BY DEF FreeFind, dbVars
<1>3. "fbstore" \in Pcs /\ \A d : ~Carries("fbstore", job[r], d)
  BY DEF Pcs, Carries
<1> QED
  BY <1>1, <1>2, <1>3, InHand, RaterKeeps

\* The row of the free seconds is created.
LEMMA FreeStoreInv == ASSUME IInv, NEW r \in Raters, FreeStore(r) PROVE IInv'
<1>1. PICK p : Goto(r, "fbsum", job[r], p)
  BY DEF FreeStore
<1>2. UNCHANGED <<rows, amount, auth, lost, work>> /\ pc[r] # "idle"
  BY DEF FreeStore
<1>3. "fbsum" \in Pcs /\ \A d : ~Carries("fbsum", job[r], d)
  BY DEF Pcs, Carries
<1> QED
  BY <1>1, <1>2, <1>3, InHand, RaterKeeps

\* The sum is read again, for phase 2 or for the end.
LEMMA FreeResumInv == ASSUME IInv, NEW r \in Raters, FreeResum(r) PROVE IInv'
<1> DEFINE j == [job[r] EXCEPT !.phase = "second"]
<1>1. (\E p : Goto(r, "save", j, p)) \/ (\E p : Goto(r, "idle", job[r], p))
  BY DEF FreeResum
<1>2. UNCHANGED <<rows, amount, auth, lost, work>> /\ pc[r] # "idle"
  BY DEF FreeResum, dbVars
<1>3. /\ "save" \in Pcs /\ \A d, k : ~Carries("save", k, d)
      /\ "idle" \in Pcs /\ \A d, k : ~Carries("idle", k, d)
  BY DEF Pcs, Carries
<1>4. j \in Job /\ j.cdr = job[r].cdr /\ j.bal = job[r].bal
  BY <1>2, InHand DEF Job
<1> HIDE DEF j
<1>5. ASSUME NEW p, Goto(r, "save", j, p) PROVE IInv'
  BY <1>2, <1>3, <1>4, <1>5, InHand, RaterKeeps
<1>6. ASSUME NEW p, Goto(r, "idle", job[r], p) PROVE IInv'
  BY <1>2, <1>3, <1>6, InHand, RaterKeeps
<1> QED
  BY <1>1, <1>5, <1>6

\* rt_rating_save stores a row only where there is none, so nobody carries or has
\* written a price of the call.
LEMMA SaveInv == ASSUME IInv, NEW r \in Raters, Save(r) PROVE IInv'
<1> DEFINE c == job[r].cdr
           to == AfterSave(r)
           jz == [job[r] EXCEPT !.rid = "zero"]
           ji == [job[r] EXCEPT !.rid = "id"]
<1>1. UNCHANGED <<amount, auth, lost, work>> /\ pc[r] = "save"
  BY DEF Save
<1>2. /\ job[r] \in Job /\ c \in Cdrs
      /\ \A d \in Cdrs \ lost : Clean(job[r].bal, Acc[c], d)
      /\ lost \subseteq Cdrs /\ work' \in [Threads -> SUBSET Cdrs]
  BY <1>1, InHand
<1>3. /\ jz \in Job /\ jz.cdr = c /\ jz.bal = job[r].bal /\ jz.rid = "zero"
      /\ ji \in Job /\ ji.cdr = c /\ ji.bal = job[r].bal /\ ji.rid = "id"
      /\ jz.phase = job[r].phase
  BY <1>2 DEF Job
<1>4. /\ to \in Pcs /\ (to = "charge" => job[r].phase = "first")
  BY DEF AfterSave, Pcs
<1>5. CASE rows' = rows /\ Goto(r, to, jz, pre[r])
  <2>1. \A d : ~Carries(to, jz, d)
    BY <1>3 DEF Carries
  <2> HIDE DEF c, to, jz
  <2> QED
    BY <1>1, <1>2, <1>3, <1>4, <1>5, <2>1, RaterKeeps
<1>6. CASE /\ rows[c] = <<>>
           /\ rows' = [rows EXCEPT ![c] = Append(@, NewRow(r))]
           /\ Goto(r, to, ji, pre[r])
  <2>1. DOMAIN rows = Cdrs /\ amount \in [Accs -> Amounts]
    BY DEF IInv, Shape
  <2>2. /\ DOMAIN rows' = Cdrs
        /\ rows'[c] = Append(<<>>, NewRow(r))
        /\ \A d \in Cdrs : d # c => rows'[d] = rows[d]
    BY <1>2, <1>6, <2>1
  <2>3. Len(rows'[c]) = 1 /\ rows'[c] # <<>>
    <3>1. <<>> \in Seq({NewRow(r)}) /\ NewRow(r) \in {NewRow(r)} /\ Len(<<>>) = 0
      OBVIOUS
    <3> QED
      BY <2>2, <3>1
  <2>4. ASSUME NEW d \in Cdrs \ lost'
        PROVE  /\ rows'[d] = rows[d] \/ (rows[d] = <<>> /\ Len(rows'[d]) = 1 /\ rows'[d] # <<>>)
               /\ CleanBut(ji.bal, Acc[ji.cdr], d, r)
               /\ \A a \in Accs : CleanBut(amount'[a], a, d, r)
               /\ Carries(to, ji, d) => /\ Pending(r, d) \/ rows[d] = <<>>
                                        /\ rows'[d] # <<>>
                                        /\ ji.bal[<<d, "main">>] = 0
                                        /\ \A a \in Accs : amount'[a][<<d, "main">>] = 0
    <3>1. CallSound(d) /\ Clean(ji.bal, Acc[ji.cdr], d) /\ amount' = amount
      BY <1>1, <1>2, <1>3 DEF IInv
    <3>2. \A a \in Accs : Clean(amount[a], a, d)
      BY <3>1 DEF CallSound
    <3>3. rows'[d] = rows[d] \/ (rows[d] = <<>> /\ Len(rows'[d]) = 1 /\ rows'[d] # <<>>)
      BY <1>6, <2>2, <2>3
    <3>4. Carries(to, ji, d) => d = c
      BY <1>3 DEF Carries
    <3>5. d = c => /\ ji.bal[<<d, "main">>] = 0
                   /\ \A a \in Accs : amount'[a][<<d, "main">>] = 0
      BY <1>6, <3>1, <3>2 DEF Clean
    <3> HIDE DEF c, to, ji
    <3>6. /\ CleanBut(ji.bal, Acc[ji.cdr], d, r)
          /\ \A a \in Accs : CleanBut(amount'[a], a, d, r)
      BY <3>1, <3>2 DEF Clean, CleanBut
    <3> QED
      BY <1>6, <2>3, <3>3, <3>4, <3>5, <3>6
  <2>5. to = "charge" /\ ji.phase # "first" => ji.rid = "id"
    BY <1>3
  <2>6. amount' \in [Accs -> Amounts] /\ auth' = auth /\ lost' = lost
    BY <1>1, <2>1
  <2> HIDE DEF c, to, ji
  <2> QED
    BY <1>2, <1>3, <1>4, <1>6, <2>2, <2>4, <2>5, <2>6, RaterStep
<1> QED
  BY <1>5, <1>6 DEF Save

\* A lost duplicate test may store a second row, of a call that is excepted.
LEMMA SaveLostInv == ASSUME IInv, NEW r \in Raters, SaveLost(r) PROVE IInv'
<1> DEFINE c == job[r].cdr
           to == AfterSave(r)
           ji == [job[r] EXCEPT !.rid = "id"]
<1>1. UNCHANGED <<amount, auth, work>> /\ pc[r] = "save" /\ lost' = lost \cup {c}
  BY DEF SaveLost
<1>2. /\ job[r] \in Job /\ c \in Cdrs
      /\ \A d \in Cdrs \ lost : Clean(job[r].bal, Acc[c], d)
      /\ lost \subseteq lost' /\ lost' \subseteq Cdrs
      /\ work' \in [Threads -> SUBSET Cdrs]
  BY <1>1, InHand
<1>3. ji \in Job /\ ji.cdr = c /\ ji.bal = job[r].bal /\ ji.phase = job[r].phase
  BY <1>2 DEF Job
<1>4. PICK j \in {job[r], ji} : Goto(r, to, j, pre[r])
  BY DEF SaveLost
<1>5. j \in Job /\ j.cdr = c /\ j.bal = job[r].bal /\ j.phase = job[r].phase
  BY <1>2, <1>3, <1>4
<1>6. to \in Pcs /\ (to = "charge" => job[r].phase = "first")
  BY DEF AfterSave, Pcs
<1>7. DOMAIN rows = Cdrs /\ amount \in [Accs -> Amounts]
  BY DEF IInv, Shape
<1>8. DOMAIN rows' = Cdrs /\ \A d \in Cdrs : d # c => rows'[d] = rows[d]
  BY <1>2, <1>7 DEF SaveLost
<1>9. ASSUME NEW d \in Cdrs \ lost'
      PROVE  /\ rows'[d] = rows[d]
             /\ CleanBut(j.bal, Acc[j.cdr], d, r)
             /\ \A a \in Accs : CleanBut(amount'[a], a, d, r)
             /\ ~Carries(to, j, d)
  <2>1. CallSound(d) /\ Clean(j.bal, Acc[j.cdr], d) /\ amount' = amount /\ d # c
    BY <1>1, <1>2, <1>5 DEF IInv
  <2>2. \A a \in Accs : Clean(amount[a], a, d)
    BY <2>1 DEF CallSound
  <2>3. ~Carries(to, j, d)
    BY <1>5, <2>1 DEF Carries
  <2> QED
    BY <1>8, <2>1, <2>2, <2>3 DEF Clean, CleanBut
<1>10. amount' \in [Accs -> Amounts] /\ auth' = auth
  BY <1>1, <1>7
<1> HIDE DEF c, to, ji
<1> QED
  BY <1>2, <1>4, <1>5, <1>6, <1>8, <1>9, <1>10, RaterStep

\* The unit that a rater charges is one of its own call.
LEMMA UnitFacts ==
  ASSUME NEW r \in Raters, job[r].cdr \in Cdrs
  PROVE  /\ Unit(r) \in Units
         /\ \A c \in Cdrs : <<c, "main">> \in Units
         /\ \A c \in Cdrs : Unit(r) = <<c, "main">> => c = job[r].cdr /\ job[r].phase # "first"
BY DEF Unit, Units

\* rt_balance_exec writes back the copy of the balance that the rater has, with its
\* own charge added: the copy had no part of it, because the charge was pending.
LEMMA BalanceExecInv == ASSUME IInv, NEW r \in Raters, BalanceExec(r) PROVE IInv'
<1> DEFINE c == job[r].cdr
           a == Acc[c]
           found == ~job[r].balid /\ a \in balrow
           base == IF found THEN amount[a] ELSE job[r].bal
           sum == Add(base, Unit(r))
           j == [job[r] EXCEPT !.bal = sum, !.balid = @ \/ found]
<1>1. /\ UNCHANGED <<rows, auth, lost, work>>
      /\ pc[r] = "charge"
      /\ amount' = [amount EXCEPT ![a] = sum]
      /\ Goto(r, AfterCharge, j, pre[r])
  BY DEF BalanceExec
<1>2. /\ job[r] \in Job /\ c \in Cdrs
      /\ \A d \in Cdrs \ lost : Clean(job[r].bal, a, d)
      /\ lost \subseteq Cdrs /\ work' \in [Threads -> SUBSET Cdrs]
  BY <1>1, InHand
<1>3. a \in Accs /\ amount \in [Accs -> Amounts] /\ DOMAIN rows = Cdrs
  BY <1>2, CdrAssumption DEF IInv, Shape
<1>4. /\ base \in Amounts
      /\ \A d \in Cdrs \ lost : Clean(base, a, d)
  BY <1>2, <1>3 DEF Job, IInv, CallSound
<1>5. /\ Unit(r) \in Units
      /\ \A d \in Cdrs : <<d, "main">> \in Units
      /\ \A d \in Cdrs : Unit(r) = <<d, "main">> => d = c /\ job[r].phase # "first"
  BY <1>2, UnitFacts
<1> HIDE DEF base
<1>6. /\ sum \in Amounts
      /\ base[Unit(r)] = 0 => sum[Unit(r)] = 1
      /\ \A v \in Units : v # Unit(r) => sum[v] = base[v]
  BY <1>4, <1>5, AddFacts
<1> HIDE DEF sum
<1>7. j \in Job /\ j.cdr = c /\ j.bal = sum
  BY <1>2, <1>6 DEF Job
<1>8. /\ AfterCharge \in Pcs
      /\ AfterCharge # "charge"
      /\ \A d : ~Carries(AfterCharge, j, d)
  BY DEF AfterCharge, Pcs, Carries
<1>9. ASSUME NEW d \in Cdrs \ lost
      PROVE  CleanBut(sum, a, d, r)
  <2>1. CallSound(d) /\ Clean(base, a, d)
    BY <1>4 DEF IInv
  <2>2. CASE Unit(r) # <<d, "main">>
    BY <2>1, <2>2, <1>5, <1>6 DEF Clean, CleanBut
  <2>3. CASE Unit(r) = <<d, "main">>
    <3>1. d = c /\ job[r].phase # "first"
      BY <2>3, <1>5
    <3>2. Pending(r, d)
      BY <3>1, <1>1 DEF IInv, ChargeHasId, Pending
    <3>3. base[<<d, "main">>] = 0
      BY <2>1, <3>2 DEF Clean
    <3>4. sum[<<d, "main">>] = 1
      BY <2>3, <3>3, <1>6
    <3>5. rows[d] # <<>> /\ \A s \in Raters \ {r} : ~Pending(s, d)
      BY <2>1, <3>2 DEF CallSound
    <3> QED
      BY <3>1, <3>4, <3>5 DEF CleanBut
  <2> QED
    BY <2>2, <2>3
<1>10. ASSUME NEW d \in Cdrs \ lost', NEW b \in Accs
       PROVE  CleanBut(amount'[b], b, d, r)
  <2>1. CASE b = a
    BY <2>1, <1>1, <1>3, <1>9
  <2>2. CASE b # a
    <3>1. Clean(amount[b], b, d) /\ amount'[b] = amount[b]
      BY <2>2, <1>1, <1>3 DEF IInv, CallSound
    <3> QED
      BY <3>1 DEF Clean, CleanBut
  <2> QED
    BY <2>1, <2>2
<1>11. /\ DOMAIN rows' = Cdrs /\ rows' = rows
       /\ amount' \in [Accs -> Amounts]
       /\ auth' = auth /\ lost' = lost
  BY <1>1, <1>3, <1>6
<1>12. \A d \in Cdrs \ lost' : CleanBut(j.bal, Acc[j.cdr], d, r)
  BY <1>7, <1>9, <1>11
<1>13. Goto(r, AfterCharge, j, pre[r])
  BY <1>1
<1>14. j \in Job /\ j.cdr \in Cdrs
  BY <1>2, <1>7
<1> HIDE DEF c, a, j
<1>15. \A d \in Cdrs \ lost' :
         /\ rows'[d] = rows[d] \/ (rows[d] = <<>> /\ Len(rows'[d]) = 1 /\ rows'[d] # <<>>)
         /\ AfterCharge # "idle" => CleanBut(j.bal, Acc[j.cdr], d, r)
         /\ \A b \in Accs : CleanBut(amount'[b], b, d, r)
         /\ ~Carries(AfterCharge, j, d)
  BY <1>8, <1>10, <1>11, <1>12
<1> QED
  BY <1>2, <1>8, <1>11, <1>13, <1>14, <1>15, RaterStep

\* The update is lost: the table keeps its amount, and the call is excepted.
LEMMA BalanceLostInv == ASSUME IInv, NEW r \in Raters, BalanceLost(r) PROVE IInv'
<1> DEFINE c == job[r].cdr
           sum == Add(job[r].bal, Unit(r))
           j == [job[r] EXCEPT !.bal = sum]
<1>1. /\ UNCHANGED <<rows, amount, auth, work>>
      /\ lost' = lost \cup {c}
      /\ pc[r] = "charge"
      /\ Goto(r, AfterCharge, j, pre[r])
  BY DEF BalanceLost, dbVars
<1>2. /\ job[r] \in Job /\ c \in Cdrs /\ job[r].bal \in Amounts
      /\ \A d \in Cdrs \ lost : Clean(job[r].bal, Acc[c], d)
      /\ lost \subseteq lost' /\ lost' \subseteq Cdrs
      /\ work' \in [Threads -> SUBSET Cdrs]
  BY <1>1, InHand DEF Job
<1>3. /\ Unit(r) \in Units
      /\ \A d \in Cdrs : <<d, "main">> \in Units
      /\ \A d \in Cdrs : Unit(r) = <<d, "main">> => d = c
  BY <1>2, UnitFacts
<1>4. sum \in Amounts /\ \A v \in Units : v # Unit(r) => sum[v] = job[r].bal[v]
  BY <1>2, <1>3, AddFacts
<1> HIDE DEF sum
<1>5. j \in Job /\ j.cdr = c /\ j.bal = sum
  BY <1>2, <1>4 DEF Job
<1>6. ASSUME NEW d \in Cdrs \ lost'
      PROVE  Clean(j.bal, Acc[j.cdr], d)
  <2>1. Clean(job[r].bal, Acc[c], d) /\ sum[<<d, "main">>] = job[r].bal[<<d, "main">>]
    BY <1>1, <1>2, <1>3, <1>4
  <2> QED
    BY <2>1, <1>5 DEF Clean
<1>7. /\ AfterCharge \in Pcs
      /\ AfterCharge # "charge"
      /\ \A d : ~Carries(AfterCharge, j, d)
  BY DEF AfterCharge, Pcs, Carries
<1> HIDE DEF c, j
<1> QED
  BY <1>1, <1>2, <1>5, <1>6, <1>7, RaterKeeps

\* A restart leaves the tables, and nobody at work.
LEMMA RestartInv == ASSUME IInv, Restart PROVE IInv'
<1>1. /\ UNCHANGED <<rows, amount, auth, lost>>
      /\ pc' = [r \in Raters |-> "idle"]
      /\ job' = [r \in Raters |-> NoJob]
      /\ work' = [t \in Threads |-> {}]
  BY DEF Restart, dbVars
<1>2. Shape'
  BY <1>1, NoJobFacts DEF IInv, Shape, Pcs
<1>3. ChargeHasId'
  BY <1>1 DEF ChargeHasId
<1>4. ASSUME NEW c \in Cdrs \ lost'
      PROVE  CallSound(c)'
  <2>1. CallSound(c)
    BY <1>1 DEF IInv
  <2>2. \A r \in Raters : ~Pending(r, c)'
    BY <1>1 DEF Pending
  <2>3. /\ \A a \in Accs : Clean(amount[a], a, c)'
        /\ \A d \in Cdrs : (auth[d] # NULL)' => Clean(auth[d].bal, Acc[d], c)'
    BY <1>1, <2>1, <2>2 DEF CallSound, Clean
  <2>4. \A r \in Raters : (pc[r] = "idle")'
    BY <1>1
  <2> QED
    BY <1>1, <2>1, <2>2, <2>3, <2>4 DEF CallSound
<1> QED
  BY <1>2, <1>3, <1>4 DEF IInv

\* Every step preserves the inductive invariant.
LEMMA NextInv == IInv /\ [Next]_vars => IInv'
<1> SUFFICES ASSUME IInv, [Next]_vars PROVE IInv'
  OBVIOUS
<1>1. ASSUME NEW c \in Cdrs, AddCdr(c) \/ Maxsec(c) \/ Term(c) PROVE IInv'
  BY <1>1, AddCdrInv, MaxsecInv, TermInv
<1>2. ASSUME NEW r \in Raters, Rate(r) PROVE IInv'
  <2>1. CASE PreRate(r) \/ Refuse(r) \/ FreeSum(r)
    BY <2>1, PreRateInv, RefuseInv, FreeSumInv
  <2>2. CASE Save(r) \/ SaveLost(r) \/ Mark(r)
    BY <2>2, SaveInv, SaveLostInv, MarkInv
  <2>3. CASE SaveNoCard(r)
    BY <2>3, RestartInv DEF SaveNoCard
  <2>4. CASE BalanceExec(r) \/ BalanceLost(r)
    BY <2>4, BalanceExecInv, BalanceLostInv
  <2>5. CASE FreeCount(r) \/ FreeFind(r) \/ FreeStore(r) \/ FreeResum(r)
    BY <2>5, FreeCountInv, FreeFindInv, FreeStoreInv, FreeResumInv
  <2> QED
    BY <1>2, <2>1, <2>2, <2>3, <2>4, <2>5 DEF Rate
<1>3. CASE Crash
  BY <1>3, RestartInv DEF Crash
<1>4. CASE UNCHANGED vars
  <2>1. UNCHANGED <<rows, amount, auth, pc, job, lost>> /\ work' = work
    BY <1>4 DEF vars
  <2>2. work' \in [Threads -> SUBSET Cdrs]
    BY <2>1 DEF IInv, Shape
  <2> QED
    BY <2>1, <2>2, StillStep
<1> QED
  BY <1>1, <1>2, <1>3, <1>4, FetchInv, RtMainInv DEF Next

-----------------------------------------------------------------------------
\* The inductive invariant holds in every state: raters and racc_t copies of a
\* balance agree with the rating rows, for every call that kept its connection.
THEOREM Invariance == SafeSpec => []IInv
BY InitInv, NextInv, PTL DEF SafeSpec

\* A call has at most one rating row, however many workers, and the janitor, rate
\* it and wherever the process dies: the duplicate test and the insert of
\* rt_data_q_rating_add_sql are one section under sync_bt_thread.
THEOREM OneRow == SafeSpec => []OneRowPerCall
<1>1. IInv => OneRowPerCall
  <2> SUFFICES ASSUME IInv, NEW c \in Cdrs \ lost PROVE Len(rows[c]) <= 1
    BY DEF OneRowPerCall
  <2>1. rows[c] = <<>> \/ Len(rows[c]) = 1
    BY DEF IInv, CallSound
  <2>2. CASE rows[c] = <<>>
    <3>1. Len(rows[c]) = Len(<<>>)
      BY <2>2, Zenon
    <3>2. Len(<<>>) = 0
      OBVIOUS
    <3> QED
      BY <3>1, <3>2
  <2>3. CASE Len(rows[c]) = 1
    BY <2>3
  <2> QED
    BY <2>1, <2>2, <2>3
<1> QED
  BY <1>1, Invariance, PTL

\* No balance contains the price of a call twice, nor that of a call of another
\* account or without a rating row: rt_balance_exec may write back a stale amount,
\* which loses charges, but never doubles one.
THEOREM NoDoubleCharge == SafeSpec => []ChargedOnce
<1>1. IInv => ChargedOnce
  BY DEF IInv, CallSound, Clean, ChargedOnce
<1> QED
  BY <1>1, Invariance, PTL

-----------------------------------------------------------------------------
(***************************************************************************)
(* The shares of the workers.                                              *)
(***************************************************************************)

\* The number of a batch's CDRs is a natural number, and so are the quotient
\* and the remainder of rt_loop.
LEMMA DealFacts ==
  ASSUME NEW n \in Nat
  PROVE  n \div NumThreads \in Nat /\ n % NumThreads \in Nat
BY NumberAssumption

\* Products grow with their first factor.
LEMMA ProductGrows ==
  ASSUME NEW a \in Nat, NEW b \in Nat, NEW k \in Nat, a <= b
  PROVE  a * k <= b * k
<1>1. PICK d \in Nat : b = a + d
  <2>1. b - a \in Nat /\ b = a + (b - a)
    OBVIOUS
  <2> QED
    BY <2>1
<1>2. b * k = a * k + d * k /\ a * k \in Nat /\ d * k \in Nat
  BY <1>1
<1> QED
  BY <1>2

\* The share of a worker ends before that of the next one begins.
LEMMA SharesApart ==
  ASSUME NEW n \in Nat, NEW t \in Threads, NEW u \in Threads, t < u
  PROVE  Share(t, n) \cap Share(u, n) = {}
<1> DEFINE per == n \div NumThreads
           rem == n % NumThreads
           Start(v) == v * per + (IF v < rem THEN v ELSE rem)
           Count(v) == per + (IF v < rem THEN 1 ELSE 0)
<1>1. per \in Nat /\ rem \in Nat
  BY DealFacts
<1>2. t \in Nat /\ u \in Nat /\ t + 1 \in Nat /\ t + 1 <= u
  BY NumberAssumption DEF Threads
<1>3. /\ Share(t, n) = Start(t) .. Start(t) + Count(t) - 1
      /\ Share(u, n) = Start(u) .. Start(u) + Count(u) - 1
  BY DEF Share
<1> HIDE DEF per, rem
<1>4. (t + 1) * per <= u * per
  BY <1>1, <1>2, ProductGrows
<1>5. (t + 1) * per = t * per + per /\ t * per \in Nat /\ u * per \in Nat
  BY <1>1, <1>2
<1>6. Start(t) + Count(t) <= Start(u)
  BY <1>1, <1>2, <1>4, <1>5
<1>7. Start(t) \in Nat /\ Count(t) \in Nat /\ Start(u) \in Nat /\ Count(u) \in Nat
  BY <1>1, <1>5, <1>2
<1> HIDE DEF Start, Count
<1> QED
  BY <1>3, <1>6, <1>7

\* What a worker still has to rate and what it is rating.
Held(t) == work[t] \cup {job[t].cdr}

\* A rater that is idle has no CDR.
SharesInv ==
  /\ \A r \in Raters : pc[r] = "idle" => job[r].cdr = NULL
  /\ SharesDisjoint

\* A step that gives no worker a CDR.
LEMMA NoneDealt ==
  ASSUME SharesInv,
         \A r \in Raters : pc'[r] = "idle" => job'[r].cdr = NULL,
         \A t \in Threads : work'[t] \cup {job'[t].cdr} \subseteq Held(t) \cup {NULL}
  PROVE  SharesInv'
<1> SUFFICES ASSUME NEW t \in Threads, NEW u \in Threads, t # u
             PROVE  (work'[t] \cup {job'[t].cdr}) \cap (work'[u] \cup {job'[u].cdr}) \subseteq {NULL}
  BY DEF SharesInv, SharesDisjoint
<1>1. Held(t) \cap Held(u) \subseteq {NULL}
  BY DEF SharesInv, SharesDisjoint, Held
<1> QED
  BY <1>1

\* A rater goes on with its CDR, or is done with it.
LEMMA SameCdr ==
  ASSUME IInv, SharesInv, NEW r \in Raters, NEW to, NEW j, NEW p, Goto(r, to, j, p),
         j.cdr = job[r].cdr, UNCHANGED work
  PROVE  SharesInv'
<1>1. pc \in [Raters -> Pcs] /\ job \in [Raters -> Job] /\ Threads \subseteq Raters
  BY RaterFacts DEF IInv, Shape
<1>2. /\ pc'[r] = to /\ \A s \in Raters \ {r} : pc'[s] = pc[s] /\ job'[s] = job[s]
      /\ job'[r] = IF to = "idle" THEN NoJob ELSE j
  BY <1>1 DEF Goto
<1>3. NoJob.cdr = NULL
  BY DEF NoJob
<1>4. \A s \in Raters : pc'[s] = "idle" => job'[s].cdr = NULL
  BY <1>2, <1>3 DEF SharesInv
<1>5. \A t \in Threads : work'[t] \cup {job'[t].cdr} \subseteq Held(t) \cup {NULL}
  BY <1>1, <1>2, <1>3 DEF Held
<1> QED
  BY <1>4, <1>5, NoneDealt

\* calc_cprice and the search for the rate keep the CDR.
LEMMA CalculateSame ==
  ASSUME NEW r, NEW j \in Job, NEW p, Calculate(r, j, p)
  PROVE  \E to \in {"mark", "save"}, k \in Job : \E q : Goto(r, to, k, q) /\ k.cdr = j.cdr
<1>1. /\ [j EXCEPT !.rid = "neg"] \in Job /\ [j EXCEPT !.rid = "neg"].cdr = j.cdr
      /\ [j EXCEPT !.phase = "first"] \in Job /\ [j EXCEPT !.phase = "first"].cdr = j.cdr
  BY DEF Job
<1> QED
  BY <1>1 DEF Calculate

\* The steps of a rater on its CDR.
LEMMA RateShares == ASSUME IInv, SharesInv, NEW r \in Raters, Rate(r), ~SaveNoCard(r), UNCHANGED work
                    PROVE  SharesInv'
<1>0. job[r] \in Job /\ job \in [Raters -> Job]
  BY DEF IInv, Shape
<1>1. ASSUME NEW j \in Job, NEW p, Calculate(r, j, p), j.cdr = job[r].cdr PROVE SharesInv'
  BY <1>1, CalculateSame, SameCdr
<1>2. CASE PreRate(r)
  <2> DEFINE jb == [job[r] EXCEPT !.balid = TRUE, !.bal = amount[Acc[job[r].cdr]]]
  <2>1. job[r].cdr \in Cdrs /\ amount[Acc[job[r].cdr]] \in Amounts
    BY <1>2, CdrAssumption DEF PreRate, IInv, Shape
  <2>2. jb \in Job /\ jb.cdr = job[r].cdr
    BY <1>0, <2>1 DEF Job
  <2>3. \E j \in {jb, job[r]} : Goto(r, "freesum", j, pre[r]) \/ Calculate(r, j, pre[r])
    BY <1>2 DEF PreRate
  <2> HIDE DEF jb
  <2> QED
    BY <1>0, <1>1, <2>2, <2>3, SameCdr
<1>3. CASE Refuse(r) \/ FreeSum(r)
  BY <1>0, <1>1, <1>3 DEF Refuse, FreeSum
<1>4. CASE Save(r) \/ SaveLost(r)
  <2>1. /\ [job[r] EXCEPT !.rid = "zero"].cdr = job[r].cdr
        /\ [job[r] EXCEPT !.rid = "id"].cdr = job[r].cdr
    BY <1>0 DEF Job
  <2>2. PICK j \in {job[r], [job[r] EXCEPT !.rid = "zero"], [job[r] EXCEPT !.rid = "id"]} :
          Goto(r, AfterSave(r), j, pre[r])
    BY <1>4 DEF Save, SaveLost
  <2> QED
    BY <2>1, <2>2, SameCdr
<1>5. CASE Mark(r)
  <2>1. PICK to : Goto(r, to, job[r], pre[r])
    BY <1>5 DEF Mark
  <2> QED
    BY <2>1, SameCdr
<1>6. CASE BalanceExec(r)
  <2> DEFINE a == Acc[job[r].cdr]
             found == ~job[r].balid /\ a \in balrow
             sum == Add(IF found THEN amount[a] ELSE job[r].bal, Unit(r))
             j == [job[r] EXCEPT !.bal = sum, !.balid = @ \/ found]
  <2>1. Goto(r, AfterCharge, j, pre[r])
    BY <1>6 DEF BalanceExec
  <2>2. j.cdr = job[r].cdr
    <3> HIDE DEF sum, found
    <3> QED
      BY <1>0 DEF Job
  <2> HIDE DEF j
  <2> QED
    BY <2>1, <2>2, SameCdr
<1>10. CASE BalanceLost(r)
  <2> DEFINE j == [job[r] EXCEPT !.bal = Add(@, Unit(r))]
  <2>1. Goto(r, AfterCharge, j, pre[r])
    BY <1>10 DEF BalanceLost
  <2>2. j.cdr = job[r].cdr
    BY <1>0 DEF Job
  <2> HIDE DEF j
  <2> QED
    BY <2>1, <2>2, SameCdr
<1>7. CASE FreeCount(r) \/ FreeFind(r) \/ FreeStore(r)
  <2>1. PICK to, p : Goto(r, to, job[r], p)
    BY <1>7 DEF FreeCount, FreeFind, FreeStore
  <2> QED
    BY <2>1, SameCdr
<1>8. CASE FreeResum(r)
  <2> DEFINE j == [job[r] EXCEPT !.phase = "second"]
             p == [pre[r] EXCEPT !.fsum = Sum(fbal)]
             q == Priced([p EXCEPT !.sec = p.rest])
  <2>1. Goto(r, "save", j, q) \/ Goto(r, "idle", job[r], p)
    BY <1>8 DEF FreeResum
  <2>2. j.cdr = job[r].cdr
    BY <1>0 DEF Job
  <2> HIDE DEF j, p, q
  <2>3. CASE Goto(r, "save", j, q)
    BY <2>3, <2>2, SameCdr
  <2>4. CASE Goto(r, "idle", job[r], p)
    BY <2>4, SameCdr
  <2> QED
    BY <2>1, <2>3, <2>4
<1> QED
  BY <1>2, <1>3, <1>4, <1>5, <1>6, <1>7, <1>8, <1>10 DEF Rate

\* A restart takes everybody's CDRs away.
LEMMA RestartShares == ASSUME SharesInv, Restart PROVE SharesInv'
<1>1. \A r \in Raters : job'[r].cdr = NULL
  BY DEF Restart, NoJob
<1>2. \A t \in Threads : work'[t] = {} /\ job'[t].cdr = NULL
  BY <1>1, RaterFacts DEF Restart
<1> QED
  BY <1>1, <1>2, NoneDealt

\* rt_loop deals out a batch: a CDR has one rank, and the ranks of two workers
\* are apart.
LEMMA FetchShares == ASSUME IInv, SharesInv, Fetch PROVE SharesInv'
<1> DEFINE n == Cardinality(Batch)
<1>1. n \in Nat
  <2>1. Batch \subseteq Cdrs
    BY DEF Batch
  <2>2. IsFiniteSet(Batch)
    BY <2>1, CdrAssumption, FS_Subset
  <2> QED
    BY <2>2, FS_CardinalityType
<1>2. UNCHANGED <<pc, job>>
  BY DEF Fetch
<1>3. \A t \in Threads : job[t].cdr = NULL
  BY RaterFacts DEF Fetch, SharesInv
<1>4. \A t \in Threads : work'[t] = {c \in Batch : Rank(c, Batch) \in Share(t, n)}
  BY DEF Fetch
<1> HIDE DEF n
<1>5. \A t, u \in Threads : t # u => work'[t] \cap work'[u] = {}
  <2> SUFFICES ASSUME NEW t \in Threads, NEW u \in Threads, t # u
               PROVE  work'[t] \cap work'[u] = {}
    OBVIOUS
  <2>1. t < u \/ u < t
    BY NumberAssumption DEF Threads
  <2>2. Share(t, n) \cap Share(u, n) = {}
    BY <1>1, <2>1, SharesApart
  <2> QED
    BY <1>4, <2>2
<1>6. \A t \in Threads : job'[t].cdr = NULL
  BY <1>2, <1>3
<1>7. SharesDisjoint'
  BY <1>5, <1>6 DEF SharesDisjoint
<1> QED
  BY <1>2, <1>7 DEF SharesInv

\* A worker takes a CDR of its share.
LEMMA RtMainShares == ASSUME IInv, SharesInv, NEW t \in Threads, RtMain(t) PROVE SharesInv'
<1>1. /\ pc \in [Raters -> Pcs] /\ job \in [Raters -> Job] /\ t \in Raters
      /\ Threads \subseteq Raters /\ work \in [Threads -> SUBSET Cdrs]
  BY RaterFacts DEF IInv, Shape
<1>2. PICK c \in work[t] :
        LET j == [NoJob EXCEPT !.cdr = c]
            p == [NoPre EXCEPT !.sec = Billsec[c]]
        IN /\ work' = [work EXCEPT ![t] = @ \ {c}]
           /\ \/ UNCHANGED <<pc, job, pre>>
              \/ Goto(t, "prerate", [j EXCEPT !.card = TRUE], p)
              \/ Calculate(t, j, p)
  BY DEF RtMain
<1> DEFINE j == [NoJob EXCEPT !.cdr = c]
           k == [j EXCEPT !.card = TRUE]
           p == [NoPre EXCEPT !.sec = Billsec[c]]
<1>3. c \in Cdrs
  BY <1>1
<1>4. Nothing \in Amounts
  BY DEF Nothing, Amounts
<1>5. j \in Job /\ j.cdr = c /\ k.cdr = c
  BY <1>3, <1>4 DEF Job, NoJob
<1>6. work' = [work EXCEPT ![t] = @ \ {c}]
  BY <1>2
<1>7. UNCHANGED <<pc, job>> \/ Goto(t, "prerate", k, p) \/ Calculate(t, j, p)
  BY <1>2
<1> HIDE DEF j, k, p
<1>8. \A u \in Threads : work'[u] \subseteq work[u]
  BY <1>1, <1>6
<1>9. CASE UNCHANGED <<pc, job>>
  <2>1. \A u \in Threads : work'[u] \cup {job'[u].cdr} \subseteq Held(u) \cup {NULL}
    BY <1>8, <1>9 DEF Held
  <2> QED
    BY <1>9, <2>1, NoneDealt DEF SharesInv
<1>10. ASSUME NEW to, to # "idle", NEW i, NEW q, Goto(t, to, i, q), i.cdr = c PROVE SharesInv'
  <2>1. /\ pc'[t] = to /\ \A s \in Raters \ {t} : pc'[s] = pc[s] /\ job'[s] = job[s]
        /\ job'[t] = i
    BY <1>1, <1>10 DEF Goto
  <2>2. \A s \in Raters : pc'[s] = "idle" => job'[s].cdr = NULL
    BY <1>10, <2>1 DEF SharesInv
  <2>3. \A u \in Threads : work'[u] \cup {job'[u].cdr} \subseteq Held(u) \cup {NULL}
    <3> SUFFICES ASSUME NEW u \in Threads
                 PROVE  work'[u] \cup {job'[u].cdr} \subseteq Held(u) \cup {NULL}
      OBVIOUS
    <3>1. CASE u = t
      BY <1>8, <1>10, <2>1, <3>1 DEF Held
    <3>2. CASE u # t
      BY <1>1, <1>8, <2>1, <3>2 DEF Held
    <3> QED
      BY <3>1, <3>2
  <2> QED
    BY <2>2, <2>3, NoneDealt
<1>11. CASE Goto(t, "prerate", k, p)
  BY <1>5, <1>10, <1>11
<1>12. CASE Calculate(t, j, p)
  <2>1. PICK to \in {"mark", "save"}, i \in Job : \E q : Goto(t, to, i, q) /\ i.cdr = j.cdr
    BY <1>5, <1>12, CalculateSame
  <2> QED
    BY <1>5, <1>10, <2>1
<1> QED
  BY <1>7, <1>9, <1>11, <1>12

\* The janitor is no worker: it rates the call whose term arrived.
LEMMA TermShares == ASSUME IInv, SharesInv, NEW c \in Cdrs, Term(c) PROVE SharesInv'
<1>1. /\ pc \in [Raters -> Pcs] /\ job \in [Raters -> Job] /\ Threads \subseteq Raters
      /\ Janitor \in Raters /\ Janitor \notin Threads
  BY RaterFacts, NumberAssumption DEF IInv, Shape, Janitor, Raters, Threads
<1>2. UNCHANGED work
  BY DEF Term
<1>3. /\ pc'[Janitor] # "idle"
      /\ \A s \in Raters \ {Janitor} : pc'[s] = pc[s] /\ job'[s] = job[s]
  BY <1>1 DEF Term, Goto
<1>4. \A s \in Raters : pc'[s] = "idle" => job'[s].cdr = NULL
  BY <1>3 DEF SharesInv
<1>5. \A u \in Threads : work'[u] \cup {job'[u].cdr} \subseteq Held(u) \cup {NULL}
  BY <1>1, <1>2, <1>3 DEF Held
<1> QED
  BY <1>4, <1>5, NoneDealt

\* Every step keeps the shares apart.
LEMMA StepShares == ASSUME IInv, SharesInv, [Next]_vars PROVE SharesInv'
<1>1. ASSUME UNCHANGED <<work, pc, job>> PROVE SharesInv'
  BY <1>1 DEF SharesInv, SharesDisjoint
<1>2. ASSUME NEW c \in Cdrs, AddCdr(c) \/ Maxsec(c) PROVE SharesInv'
  BY <1>1, <1>2 DEF AddCdr, Maxsec
<1>3. ASSUME NEW c \in Cdrs, Term(c) PROVE SharesInv'
  BY <1>3, TermShares
<1>4. CASE Fetch
  BY <1>4, FetchShares
<1>5. ASSUME NEW t \in Threads, RtMain(t) PROVE SharesInv'
  BY <1>5, RtMainShares
<1>6. ASSUME NEW r \in Raters, Rate(r) PROVE SharesInv'
  <2>1. CASE SaveNoCard(r)
    BY <2>1, RestartShares DEF SaveNoCard
  <2>2. CASE ~SaveNoCard(r)
    <3>1. UNCHANGED work
      BY <1>6, <2>2 DEF Rate, PreRate, Refuse, FreeSum, Save, SaveLost, Mark, BalanceExec,
                        BalanceLost, FreeCount, FreeFind, FreeStore, FreeResum
    <3> QED
      BY <1>6, <2>2, <3>1, RateShares
  <2> QED
    BY <2>1, <2>2
<1>7. CASE Crash
  BY <1>7, RestartShares DEF Crash
<1>8. CASE UNCHANGED vars
  BY <1>1, <1>8 DEF vars
<1> QED
  BY <1>2, <1>3, <1>4, <1>5, <1>6, <1>7, <1>8 DEF Next

\* Two workers of rt_loop never have the same CDR, to rate or being rated: what
\* rt_loop deals out (Share) does not overlap, for any number of threads, CDRs and
\* any batch limit, and a restart of the process leaves nobody a CDR.
THEOREM DisjointShares == SafeSpec => []SharesDisjoint
<1>1. Init => SharesInv
  <2> SUFFICES ASSUME Init PROVE SharesInv
    OBVIOUS
  <2>1. \A r \in Raters : job[r].cdr = NULL
    BY DEF Init, NoJob
  <2>2. \A t \in Threads : work[t] = {} /\ job[t].cdr = NULL
    BY <2>1, RaterFacts DEF Init
  <2> QED
    BY <2>1, <2>2 DEF SharesInv, SharesDisjoint
<1>2. SharesInv => SharesDisjoint
  BY DEF SharesInv
<1>3. IInv /\ SharesInv /\ [Next]_vars => SharesInv'
  BY StepShares
<1> QED
  BY <1>1, <1>2, <1>3, Invariance, PTL DEF SafeSpec

-----------------------------------------------------------------------------
(***************************************************************************)
(* The seconds of the rows.                                                *)
(***************************************************************************)

\* calc_cprice_2 never bills less than the seconds of the call.
LEMMA RoundUpGrows ==
  ASSUME NEW s \in Nat
  PROVE  RoundUp(s) \in Nat /\ RoundUp(s) >= s
<1> DEFINE n == s + Delta - 1
           q == n \div Delta
           m == n % Delta
<1>1. n \in Nat
  BY NumberAssumption
<1>2. q \in Nat /\ m \in 0 .. Delta - 1
  BY <1>1, NumberAssumption
<1>3. n = Delta * q + m
  BY <1>1, NumberAssumption
<1>4. q * Delta = Delta * q /\ q * Delta \in Nat
  BY <1>2, NumberAssumption
<1>5. RoundUp(s) = q * Delta
  BY DEF RoundUp
<1> HIDE DEF q, m
<1>6. q * Delta >= s
  BY <1>1, <1>2, <1>3, <1>4, NumberAssumption
<1> QED
  BY <1>4, <1>5, <1>6

\* The seconds of a call with one row are those of the row.
LEMMA OneRowSeconds ==
  ASSUME NEW c, NEW x, x.sec \in Int, rows[c] = <<x>>
  PROVE  Seconds(c) = x.sec
<1> DEFINE F(g) == [t \in SUBSET {1} |->
                      IF t = {} THEN 0
                      ELSE rows[c][CHOOSE i \in t : TRUE].sec + g[t \ {CHOOSE i \in t : TRUE}]]
           I == [t \in SUBSET {1} |-> IF t = {} THEN 0 ELSE x.sec]
           h == CHOOSE g : g = F(g)
<1>1. DOMAIN rows[c] = {1} /\ rows[c][1].sec = x.sec
  OBVIOUS
<1>2. \A t \in SUBSET {1} : t = {} \/ t = {1}
  OBVIOUS
<1>3. (CHOOSE i \in {1} : TRUE) = 1 /\ {1} \ {1} = {}
  OBVIOUS
<1>4. I = F(I)
  <2>1. ASSUME NEW t \in SUBSET {1}
        PROVE  I[t] = IF t = {} THEN 0
                      ELSE rows[c][CHOOSE i \in t : TRUE].sec + I[t \ {CHOOSE i \in t : TRUE}]
    <3>1. I[{}] = 0 /\ I[{1}] = x.sec
      OBVIOUS
    <3>2. CASE t = {}
      BY <3>1, <3>2
    <3>3. CASE t = {1}
      <4> HIDE DEF I
      <4> QED
        BY <1>1, <1>3, <3>1, <3>3
    <3> QED
      BY <1>2, <3>2, <3>3
  <2> QED
    BY <2>1
<1>5. h = F(h)
  <2> HIDE DEF F, I
  <2> QED
    BY <1>4
<1>6. h[{}] = 0 /\ h[{1}] = rows[c][CHOOSE i \in {1} : TRUE].sec + h[{1} \ {CHOOSE i \in {1} : TRUE}]
  <2> HIDE DEF h
  <2> QED
    BY <1>5
<1>7. h[{1}] = x.sec
  <2> HIDE DEF h, F
  <2>1. h[{1}] = rows[c][1].sec + h[{}]
    BY <1>3, <1>6
  <2> QED
    BY <1>1, <1>6, <2>1
<1>8. Seconds(c) = h[{1}]
  BY <1>1 DEF Seconds, MapThenSumSet, MapThenFoldSet
<1> QED
  BY <1>7, <1>8

\* The places of a rater that has stored a row of its call, or met one.
StoredPcs == {"mark", "charge", "fbcount", "fbfind", "fbstore", "fbsum"}

\* A rater that is about to store the paid rest of a split call has stored, or met,
\* a row as well.
Behind(to, j) == to \in StoredPcs \/ (to = "save" /\ j.phase = "second")

\* Seconds for the one row of c: all that the call has, or free ones.
GoodRow(c, sec, free) ==
  /\ free \/ (sec \in Int /\ sec >= Billsec[c])
  /\ free => Limit > 0

\* c has a rating row, or needs none here.
Has(c) == c \in lost \cup NoRate \/ rows[c] # <<>>

\* The row of c is a good one, and if the call is marked it has one.
Good(c) ==
  /\ rows[c] = <<>> \/ \E x : rows[c] = <<x>> /\ GoodRow(c, x.sec, x.free)
  /\ leg[c] \in {"rated", "done"} => rows[c] # <<>>

\* What a rater at work has in hand: all the seconds of the call before it is priced,
\* then what makes a good row.
GoodHand(to, j, p) ==
  /\ DOMAIN p = DOMAIN NoPre
  /\ to \in {"prerate", "freesum"} =>
       j.phase = "one" /\ p.sec \in Int /\ p.sec >= Billsec[j.cdr]
  /\ to = "save" /\ j.phase # "second" => GoodRow(j.cdr, p.sec, p.free)

\* The inductive invariant for the seconds.
BillInv ==
  /\ DOMAIN leg = Cdrs
  /\ DOMAIN pre = Raters
  /\ \A r \in Raters : GoodHand(pc[r], job[r], pre[r])
  /\ \A r \in Raters : Behind(pc[r], job[r]) => Has(job[r].cdr)
  /\ \A c \in Cdrs \ (lost \cup NoRate) : Good(c)

\* A step of one rater that stores good rows only and marks no call without one.
LEMMA BillStep ==
  ASSUME IInv, BillInv, NEW r \in Raters, NEW to, NEW j, NEW p,
         Goto(r, to, j, p), GoodHand(to, j, p), lost \subseteq lost',
         DOMAIN leg' = Cdrs,
         Behind(to, j) => j.cdr \in lost' \cup NoRate \/ rows'[j.cdr] # <<>>,
         \A c \in Cdrs \ (lost' \cup NoRate) :
           /\ rows[c] # <<>> => rows'[c] # <<>>
           /\ rows'[c] = rows[c] \/ \E x : rows'[c] = <<x>> /\ GoodRow(c, x.sec, x.free)
           /\ leg'[c] = leg[c] \/ leg'[c] \in {"absent", "todo"} \/ rows'[c] # <<>>
  PROVE  BillInv'
<1>1. /\ pc \in [Raters -> Pcs] /\ job \in [Raters -> Job] /\ DOMAIN pre = Raters
      /\ \A s \in Raters : pc[s] # "idle" => job[s].cdr \in Cdrs
  BY DEF IInv, Shape, BillInv
<1>2. /\ pc'[r] = to /\ job'[r] = (IF to = "idle" THEN NoJob ELSE j)
      /\ pre'[r] = IF to = "idle" THEN NoPre ELSE p
      /\ \A s \in Raters : s # r => pc'[s] = pc[s] /\ job'[s] = job[s] /\ pre'[s] = pre[s]
      /\ DOMAIN pre' = Raters
  BY <1>1 DEF Goto
<1>3. \A s \in Raters : GoodHand(pc[s], job[s], pre[s])'
  BY <1>2 DEF BillInv, GoodHand
<1>4. ASSUME NEW s \in Raters, Behind(pc'[s], job'[s]) PROVE Has(job[s].cdr)'
  <2>1. CASE s = r
    BY <1>2, <1>4, <2>1 DEF Behind, StoredPcs, Has
  <2>2. CASE s # r
    <3>1. Behind(pc[s], job[s]) /\ job'[s] = job[s]
      BY <1>2, <1>4, <2>2
    <3>2. pc[s] # "idle" /\ Has(job[s].cdr)
      BY <3>1 DEF BillInv, Behind, StoredPcs
    <3> QED
      BY <1>1, <3>1, <3>2 DEF Has
  <2> QED
    BY <2>1, <2>2
<1>5. ASSUME NEW c \in Cdrs \ (lost' \cup NoRate) PROVE Good(c)'
  <2>1. Good(c)
    BY DEF BillInv
  <2>2. rows'[c] = <<>> \/ \E x : rows'[c] = <<x>> /\ GoodRow(c, x.sec, x.free)
    BY <2>1 DEF Good
  <2>3. leg'[c] \in {"rated", "done"} => rows'[c] # <<>>
    BY <2>1 DEF Good
  <2> QED
    BY <2>2, <2>3 DEF Good, GoodRow
<1>6. \A s \in Raters : (Behind(pc[s], job[s]) => Has(job[s].cdr))'
  BY <1>4
<1> QED
  BY <1>2, <1>3, <1>5, <1>6 DEF BillInv

\* A step that touches no table.
LEMMA BillKeeps ==
  ASSUME IInv, BillInv, NEW r \in Raters, NEW to, NEW j, NEW p,
         Goto(r, to, j, p), GoodHand(to, j, p), UNCHANGED <<leg, rows>>, lost \subseteq lost',
         Behind(to, j) => j.cdr \in lost' \cup NoRate \/ rows[j.cdr] # <<>>
  PROVE  BillInv'
<1>1. DOMAIN leg' = Cdrs
  BY DEF BillInv
<1> QED
  BY <1>1, BillStep

\* A call is split only at free seconds of the tariff, and otherwise priced whole.
LEMMA CalculateBills ==
  ASSUME IInv, BillInv, NEW r \in Raters, NEW j \in Job, NEW p,
         Calculate(r, j, p), j.cdr \in Cdrs, j.phase = "one",
         DOMAIN p = DOMAIN NoPre, p.sec \in Int, p.sec >= Billsec[j.cdr],
         UNCHANGED <<leg, rows, lost>>
  PROVE  BillInv'
<1> DEFINE jn == [j EXCEPT !.rid = "neg"]
           jf == [j EXCEPT !.phase = "first"]
           pp == Priced(p)
           pf == FirstPhase(p)
<1>1. /\ jn.cdr = j.cdr /\ jn.phase = "one"
      /\ jf.cdr = j.cdr /\ jf.phase = "first"
  BY DEF Job
<1>2. Billsec[j.cdr] \in Nat /\ p.sec \in Nat
  <2>1. Billsec[j.cdr] \in Nat
    BY CdrAssumption
  <2> QED
    BY <2>1
<1>3. RoundUp(p.sec) \in Nat /\ RoundUp(p.sec) >= p.sec
  BY <1>2, RoundUpGrows
<1>4. DOMAIN NoPre = {"sec", "free", "fsum", "rest", "freeid", "fcount"}
  BY DEF NoPre
<1>5. /\ DOMAIN pp = DOMAIN NoPre /\ pp.sec = RoundUp(p.sec)
      /\ pp.free = Covered(RoundUp(p.sec), p.fsum)
  BY <1>4 DEF Priced
<1>6. DOMAIN pf = DOMAIN NoPre /\ pf.free = TRUE
  BY <1>4 DEF FirstPhase
<1>7. CASE j.cdr \in NoRate /\ Goto(r, "mark", jn, p)
  <2>1. GoodHand("mark", jn, p)
    BY DEF GoodHand
  <2> HIDE DEF jn
  <2> QED
    BY <1>1, <1>7, <2>1, BillKeeps
<1>8. CASE Splits(p) /\ Goto(r, "save", jf, pf)
  <2>1. Limit > 0
    BY <1>8, NumberAssumption DEF Splits, Left
  <2> HIDE DEF jf, pf
  <2>2. GoodHand("save", jf, pf) /\ ~Behind("save", jf)
    BY <1>1, <1>6, <2>1 DEF GoodHand, GoodRow, Behind, StoredPcs
  <2> QED
    BY <1>8, <2>2, BillKeeps
<1>9. CASE Goto(r, "save", j, pp)
  <2>1. Covered(RoundUp(p.sec), p.fsum) => Limit > 0
    BY <1>3, NumberAssumption DEF Covered, Left
  <2> HIDE DEF pp
  <2>2. pp.sec \in Int /\ pp.sec >= Billsec[j.cdr]
    BY <1>2, <1>3, <1>5
  <2>3. GoodHand("save", j, pp) /\ ~Behind("save", j)
    BY <1>5, <2>1, <2>2 DEF GoodHand, GoodRow, Behind, StoredPcs
  <2> QED
    BY <1>9, <2>3, BillKeeps
<1> QED
  BY <1>7, <1>8, <1>9 DEF Calculate

\* What a rater at work has in hand.
LEMMA BillHand ==
  ASSUME IInv, BillInv, NEW r \in Raters, pc[r] # "idle"
  PROVE  /\ job[r] \in Job /\ job[r].cdr \in Cdrs /\ DOMAIN pre[r] = DOMAIN NoPre
         /\ GoodHand(pc[r], job[r], pre[r])
         /\ Behind(pc[r], job[r]) => Has(job[r].cdr)
<1>1. job \in [Raters -> Job] /\ job[r].cdr \in Cdrs
  BY DEF IInv, Shape
<1>2. GoodHand(pc[r], job[r], pre[r]) /\ (Behind(pc[r], job[r]) => Has(job[r].cdr))
  BY DEF BillInv
<1> QED
  BY <1>1, <1>2 DEF GoodHand

\* The steps before the price.
LEMMA StartBills ==
  ASSUME IInv, BillInv, NEW r \in Raters, PreRate(r) \/ Refuse(r) \/ FreeSum(r)
  PROVE  BillInv'
<1>1. pc[r] \in {"prerate", "freesum"} /\ UNCHANGED <<leg, rows, lost>>
  BY DEF PreRate, Refuse, FreeSum, dbVars
<1>2. /\ job[r] \in Job /\ job[r].cdr \in Cdrs /\ job[r].phase = "one"
      /\ DOMAIN pre[r] = DOMAIN NoPre
      /\ pre[r].sec \in Int /\ pre[r].sec >= Billsec[job[r].cdr]
  BY <1>1, BillHand DEF GoodHand
<1> DEFINE jb == [job[r] EXCEPT !.balid = TRUE, !.bal = amount[Acc[job[r].cdr]]]
           ps == [pre[r] EXCEPT !.fsum = Sum(fbal)]
<1>3. amount[Acc[job[r].cdr]] \in Amounts
  BY <1>2, CdrAssumption DEF IInv, Shape
<1>4. jb \in Job /\ jb.cdr = job[r].cdr /\ jb.phase = "one"
  BY <1>2, <1>3 DEF Job
<1>5. DOMAIN ps = DOMAIN NoPre /\ ps.sec = pre[r].sec
  BY <1>2
<1>6. \/ \E j \in {jb, job[r]}, p \in {pre[r], ps} : Calculate(r, j, p)
      \/ \E j \in {jb, job[r]} : Goto(r, "freesum", j, pre[r])
  BY DEF PreRate, Refuse, FreeSum
<1> HIDE DEF jb, ps
<1>7. ASSUME NEW j \in {jb, job[r]}, NEW p \in {pre[r], ps}, Calculate(r, j, p) PROVE BillInv'
  BY <1>1, <1>2, <1>4, <1>5, <1>7, CalculateBills
<1>8. ASSUME NEW j \in {jb, job[r]}, Goto(r, "freesum", j, pre[r]) PROVE BillInv'
  <2>1. GoodHand("freesum", j, pre[r]) /\ ~Behind("freesum", j)
    BY <1>2, <1>4 DEF GoodHand, Behind, StoredPcs
  <2> QED
    BY <1>1, <1>8, <2>1, BillKeeps
<1> QED
  BY <1>6, <1>7, <1>8

\* A rater that has stored or met a row goes on with it.
LEMMA RestKeeps ==
  ASSUME IInv, BillInv, NEW r \in Raters, NEW to, NEW j, NEW p,
         Behind(pc[r], job[r]), Goto(r, to, j, p), DOMAIN p = DOMAIN NoPre, j.cdr = job[r].cdr,
         to \in StoredPcs \cup {"idle"} \/ (to = "save" /\ j.phase = "second"),
         UNCHANGED <<leg, rows>>, lost \subseteq lost'
  PROVE  BillInv'
<1>1. Has(job[r].cdr)
  BY DEF BillInv
<1>2. GoodHand(to, j, p)
  BY DEF GoodHand, StoredPcs
<1> QED
  BY <1>1, <1>2, BillKeeps DEF Has

\* rt_rating_save stores the seconds in hand, unless there is a row.
LEMMA SaveBills ==
  ASSUME IInv, BillInv, NEW r \in Raters, Save(r) \/ SaveLost(r)
  PROVE  BillInv'
<1> DEFINE c == job[r].cdr
           to == AfterSave(r)
           j0 == [job[r] EXCEPT !.rid = "zero"]
           j1 == [job[r] EXCEPT !.rid = "id"]
<1>1. /\ pc[r] = "save" /\ leg' = leg /\ lost \subseteq lost'
      /\ DOMAIN rows = Cdrs /\ DOMAIN leg = Cdrs
  BY DEF Save, SaveLost, IInv, Shape, BillInv
<1>2. /\ job[r] \in Job /\ c \in Cdrs /\ DOMAIN pre[r] = DOMAIN NoPre
      /\ job[r].phase # "second" => GoodRow(c, pre[r].sec, pre[r].free)
      /\ job[r].phase = "second" => Has(c)
  <2>1. GoodHand("save", job[r], pre[r]) /\ (Behind("save", job[r]) => Has(c))
    BY <1>1, BillHand
  <2> QED
    BY <1>1, <2>1, BillHand DEF GoodHand, Behind
<1>3. j0.cdr = c /\ j1.cdr = c
  BY <1>2 DEF Job
<1>4. to \in StoredPcs /\ to # "save" /\ \A j : GoodHand(to, j, pre[r])
  BY <1>2 DEF AfterSave, GoodHand, StoredPcs
<1> DEFINE x == NewRow(r)
<1>5. Append(<<>>, x) = <<x>> /\ <<x>> # <<>> /\ x.sec = pre[r].sec /\ x.free = pre[r].free
  BY DEF NewRow
<1> HIDE DEF j0, j1, to, x
<1>6. ASSUME rows' = rows, rows[c] # <<>> \/ c \in lost',
             NEW j \in {j0, j1, job[r]}, Goto(r, to, j, pre[r])
      PROVE  BillInv'
  BY <1>1, <1>3, <1>4, <1>6, BillKeeps
<1>7. ASSUME rows' = [rows EXCEPT ![c] = Append(@, x)], rows[c] = <<>> \/ c \in lost',
             Goto(r, to, j1, pre[r])
      PROVE  BillInv'
  <2>1. \A d \in Cdrs : d # c => rows'[d] = rows[d]
    BY <1>1, <1>7
  <2>2. c \notin lost' \cup NoRate => rows'[c] = <<x>> /\ GoodRow(c, x.sec, x.free)
    BY <1>1, <1>2, <1>5, <1>7 DEF Has
  <2>3. c \in lost' \cup NoRate \/ rows'[c] # <<>>
    BY <1>5, <2>2
  <2>4. \A d \in Cdrs \ lost' : rows[d] # <<>> => rows'[d] # <<>>
    BY <1>7, <2>1
  <2>5. \A d \in Cdrs \ (lost' \cup NoRate) :
          rows'[d] = rows[d] \/ \E y : rows'[d] = <<y>> /\ GoodRow(d, y.sec, y.free)
    BY <2>1, <2>2
  <2> QED
    BY <1>1, <1>3, <1>4, <1>7, <2>3, <2>4, <2>5, BillStep
<1>8. CASE Save(r)
  BY <1>6, <1>7, <1>8 DEF Save, j0, j1, to, x
<1>9. CASE SaveLost(r)
  BY <1>1, <1>6, <1>7, <1>9 DEF SaveLost, j1, to, x
<1> QED
  BY <1>8, <1>9

\* update_cdr marks a call that has a row, or needs none.
LEMMA MarkBills == ASSUME IInv, BillInv, NEW r \in Raters, Mark(r) PROVE BillInv'
<1>1. pc[r] = "mark" /\ UNCHANGED <<rows, lost>>
  BY DEF Mark
<1>2. /\ job[r] \in Job /\ job[r].cdr \in Cdrs /\ DOMAIN pre[r] = DOMAIN NoPre
      /\ Has(job[r].cdr)
  BY <1>1, BillHand DEF Behind, StoredPcs
<1>3. DOMAIN leg' = Cdrs /\ \A c \in Cdrs : c # job[r].cdr => leg'[c] = leg[c]
  BY <1>2 DEF Mark, BillInv
<1>4. PICK to \in {"charge", "idle"} : Goto(r, to, job[r], pre[r])
  BY DEF Mark
<1>5. GoodHand(to, job[r], pre[r])
  BY <1>2 DEF GoodHand
<1> QED
  BY <1>1, <1>2, <1>3, <1>4, <1>5, BillStep DEF Has

\* rt_balance_exec and free_billsec_exec; after them a split call goes on with its
\* paid rest.
LEMMA ChargeBills ==
  ASSUME IInv, BillInv, NEW r \in Raters,
         \/ BalanceExec(r) \/ BalanceLost(r)
         \/ FreeCount(r) \/ FreeFind(r) \/ FreeStore(r) \/ FreeResum(r)
  PROVE  BillInv'
<1>1. /\ pc[r] \in StoredPcs /\ UNCHANGED <<leg, rows>> /\ lost \subseteq lost'
  BY DEF BalanceExec, BalanceLost, FreeCount, FreeFind, FreeStore, FreeResum, dbVars, StoredPcs
<1>2. job[r] \in Job /\ DOMAIN pre[r] = DOMAIN NoPre /\ Behind(pc[r], job[r])
  BY <1>1, BillHand DEF StoredPcs, Behind
<1>3. ASSUME BalanceExec(r) \/ BalanceLost(r) PROVE BillInv'
  <2>1. AfterCharge \in StoredPcs \cup {"idle"}
    BY DEF AfterCharge, StoredPcs
  <2>2. \E b, i : \/ Goto(r, AfterCharge, [job[r] EXCEPT !.bal = b, !.balid = i], pre[r])
                 \/ Goto(r, AfterCharge, [job[r] EXCEPT !.bal = b], pre[r])
    BY <1>3 DEF BalanceExec, BalanceLost
  <2>3. \A b, i : /\ [job[r] EXCEPT !.bal = b, !.balid = i].cdr = job[r].cdr
                  /\ [job[r] EXCEPT !.bal = b].cdr = job[r].cdr
    BY <1>2 DEF Job
  <2> QED
    BY <1>1, <1>2, <2>1, <2>2, <2>3, RestKeeps
<1>4. ASSUME FreeCount(r) \/ FreeFind(r) \/ FreeStore(r) PROVE BillInv'
  <2> DEFINE n == MapThenSumSet(FreeSec, {d \in Cdrs : Acc[d] = Acc[job[r].cdr]})
             p1 == [pre[r] EXCEPT !.fcount = n]
             p2 == [pre[r] EXCEPT !.freeid = @ \/ Len(fbal) = 1]
             p3 == [pre[r] EXCEPT !.freeid = @ \/ Len(fbal') = 1]
  <2>1. DOMAIN p1 = DOMAIN NoPre /\ DOMAIN p2 = DOMAIN NoPre /\ DOMAIN p3 = DOMAIN NoPre
    BY <1>2
  <2>2. \/ Goto(r, "fbfind", job[r], p1) \/ Goto(r, "fbstore", job[r], p2)
        \/ Goto(r, "fbsum", job[r], p3)
    BY <1>4 DEF FreeCount, FreeFind, FreeStore
  <2> HIDE DEF p1, p2, p3
  <2>3. {"fbfind", "fbstore", "fbsum"} \subseteq StoredPcs
    BY DEF StoredPcs
  <2> QED
    BY <1>1, <1>2, <2>1, <2>2, <2>3, RestKeeps
<1>5. ASSUME FreeResum(r) PROVE BillInv'
  <2> DEFINE p == [pre[r] EXCEPT !.fsum = Sum(fbal)]
             j == [job[r] EXCEPT !.phase = "second"]
             q == Priced([p EXCEPT !.sec = p.rest])
  <2>1. DOMAIN p = DOMAIN NoPre
    BY <1>2
  <2>2. DOMAIN q = DOMAIN NoPre
    BY <2>1 DEF Priced
  <2>3. j.cdr = job[r].cdr /\ j.phase = "second"
    BY <1>2 DEF Job
  <2>4. Goto(r, "save", j, q) \/ Goto(r, "idle", job[r], p)
    BY <1>5 DEF FreeResum
  <2> HIDE DEF p, j, q
  <2>5. ASSUME Goto(r, "save", j, q) PROVE BillInv'
    BY <1>1, <1>2, <2>2, <2>3, <2>5, RestKeeps
  <2>6. ASSUME Goto(r, "idle", job[r], p) PROVE BillInv'
    BY <1>1, <1>2, <2>1, <2>6, RestKeeps
  <2> QED
    BY <2>4, <2>5, <2>6
<1> QED
  BY <1>3, <1>4, <1>5

\* The rating_t of a call that starts to be rated.
LEMMA FreshPre ==
  ASSUME NEW s, NEW f
  PROVE  /\ DOMAIN [NoPre EXCEPT !.sec = s] = DOMAIN NoPre
         /\ [NoPre EXCEPT !.sec = s].sec = s
         /\ DOMAIN [NoPre EXCEPT !.sec = s, !.fsum = f] = DOMAIN NoPre
         /\ [NoPre EXCEPT !.sec = s, !.fsum = f].sec = s
BY DEF NoPre

\* A worker takes a CDR with all its seconds.
LEMMA RtMainBills ==
  ASSUME IInv, BillInv, NEW t \in Threads, RtMain(t)
  PROVE  BillInv'
<1>1. t \in Raters /\ UNCHANGED <<leg, rows, lost>> /\ work \in [Threads -> SUBSET Cdrs]
  BY RaterFacts DEF RtMain, dbVars, IInv, Shape
<1>2. PICK c \in work[t] :
        LET j == [NoJob EXCEPT !.cdr = c]
            p == [NoPre EXCEPT !.sec = Billsec[c]]
        IN \/ UNCHANGED <<pc, job, pre>>
           \/ Goto(t, "prerate", [j EXCEPT !.card = TRUE], p)
           \/ Calculate(t, j, p)
  BY DEF RtMain
<1> DEFINE j == [NoJob EXCEPT !.cdr = c]
           k == [j EXCEPT !.card = TRUE]
           p == [NoPre EXCEPT !.sec = Billsec[c]]
<1>3. c \in Cdrs /\ Billsec[c] \in Nat
  BY <1>1, CdrAssumption
<1>4. /\ j \in Job /\ j.cdr = c /\ j.phase = "one"
      /\ k.cdr = c /\ k.phase = "one"
  BY <1>3, NoJobFacts DEF Job, NoJob
<1>5. DOMAIN p = DOMAIN NoPre /\ p.sec = Billsec[c]
  BY FreshPre
<1>6. UNCHANGED <<pc, job, pre>> \/ Goto(t, "prerate", k, p) \/ Calculate(t, j, p)
  BY <1>2
<1> HIDE DEF j, k, p
<1>7. CASE UNCHANGED <<pc, job, pre>>
  BY <1>1, <1>7 DEF BillInv, GoodHand, Has, Good
<1>8. CASE Goto(t, "prerate", k, p)
  <2>1. GoodHand("prerate", k, p) /\ ~Behind("prerate", k)
    BY <1>3, <1>4, <1>5 DEF GoodHand, Behind, StoredPcs
  <2> QED
    BY <1>1, <1>8, <2>1, BillKeeps
<1>9. CASE Calculate(t, j, p)
  BY <1>1, <1>3, <1>4, <1>5, <1>9, CalculateBills
<1> QED
  BY <1>6, <1>7, <1>8, <1>9

\* cc_call_rating starts with all the seconds of the call.
LEMMA TermBills == ASSUME IInv, BillInv, NEW c \in Cdrs, Term(c) PROVE BillInv'
<1> DEFINE j == [NoJob EXCEPT !.cdr = c, !.card = TRUE, !.balid = auth[c].balid, !.bal = auth[c].bal]
           p == [NoPre EXCEPT !.sec = Billsec[c], !.fsum = auth[c].fsum]
<1>1. /\ Goto(Janitor, "prerate", j, p) /\ Janitor \in Raters /\ UNCHANGED <<rows, lost>>
      /\ leg' = [leg EXCEPT ![c] = IF @ = "absent" THEN "todo" ELSE @]
  BY RaterFacts DEF Term
<1>2. j.cdr = c /\ j.phase = "one"
  BY DEF NoJob
<1>3. Billsec[c] \in Nat /\ DOMAIN leg = Cdrs
  BY CdrAssumption DEF BillInv
<1>4. DOMAIN p = DOMAIN NoPre /\ p.sec = Billsec[c]
  BY FreshPre
<1>5. DOMAIN leg' = Cdrs /\ \A d \in Cdrs : leg'[d] = leg[d] \/ leg'[d] = "todo"
  BY <1>1, <1>3
<1> HIDE DEF j, p
<1>6. GoodHand("prerate", j, p) /\ ~Behind("prerate", j)
  BY <1>2, <1>3, <1>4 DEF GoodHand, Behind, StoredPcs
<1> QED
  BY <1>1, <1>5, <1>6, BillStep

\* A step that leaves the raters alone and marks nothing.
LEMMA StillBills ==
  ASSUME BillInv, UNCHANGED <<rows, pc, job, pre, lost>>,
         DOMAIN leg' = Cdrs,
         \A c \in Cdrs : leg'[c] = leg[c] \/ leg'[c] = "todo"
  PROVE  BillInv'
<1>1. \A c \in Cdrs \ (lost' \cup NoRate) : Good(c)'
  BY DEF BillInv, Good, GoodRow
<1> QED
  BY <1>1 DEF BillInv, GoodHand, Has

\* After a restart nobody is at work.
LEMMA RestartBills == ASSUME BillInv, Restart PROVE BillInv'
<1>1. /\ UNCHANGED <<leg, rows, lost>> /\ DOMAIN pre' = Raters
      /\ \A r \in Raters : pc'[r] = "idle" /\ pre'[r] = NoPre
  BY DEF Restart, dbVars
<1>2. \A r \in Raters : GoodHand(pc[r], job[r], pre[r])' /\ ~Behind(pc'[r], job'[r])
  BY <1>1 DEF GoodHand, Behind, StoredPcs
<1>3. \A c \in Cdrs \ (lost' \cup NoRate) : Good(c)'
  BY <1>1 DEF BillInv, Good, GoodRow
<1>4. DOMAIN leg' = Cdrs
  BY <1>1 DEF BillInv
<1> QED
  BY <1>1, <1>2, <1>3, <1>4 DEF BillInv

\* Every step keeps the rows good.
LEMMA StepBills == ASSUME IInv, BillInv, [Next]_vars PROVE BillInv'
<1>1. DOMAIN leg = Cdrs
  BY DEF BillInv
<1>2. ASSUME NEW c \in Cdrs, AddCdr(c) PROVE BillInv'
  BY <1>1, <1>2, StillBills DEF AddCdr
<1>3. ASSUME NEW c \in Cdrs, Maxsec(c) PROVE BillInv'
  BY <1>1, <1>3, StillBills DEF Maxsec, dbVars
<1>4. ASSUME NEW c \in Cdrs, Term(c) PROVE BillInv'
  BY <1>4, TermBills
<1>5. CASE Fetch
  BY <1>1, <1>5, StillBills DEF Fetch, dbVars
<1>6. ASSUME NEW t \in Threads, RtMain(t) PROVE BillInv'
  BY <1>6, RtMainBills
<1>7. ASSUME NEW r \in Raters, Rate(r) PROVE BillInv'
  <2>1. CASE SaveNoCard(r)
    BY <2>1, RestartBills DEF SaveNoCard
  <2> QED
    BY <1>7, <2>1, StartBills, SaveBills, MarkBills, ChargeBills DEF Rate
<1>8. CASE Crash
  BY <1>8, RestartBills DEF Crash
<1>9. CASE UNCHANGED vars
  BY <1>1, <1>9, StillBills DEF vars
<1> QED
  BY <1>2, <1>3, <1>4, <1>5, <1>6, <1>7, <1>8, <1>9 DEF Next

\* The rows of a call are good ones always: for all its seconds, or free ones of the
\* tariff (rt_double_rating stores the free portion first, rt_exec marks after a row
\* is stored or met).
LEMMA BillInvariance == SafeSpec => []BillInv
<1>1. Init => BillInv
  BY DEF Init, BillInv, GoodHand, Behind, StoredPcs, Good
<1>2. IInv /\ BillInv /\ [Next]_vars => BillInv'
  BY StepBills
<1> QED
  BY <1>1, <1>2, Invariance, PTL DEF SafeSpec

\* Whatever threads, janitor and restarts meet, and wherever they split a call, one
\* that is marked and has a price has a rating row, and is billed for at least its
\* seconds unless it is billed for free ones only.
THEOREM BillsOrFree == SafeSpec => []BilledOrFree
<1>1. BillInv => BilledOrFree
  <2> SUFFICES ASSUME BillInv, NEW c \in Cdrs \ (lost \cup NoRate), leg[c] \in {"rated", "done"}
               PROVE  /\ rows[c] # <<>>
                      /\ Seconds(c) >= Billsec[c] \/ \A i \in DOMAIN rows[c] : rows[c][i].free
    BY DEF BilledOrFree
  <2>1. PICK x : rows[c] = <<x>> /\ GoodRow(c, x.sec, x.free)
    BY DEF BillInv, Good
  <2>2. CASE x.free
    BY <2>1, <2>2
  <2>3. CASE ~x.free
    BY <2>1, <2>3, OneRowSeconds DEF GoodRow
  <2> QED
    BY <2>1, <2>2, <2>3
<1> QED
  BY <1>1, BillInvariance, PTL

\* Under a tariff without free seconds there is nothing to split, and every marked
\* call that has a price is billed in full (calc_cprice_2 rounds up).
THEOREM FullBills == ASSUME Limit = 0 PROVE SafeSpec => []BilledInFull
<1>1. BillInv => BilledInFull
  <2> SUFFICES ASSUME BillInv, NEW c \in Cdrs \ (lost \cup NoRate), leg[c] \in {"rated", "done"}
               PROVE  Seconds(c) >= Billsec[c]
    BY DEF BilledInFull
  <2>1. PICK x : rows[c] = <<x>> /\ GoodRow(c, x.sec, x.free)
    BY DEF BillInv, Good
  <2> QED
    BY <2>1, OneRowSeconds DEF GoodRow
<1> QED
  BY <1>1, BillInvariance, PTL
==============================================================================
