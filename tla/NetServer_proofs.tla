-------------------------- MODULE NetServer_proofs --------------------------
(***************************************************************************)
(* What the worker pool of net/net.c guarantees for any number of workers, *)
(* connections and places in the queue: no wakeup is lost, every accepted  *)
(* connection is closed before the shutdown ends, and the server serves    *)
(* the connections in the order in which it accepted them.                 *)
(***************************************************************************)
EXTENDS NetServer, FiniteSetTheorems, SequenceTheorems, TLAPS

\* The ring holds accepted connections, and behind them the sentinels.
QueueInv ==
  /\ tail = (head + count) % QCap
  /\ \A k \in 1 .. count : Queue[k] \in accepted \cup {Sentinel}
  /\ \E n \in 0 .. count : \A k \in 1 .. count : Queue[k] # Sentinel <=> k <= n

\* The acceptor pushes an accepted connection, or sentinels once it has left
\* the loop.
AccInv ==
  /\ job = NULL <=> apc \notin {"push", "not_full"}
  /\ job \in Conns => job \in accepted /\ sent = 0
  /\ job = Sentinel => sent < NWorkers
  /\ apc = "accept" => sent = 0
  /\ sent = 0 => \A k \in 1 .. count : Queue[k] # Sentinel

\* A worker has a connection from its pop to its close, and one that had a
\* buffer exits on a sentinel, with nothing but sentinels behind it.
WorkerInv ==
  /\ \A w \in Workers :
       /\ fd[w] = NULL <=> wpc[w] \in {"init", "pop", "not_empty", "exit"}
       /\ fd[w] # NULL => fd[w] \in accepted
       /\ w \notin NoBuffer /\ wpc[w] = "exit" =>
            sent > 0 /\ \A k \in 1 .. count : Queue[k] = Sentinel
  /\ apc = "done" => \A w \in Workers : wpc[w] = "exit"

\* No accepted connection is lost.
Placed ==
  /\ closed \subseteq accepted
  /\ \A c \in accepted : \/ c \in closed \cup {job}
                         \/ \E w \in Workers : fd[w] = c
                         \/ \E k \in 1 .. count : Queue[k] = c

\* A connection that waits is nowhere else.
Apart ==
  /\ \A k \in 1 .. count : Queue[k] # Sentinel =>
       /\ Queue[k] \notin closed \cup {job}
       /\ \A w \in Workers : fd[w] # Queue[k]
       /\ \A j \in 1 .. count : Queue[j] = Queue[k] => j = k
  /\ job \in Conns => job \notin closed /\ \A w \in Workers : fd[w] # job

\* The inductive invariant.
IInv == TypeOK /\ QueueInv /\ AccInv /\ WorkerInv /\ Placed /\ Apart /\ NoLostWakeup

------------------------------------------------------------------------------
(* The ring *)

\* What the remainder is within two rounds of the ring.
LEMMA WrapIs == \A a \in 0 .. 2 * QCap - 1 : a % QCap = IF a < QCap THEN a ELSE a - QCap
<1>0. QCap \in Nat \ {0} BY ServerAssumption
<1> SUFFICES ASSUME NEW a \in 0 .. 2 * QCap - 1
             PROVE  a % QCap = IF a < QCap THEN a ELSE a - QCap
  OBVIOUS
<1>1. CASE a < QCap BY <1>0, <1>1
<1>2. CASE a >= QCap
  <2>1. a = QCap * 1 + (a - QCap) /\ a - QCap \in 0 .. QCap - 1 BY <1>0, <1>2
  <2> QED BY <1>0, <1>2, <2>1
<1> QED BY <1>0, <1>1, <1>2

\* A push leaves the queue as it is, with the job at its end.
LEMMA PushQueue ==
  ASSUME TypeOK, QueueInv, job # NULL, count < QCap, fds' = [fds EXCEPT ![tail] = job],
         tail' = (tail + 1) % QCap, count' = count + 1, head' = head
  PROVE /\ \A k \in 1 .. count : Queue'[k] = Queue[k]
        /\ Queue'[count + 1] = job
        /\ fds' \in [Index -> Job \cup {NULL}] /\ tail' \in Index
        /\ tail' = (head' + count') % QCap
<1> QCap \in Nat \ {0} /\ head \in 0 .. QCap - 1 /\ count \in 0 .. QCap - 1
    /\ fds \in [Index -> Job \cup {NULL}] /\ tail \in Index /\ job \in Job
  BY ServerAssumption DEF TypeOK, Index
<1>1. \A k \in 1 .. count + 1 :
        (head + k - 1) % QCap = IF head + k - 1 < QCap THEN head + k - 1 ELSE head + k - 1 - QCap
  <2> TAKE k \in 1 .. count + 1
  <2>1. head + k - 1 \in 0 .. 2 * QCap - 1 OBVIOUS
  <2> QED BY <2>1, WrapIs
<1>2. tail = IF head + count < QCap THEN head + count ELSE head + count - QCap
  <2>1. head + count \in 0 .. 2 * QCap - 1 OBVIOUS
  <2>2. (head + count) % QCap = IF head + count < QCap THEN head + count ELSE head + count - QCap
    BY <2>1, WrapIs
  <2> QED BY <2>2 DEF QueueInv
<1>3. \A k \in 1 .. count : (head + k - 1) % QCap # tail /\ (head + k - 1) % QCap \in Index
  BY <1>1, <1>2 DEF Index
<1>4. (head + count + 1 - 1) % QCap = tail BY DEF QueueInv
<1>5. \A k \in 1 .. count : Queue'[k] = Queue[k]
  <2> TAKE k \in 1 .. count
  <2>1. k \in 1 .. count' OBVIOUS
  <2>2. Queue'[k] = fds'[(head + k - 1) % QCap] BY <2>1 DEF Queue
  <2>3. Queue[k] = fds[(head + k - 1) % QCap] BY DEF Queue
  <2> QED BY <1>3, <2>2, <2>3
<1>6. Queue'[count + 1] = job
  <2>1. count + 1 \in 1 .. count' OBVIOUS
  <2>2. Queue'[count + 1] = fds'[(head + (count + 1) - 1) % QCap] BY <2>1 DEF Queue
  <2>3. head + (count + 1) - 1 = head + count OBVIOUS
  <2> QED BY <2>2, <2>3 DEF QueueInv
<1>7. tail' = (head' + count') % QCap /\ tail' \in Index
  <2>0. head + (count + 1) \in 0 .. 2 * QCap - 1 OBVIOUS
  <2>a. tail \in Int /\ tail + 1 \in 0 .. 2 * QCap - 1 BY DEF Index
  <2>1. (tail + 1) % QCap = IF tail + 1 < QCap THEN tail + 1 ELSE tail + 1 - QCap
    BY <2>a, WrapIs
  <2>2. (head + (count + 1)) % QCap
          = IF head + (count + 1) < QCap THEN head + (count + 1) ELSE head + (count + 1) - QCap
    BY <2>0, WrapIs
  <2>3. (tail + 1) % QCap = (head + (count + 1)) % QCap
    BY <1>2, <2>1, <2>2
  <2> QED BY <2>1, <2>3 DEF Index
<1> QED BY <1>5, <1>6, <1>7

\* A pop takes the first job of the queue, and the others move up.
LEMMA PopQueue ==
  ASSUME TypeOK, QueueInv, count > 0, head' = (head + 1) % QCap, count' = count - 1,
         UNCHANGED <<fds, tail>>
  PROVE /\ Queue[1] = fds[head]
        /\ \A k \in 1 .. count - 1 : Queue'[k] = Queue[k + 1]
        /\ head' \in Index /\ tail' = (head' + count') % QCap
<1> QCap \in Nat \ {0} /\ head \in 0 .. QCap - 1 /\ count \in 1 .. QCap
  BY ServerAssumption DEF TypeOK, Index
<1>0. head + 1 \in 0 .. 2 * QCap - 1 OBVIOUS
<1>1. (head + 1) % QCap = IF head + 1 < QCap THEN head + 1 ELSE head + 1 - QCap
  BY <1>0, WrapIs
<1>2. head' \in Index BY <1>1 DEF Index
<1>3. ASSUME NEW k \in 1 .. count PROVE (head' + k - 1) % QCap = (head + (k + 1) - 1) % QCap
  <2>0. head' + k - 1 \in 0 .. 2 * QCap - 1 BY <1>1
  <2>a. head + k \in 0 .. 2 * QCap - 1 OBVIOUS
  <2>1. (head' + k - 1) % QCap
          = IF head' + k - 1 < QCap THEN head' + k - 1 ELSE head' + k - 1 - QCap
    BY <2>0, WrapIs
  <2>2. (head + k) % QCap = IF head + k < QCap THEN head + k ELSE head + k - QCap
    BY <2>a, WrapIs
  <2>3. head + (k + 1) - 1 = head + k OBVIOUS
  <2> QED BY <1>1, <2>1, <2>2, <2>3
<1>4. Queue[1] = fds[head]
  <2>1. (head + 1 - 1) % QCap = head BY WrapIs
  <2> QED BY <2>1 DEF Queue
<1>5. \A k \in 1 .. count - 1 : Queue'[k] = Queue[k + 1]
  <2> TAKE k \in 1 .. count - 1
  <2>1. k \in 1 .. count' /\ k \in 1 .. count /\ k + 1 \in 1 .. count OBVIOUS
  <2>2. Queue'[k] = fds[(head' + k - 1) % QCap] BY <2>1 DEF Queue
  <2>3. Queue[k + 1] = fds[(head + (k + 1) - 1) % QCap] BY <2>1 DEF Queue
  <2> QED BY <1>3, <2>1, <2>2, <2>3
<1>6. tail' = (head' + count') % QCap
  <2>0. head' + (count - 1) \in 0 .. 2 * QCap - 1 BY <1>1
  <2>a. head + count \in 0 .. 2 * QCap - 1 OBVIOUS
  <2>1. (head + count) % QCap = IF head + count < QCap THEN head + count ELSE head + count - QCap
    BY <2>a, WrapIs
  <2>2. (head' + (count - 1)) % QCap
          = IF head' + (count - 1) < QCap THEN head' + (count - 1) ELSE head' + (count - 1) - QCap
    BY <2>0, WrapIs
  <2> QED BY <1>1, <2>1, <2>2 DEF QueueInv
<1> QED BY <1>2, <1>4, <1>5, <1>6

------------------------------------------------------------------------------
(* The runnable workers *)

\* The workers about to look at the queue.
Runnable == {w \in Workers : wpc[w] = "pop"}

\* There are finitely many.
LEMMA RunnableFinite == IsFiniteSet(Runnable) /\ Cardinality(Runnable) \in Nat
<1>1. Runnable \subseteq Workers /\ IsFiniteSet(Workers) BY ServerAssumption DEF Runnable
<1> QED BY <1>1, FS_Subset, FS_CardinalityType

\* How their number changes when a worker goes on.
LEMMA RunnableMoves ==
  ASSUME wpc \in [Workers -> WorkerPc], NEW w \in Workers, NEW p \in WorkerPc,
         wpc' = [wpc EXCEPT ![w] = p]
  PROVE /\ wpc[w] # "pop" /\ p = "pop" => Cardinality(Runnable)' = Cardinality(Runnable) + 1
        /\ wpc[w] = "pop" /\ p # "pop" => Cardinality(Runnable)' = Cardinality(Runnable) - 1
        /\ wpc[w] # "pop" /\ p # "pop" => Cardinality(Runnable)' = Cardinality(Runnable)
<1>1. CASE wpc[w] # "pop" /\ p = "pop"
  <2>1. Runnable' = Runnable \cup {w} /\ w \notin Runnable BY <1>1 DEF Runnable
  <2> QED BY <1>1, <2>1, RunnableFinite, FS_AddElement
<1>2. CASE wpc[w] = "pop" /\ p # "pop"
  <2>1. Runnable' = Runnable \ {w} /\ w \in Runnable BY <1>2 DEF Runnable
  <2> QED BY <1>2, <2>1, RunnableFinite, FS_RemoveElement
<1>3. CASE wpc[w] # "pop" /\ p # "pop"
  <2>1. Runnable' = Runnable BY <1>3 DEF Runnable
  <2> QED BY <1>3, <2>1
<1> QED BY <1>1, <1>2, <1>3

\* There is a worker at least.
LEMMA NWorkersIs == NWorkers \in Nat /\ NWorkers > 0
BY ServerAssumption, FS_CardinalityType, FS_EmptySet DEF NWorkers

------------------------------------------------------------------------------
(* The steps of the acceptor *)

\* net_server accepts a connection.
LEMMA StepAccept == ASSUME IInv, NEW c \in Conns, Accept(c) PROVE IInv'
<1>0. /\ UNCHANGED <<fds, head, tail, count, sent, wpc, fd, closed>> /\ apc = "accept"
      /\ c \notin accepted /\ accepted' = accepted \cup {c} /\ job' = c /\ apc' = "push"
  BY DEF Accept, ringVars
<1>1. Queue' = Queue BY <1>0 DEF Queue
<1>2. TypeOK' BY <1>0 DEF IInv, TypeOK, Job, AccPc
<1>3. QueueInv' BY <1>0, <1>1 DEF IInv, QueueInv
<1>4. AccInv' BY <1>0, <1>1, ServerAssumption DEF IInv, AccInv
<1>5. WorkerInv' BY <1>0, <1>1 DEF IInv, WorkerInv
<1>6. Placed' BY <1>0, <1>1, ServerAssumption DEF IInv, Placed, AccInv, TypeOK
<1>7. Apart'
  <2>1. \A k \in 1 .. count : Queue[k] # c
    BY <1>0, ServerAssumption DEF IInv, QueueInv
  <2>2. \A w \in Workers : fd[w] # c BY <1>0, ServerAssumption DEF IInv, WorkerInv
  <2>3. c \notin closed BY <1>0 DEF IInv, Placed
  <2> QED BY <1>0, <1>1, <2>1, <2>2, <2>3 DEF IInv, Apart
<1>8. NoLostWakeup' BY <1>0 DEF IInv, NoLostWakeup, Waiting
<1> QED BY <1>2, <1>3, <1>4, <1>5, <1>6, <1>7, <1>8 DEF IInv

\* accept fails.
LEMMA StepAcceptFail == ASSUME IInv, AcceptFail PROVE IInv'
<1>0. /\ UNCHANGED <<fds, head, tail, count, sent, accepted, wpc, fd, closed>> /\ apc = "accept"
      /\ job' = Sentinel /\ apc' = "push"
  BY DEF AcceptFail, ringVars
<1>1. Queue' = Queue BY <1>0 DEF Queue
<1>2. TypeOK' BY <1>0 DEF IInv, TypeOK, Job, AccPc
<1>3. QueueInv' BY <1>0, <1>1 DEF IInv, QueueInv
<1>4. AccInv' BY <1>0, <1>1, ServerAssumption, NWorkersIs DEF IInv, AccInv
<1>5. WorkerInv' BY <1>0, <1>1 DEF IInv, WorkerInv
<1>6. Placed' BY <1>0, <1>1, ServerAssumption DEF IInv, Placed, AccInv, TypeOK
<1>7. Apart' BY <1>0, <1>1, ServerAssumption DEF IInv, Apart
<1>8. NoLostWakeup' BY <1>0 DEF IInv, NoLostWakeup, Waiting
<1> QED BY <1>2, <1>3, <1>4, <1>5, <1>6, <1>7, <1>8 DEF IInv

\* The acceptor waits on a full queue.
LEMMA StepPushWait == ASSUME IInv, PushWait PROVE IInv'
<1>0. /\ UNCHANGED <<fds, head, tail, count, job, sent, accepted, wpc, fd, closed>>
      /\ apc = "push" /\ count = QCap /\ apc' = "not_full"
  BY DEF PushWait, ringVars
<1>1. Queue' = Queue BY <1>0 DEF Queue
<1>2. TypeOK' BY <1>0 DEF IInv, TypeOK, AccPc
<1>3. QueueInv' BY <1>0, <1>1 DEF IInv, QueueInv
<1>4. AccInv' BY <1>0, <1>1 DEF IInv, AccInv
<1>5. WorkerInv' BY <1>0, <1>1 DEF IInv, WorkerInv
<1>6. Placed' BY <1>0, <1>1 DEF IInv, Placed
<1>7. Apart' BY <1>0, <1>1 DEF IInv, Apart
<1>8. NoLostWakeup' BY <1>0 DEF IInv, NoLostWakeup, Waiting
<1> QED BY <1>2, <1>3, <1>4, <1>5, <1>6, <1>7, <1>8 DEF IInv

\* The workers have been joined.
LEMMA StepJoin == ASSUME IInv, Join PROVE IInv'
<1>0. /\ UNCHANGED <<fds, head, tail, count, job, sent, accepted, wpc, fd, closed>>
      /\ apc = "join" /\ apc' = "done" /\ \A w \in Workers : wpc[w] = "exit"
  BY DEF Join, ringVars
<1>1. Queue' = Queue BY <1>0 DEF Queue
<1>2. TypeOK' BY <1>0 DEF IInv, TypeOK, AccPc
<1>3. QueueInv' BY <1>0, <1>1 DEF IInv, QueueInv
<1>4. AccInv' BY <1>0, <1>1 DEF IInv, AccInv
<1>5. WorkerInv' BY <1>0, <1>1 DEF IInv, WorkerInv
<1>6. Placed' BY <1>0, <1>1 DEF IInv, Placed
<1>7. Apart' BY <1>0, <1>1 DEF IInv, Apart
<1>8. NoLostWakeup' BY <1>0 DEF IInv, NoLostWakeup, Waiting
<1> QED BY <1>2, <1>3, <1>4, <1>5, <1>6, <1>7, <1>8 DEF IInv

\* The signal of a push wakes at most one worker.
LEMMA Signalled ==
  ASSUME TypeOK, SignalNotEmpty
  PROVE /\ wpc' \in [Workers -> WorkerPc]
        /\ \A w \in Workers : wpc'[w] = wpc[w] \/ (wpc[w] = "not_empty" /\ wpc'[w] = "pop")
        /\ Waiting' # {} => Cardinality(Runnable)' = Cardinality(Runnable) + 1
<1>0. wpc \in [Workers -> WorkerPc] /\ "pop" \in WorkerPc BY DEF TypeOK, WorkerPc
<1>1. CASE Waiting = {} /\ UNCHANGED wpc BY <1>0, <1>1 DEF Waiting
<1>2. ASSUME NEW w \in Waiting, wpc' = [wpc EXCEPT ![w] = "pop"]
      PROVE /\ wpc' \in [Workers -> WorkerPc]
            /\ \A v \in Workers : wpc'[v] = wpc[v] \/ (wpc[v] = "not_empty" /\ wpc'[v] = "pop")
            /\ Cardinality(Runnable)' = Cardinality(Runnable) + 1
  <2>1. w \in Workers /\ wpc[w] = "not_empty" BY DEF Waiting
  <2> QED BY <1>0, <1>2, <2>1, RunnableMoves
<1> QED BY <1>1, <1>2 DEF SignalNotEmpty

\* A connection is queued and one waiting worker is woken.
LEMMA StepPush == ASSUME IInv, Push PROVE IInv'
<1>0. /\ UNCHANGED <<head, accepted, fd, closed>> /\ apc = "push" /\ count < QCap
      /\ fds' = [fds EXCEPT ![tail] = job] /\ tail' = (tail + 1) % QCap /\ count' = count + 1
      /\ TypeOK /\ QueueInv /\ job # NULL /\ count \in Nat
  BY ServerAssumption DEF IInv, Push, AccInv, TypeOK
<1>1. /\ \A k \in 1 .. count : Queue'[k] = Queue[k]
      /\ Queue'[count + 1] = job
      /\ fds' \in [Index -> Job \cup {NULL}] /\ tail' \in Index
      /\ tail' = (head' + count') % QCap
  BY <1>0, PushQueue
<1>2. /\ wpc' \in [Workers -> WorkerPc]
      /\ \A w \in Workers : wpc'[w] = wpc[w] \/ (wpc[w] = "not_empty" /\ wpc'[w] = "pop")
      /\ Waiting' # {} => Cardinality(Runnable)' = Cardinality(Runnable) + 1
  BY <1>0, Signalled DEF Push
<1>3. \A k \in 1 .. count' : k \in 1 .. count \/ k = count + 1 BY <1>0
<1>4. \/ /\ job = Sentinel /\ sent' = sent + 1 /\ sent' <= NWorkers
         /\ \/ job' = Sentinel /\ sent' < NWorkers /\ apc' = "push"
            \/ job' = NULL /\ apc' = "join"
      \/ job \in Conns /\ sent' = 0 /\ sent = 0 /\ job' = NULL /\ apc' = "accept"
  BY <1>0, NWorkersIs, ServerAssumption DEF IInv, AccInv, Push, AfterPush, TypeOK, Job
<1>5. TypeOK'
  BY <1>0, <1>1, <1>2, <1>4, NWorkersIs, ServerAssumption DEF TypeOK, Job, AccPc
<1>6. QueueInv'
  <2>1. \A k \in 1 .. count' : Queue'[k] \in accepted' \cup {Sentinel}
    BY <1>0, <1>1, <1>3, <1>4 DEF IInv, QueueInv, AccInv
  <2>2. CASE job = Sentinel
    <3>1. PICK n \in 0 .. count : \A k \in 1 .. count : Queue[k] # Sentinel <=> k <= n
      BY <1>0 DEF QueueInv
    <3>2. n \in 0 .. count' /\ \A k \in 1 .. count' : Queue'[k] # Sentinel <=> k <= n
      BY <1>0, <1>1, <1>3, <2>2, <3>1
    <3> QED BY <1>1, <2>1, <3>2 DEF QueueInv
  <2>3. CASE job \in Conns
    <3>1. \A k \in 1 .. count' : Queue'[k] # Sentinel
      BY <1>0, <1>1, <1>3, <2>3, ServerAssumption DEF IInv, AccInv
    <3>2. count' \in 0 .. count' /\ \A k \in 1 .. count' : Queue'[k] # Sentinel <=> k <= count'
      BY <1>0, <3>1
    <3> QED BY <1>1, <2>1, <3>2 DEF QueueInv
  <2> QED BY <1>4, <2>2, <2>3
<1>7. AccInv'
  <2>0. sent \in Nat /\ sent' \in Nat BY <1>0, <1>4 DEF TypeOK
  <2>1. sent' = 0 => \A k \in 1 .. count' : Queue'[k] # Sentinel
    BY <1>1, <1>3, <1>4, <2>0, ServerAssumption DEF IInv, AccInv
  <2> QED BY <1>4, <2>0, <2>1, ServerAssumption DEF AccInv
<1>8. WorkerInv'
  <2>0. sent \in Nat /\ sent' \in Nat BY <1>0, <1>4 DEF TypeOK
  <2>1. ASSUME NEW w \in Workers PROVE wpc'[w] = "exit" <=> wpc[w] = "exit" BY <1>2
  <2>2. ASSUME NEW w \in Workers, w \notin NoBuffer, wpc'[w] = "exit"
        PROVE sent' > 0 /\ \A k \in 1 .. count' : Queue'[k] = Sentinel
    <3>1. sent > 0 /\ \A k \in 1 .. count : Queue[k] = Sentinel
      BY <2>1, <2>2 DEF IInv, WorkerInv
    <3> QED BY <1>1, <1>3, <1>4, <2>0, <3>1
  <2>3. ASSUME NEW w \in Workers
        PROVE fd'[w] = NULL <=> wpc'[w] \in {"init", "pop", "not_empty", "exit"}
    BY <1>0, <1>2 DEF IInv, WorkerInv
  <2>4. ASSUME NEW w \in Workers, fd'[w] # NULL PROVE fd'[w] \in accepted'
    BY <1>0, <2>4 DEF IInv, WorkerInv
  <2>5. apc' # "done" BY <1>4
  <2> QED BY <2>2, <2>3, <2>4, <2>5 DEF WorkerInv
<1>9. Placed'
  <2>1. closed' \subseteq accepted' BY <1>0 DEF IInv, Placed
  <2>2. ASSUME NEW c \in accepted'
        PROVE \/ c \in closed' \cup {job'}
              \/ \E w \in Workers : fd'[w] = c
              \/ \E k \in 1 .. count' : Queue'[k] = c
    <3>1. CASE c = job
      <4>1. count + 1 \in 1 .. count' BY <1>0
      <4> QED BY <1>1, <3>1, <4>1
    <3>2. CASE c # job
      <4>1. \A k \in 1 .. count : k \in 1 .. count' BY <1>0
      <4> QED BY <1>0, <1>1, <3>2, <4>1 DEF IInv, Placed
    <3> QED BY <3>1, <3>2
  <2> QED BY <2>1, <2>2 DEF Placed
<1>10. Apart'
  <2>0. job' \notin Conns BY <1>4, ServerAssumption
  <2>1. ASSUME NEW k \in 1 .. count', Queue'[k] # Sentinel
        PROVE /\ Queue'[k] \notin closed' \cup {job'} /\ \A w \in Workers : fd'[w] # Queue'[k]
              /\ \A j \in 1 .. count' : Queue'[j] = Queue'[k] => j = k
    <3>0. Queue'[k] # job'
      <4>1. Queue'[k] \in accepted BY <1>0, <1>6, <2>1 DEF QueueInv
      <4> QED BY <1>0, <2>0, <4>1 DEF TypeOK
    <3>1. CASE k = count + 1
      <4>1. Queue'[k] = job /\ job \in Conns BY <1>1, <1>4, <2>1, <3>1
      <4>2. job \notin closed /\ \A w \in Workers : fd[w] # job BY <4>1 DEF IInv, Apart
      <4>3. \A j \in 1 .. count : Queue[j] # job
        BY <4>1, ServerAssumption DEF IInv, Apart
      <4> QED BY <1>0, <1>1, <1>3, <3>0, <3>1, <4>1, <4>2, <4>3
    <3>2. CASE k \in 1 .. count
      <4>1. Queue'[k] = Queue[k] BY <1>1, <3>2
      <4>2. /\ Queue[k] \notin closed \cup {job} /\ \A w \in Workers : fd[w] # Queue[k]
            /\ \A j \in 1 .. count : Queue[j] = Queue[k] => j = k
        BY <2>1, <3>2, <4>1 DEF IInv, Apart
      <4> QED BY <1>0, <1>1, <1>3, <3>0, <3>2, <4>1, <4>2
    <3> QED BY <1>3, <3>1, <3>2
  <2> QED BY <2>0, <2>1 DEF Apart
<1>11. NoLostWakeup'
  <2>1. Waiting' # {} => Waiting # {} BY <1>2 DEF Waiting
  <2>2. Waiting' # {} => Cardinality(Runnable)' >= count'
    BY <1>0, <1>2, <2>1, RunnableFinite DEF IInv, NoLostWakeup, Runnable
  <2> QED BY <1>4, <2>2 DEF NoLostWakeup, Runnable
<1> QED BY <1>5, <1>6, <1>7, <1>8, <1>9, <1>10, <1>11 DEF IInv

------------------------------------------------------------------------------
(* The steps of the workers *)

\* Where a worker has no connection.
Free == {"init", "pop", "not_empty", "exit"}

\* A worker goes on, with the connection it has or without one.
LEMMA StepPc ==
  ASSUME IInv, NEW w \in Workers, NEW p \in WorkerPc, wpc' = [wpc EXCEPT ![w] = p],
         UNCHANGED <<ringVars, accVars, fd, closed>>,
         p \in Free <=> wpc[w] \in Free, wpc[w] # "exit", p = "exit" => w \in NoBuffer,
         wpc[w] = "pop" \/ p = "not_empty" => count = 0
  PROVE IInv'
<1>0. /\ UNCHANGED <<fds, head, tail, count, apc, job, sent, accepted, fd, closed>> /\ count \in Nat
      /\ wpc \in [Workers -> WorkerPc]
  BY ServerAssumption DEF ringVars, accVars, IInv, TypeOK
<1>1. Queue' = Queue BY <1>0 DEF Queue
<1>2. TypeOK' BY <1>0 DEF IInv, TypeOK
<1>3. QueueInv' BY <1>0, <1>1 DEF IInv, QueueInv
<1>4. AccInv' BY <1>0, <1>1 DEF IInv, AccInv
<1>5. WorkerInv' BY <1>0, <1>1 DEF IInv, WorkerInv, Free
<1>6. Placed' BY <1>0, <1>1 DEF IInv, Placed
<1>7. Apart' BY <1>0, <1>1 DEF IInv, Apart
<1>8. NoLostWakeup'
  <2>0. Cardinality(Runnable)' \in Nat
    <3>1. Runnable' \subseteq Workers /\ IsFiniteSet(Workers) BY ServerAssumption DEF Runnable
    <3> QED BY <3>1, FS_Subset, FS_CardinalityType
  <2>1. CASE count = 0 BY <1>0, <2>0, <2>1 DEF IInv, NoLostWakeup, Runnable
  <2>2. CASE count # 0
    <3>1. wpc[w] # "pop" /\ p # "not_empty" BY <2>2
    <3>2. Cardinality(Runnable)' \in {Cardinality(Runnable), Cardinality(Runnable) + 1}
      <4>1. CASE p = "pop" BY <1>0, <3>1, <4>1, RunnableMoves
      <4>2. CASE p # "pop" BY <1>0, <3>1, <4>2, RunnableMoves
      <4> QED BY <4>1, <4>2
    <3>3. Waiting' \subseteq Waiting BY <1>0, <3>1 DEF Waiting
    <3> QED BY <1>0, <3>2, <3>3, RunnableFinite DEF IInv, NoLostWakeup, Runnable
  <2> QED BY <2>1, <2>2
<1> QED BY <1>2, <1>3, <1>4, <1>5, <1>6, <1>7, <1>8 DEF IInv

\* The worker begins, waits for a job, receives, handles, or is woken for nothing.
LEMMA StepWorkerInit == ASSUME IInv, NEW w \in Workers, WorkerInit(w) PROVE IInv'
<1>1. PICK p \in {"exit", "pop"} :
        wpc' = [wpc EXCEPT ![w] = p] /\ (p = "exit" => w \in NoBuffer)
  BY DEF WorkerInit
<1>2. p \in WorkerPc /\ p \in Free /\ "init" \in Free BY DEF WorkerPc, Free
<1> QED BY <1>1, <1>2, StepPc DEF WorkerInit

\* A worker waits on the empty queue.
LEMMA StepPopWait == ASSUME IInv, NEW w \in Workers, PopWait(w) PROVE IInv'
<1>1. "not_empty" \in WorkerPc /\ "not_empty" \in Free /\ "pop" \in Free BY DEF WorkerPc, Free
<1> QED BY <1>1, StepPc DEF PopWait

\* A worker receives.
LEMMA StepRecv == ASSUME IInv, NEW w \in Workers, Recv(w) PROVE IInv'
<1>1. PICK p \in {"handle", "close"} : wpc' = [wpc EXCEPT ![w] = p] BY DEF Recv
<1>2. p \in WorkerPc /\ p \notin Free /\ "recv" \notin Free BY DEF WorkerPc, Free
<1> QED BY <1>1, <1>2, StepPc DEF Recv

\* A worker answers.
LEMMA StepHandle == ASSUME IInv, NEW w \in Workers, Handle(w) PROVE IInv'
<1>1. "close" \in WorkerPc /\ "close" \notin Free /\ "handle" \notin Free BY DEF WorkerPc, Free
<1> QED BY <1>1, StepPc DEF Handle

\* A wait returns without a signal.
LEMMA StepSpurious == ASSUME IInv, SpuriousWakeup PROVE IInv'
<1>1. ASSUME NEW w \in Waiting, wpc' = [wpc EXCEPT ![w] = "pop"],
             UNCHANGED <<ringVars, accVars, fd, closed>>
      PROVE IInv'
  <2>1. w \in Workers /\ wpc[w] = "not_empty" BY DEF Waiting
  <2>2. "pop" \in WorkerPc /\ "pop" \in Free /\ "not_empty" \in Free BY DEF WorkerPc, Free
  <2> QED BY <1>1, <2>1, <2>2, StepPc
<1>2. CASE /\ apc = "not_full" /\ apc' = "push"
           /\ UNCHANGED <<ringVars, job, sent, accepted, wpc, fd, closed>>
  <2>0. UNCHANGED <<fds, head, tail, count, job, sent, accepted, wpc, fd, closed>>
    BY <1>2 DEF ringVars
  <2>1. Queue' = Queue BY <2>0 DEF Queue
  <2>2. TypeOK' BY <1>2, <2>0 DEF IInv, TypeOK, AccPc
  <2>3. QueueInv' BY <2>0, <2>1 DEF IInv, QueueInv
  <2>4. AccInv' BY <1>2, <2>0, <2>1 DEF IInv, AccInv
  <2>5. WorkerInv' BY <1>2, <2>0, <2>1 DEF IInv, WorkerInv
  <2>6. Placed' BY <2>0, <2>1 DEF IInv, Placed
  <2>7. Apart' BY <2>0, <2>1 DEF IInv, Apart
  <2>8. NoLostWakeup' BY <1>2, <2>0 DEF IInv, NoLostWakeup, Waiting
  <2> QED BY <2>2, <2>3, <2>4, <2>5, <2>6, <2>7, <2>8 DEF IInv
<1> QED BY <1>1, <1>2 DEF SpuriousWakeup

\* The worker closes its connection.
LEMMA StepClose == ASSUME IInv, NEW w \in Workers, Close(w) PROVE IInv'
<1>0. /\ UNCHANGED <<fds, head, tail, count, apc, job, sent, accepted>> /\ count \in Nat
      /\ wpc[w] = "close" /\ wpc' = [wpc EXCEPT ![w] = "pop"]
      /\ fd' = [fd EXCEPT ![w] = NULL] /\ closed' = closed \cup {fd[w]}
      /\ wpc \in [Workers -> WorkerPc] /\ fd \in [Workers -> Conns \cup {NULL}]
  BY ServerAssumption DEF Close, ringVars, accVars, IInv, TypeOK
<1>1. Queue' = Queue BY <1>0 DEF Queue
<1>2. "pop" \in WorkerPc /\ fd[w] # NULL /\ fd[w] \in accepted
  BY <1>0 DEF WorkerPc, IInv, WorkerInv
<1>3. TypeOK' BY <1>0, <1>2 DEF IInv, TypeOK
<1>4. QueueInv' BY <1>0, <1>1 DEF IInv, QueueInv
<1>5. AccInv' BY <1>0, <1>1 DEF IInv, AccInv
<1>6. WorkerInv' BY <1>0, <1>1 DEF IInv, WorkerInv
<1>7. Placed' BY <1>0, <1>1, <1>2 DEF IInv, Placed
<1>8. Apart' BY <1>0, <1>1, <1>2 , ServerAssumption DEF IInv, Apart, QueueInv, TypeOK
<1>9. NoLostWakeup'
  <2>1. Cardinality(Runnable)' = Cardinality(Runnable) + 1 BY <1>0, <1>2, RunnableMoves
  <2>2. Waiting' \subseteq Waiting BY <1>0 DEF Waiting
  <2> QED BY <1>0, <2>1, <2>2, RunnableFinite DEF IInv, NoLostWakeup, Runnable
<1> QED BY <1>3, <1>4, <1>5, <1>6, <1>7, <1>8, <1>9 DEF IInv

\* The worker takes the first job: a connection, or a sentinel, behind which
\* there are only sentinels.
LEMMA StepPop == ASSUME IInv, NEW w \in Workers, Pop(w) PROVE IInv'
<1>0. /\ UNCHANGED <<fds, tail, job, sent, accepted, closed>> /\ wpc[w] = "pop" /\ count > 0
      /\ head' = (head + 1) % QCap /\ count' = count - 1
      /\ apc' = IF apc = "not_full" THEN "push" ELSE apc
      /\ TypeOK /\ QueueInv /\ count \in Nat
  BY ServerAssumption DEF Pop, IInv, TypeOK
<1>1. /\ Queue[1] = fds[head]
      /\ \A k \in 1 .. count - 1 : Queue'[k] = Queue[k + 1]
      /\ head' \in Index /\ tail' = (head' + count') % QCap
  BY <1>0, PopQueue
<1>2. /\ \A k \in 1 .. count' : k + 1 \in 1 .. count /\ Queue'[k] = Queue[k + 1]
      /\ \A k \in 1 .. count : k = 1 \/ k - 1 \in 1 .. count'
      /\ 1 \in 1 .. count
  BY <1>0, <1>1
<1>3. PICK n \in 0 .. count : \A k \in 1 .. count : Queue[k] # Sentinel <=> k <= n
  BY <1>0 DEF QueueInv
<1>4. \/ /\ Queue[1] = Sentinel /\ wpc' = [wpc EXCEPT ![w] = "exit"] /\ fd' = fd
      \/ /\ Queue[1] \in accepted /\ Queue[1] # Sentinel /\ wpc' = [wpc EXCEPT ![w] = "recv"]
         /\ fd' = [fd EXCEPT ![w] = Queue[1]]
  BY <1>0, <1>1, <1>2 DEF Pop, QueueInv
<1>5. fd[w] = NULL /\ accepted \subseteq Conns /\ NULL \notin Conns /\ Sentinel \notin Conns
      /\ wpc \in [Workers -> WorkerPc] /\ fd \in [Workers -> Conns \cup {NULL}]
  BY <1>0, ServerAssumption DEF IInv, WorkerInv, TypeOK
<1>6. TypeOK'
  <2>1. wpc' \in [Workers -> WorkerPc] /\ fd' \in [Workers -> Conns \cup {NULL}]
    BY <1>4, <1>5 DEF WorkerPc
  <2>2. apc' \in AccPc BY <1>0 DEF TypeOK, AccPc
  <2>3. count' \in 0 .. QCap BY <1>0, ServerAssumption DEF TypeOK
  <2> QED BY <1>0, <1>1, <2>1, <2>2, <2>3 DEF TypeOK
<1>7. QueueInv'
  <2>1. \A k \in 1 .. count' : Queue'[k] \in accepted' \cup {Sentinel} BY <1>0, <1>2 DEF QueueInv
  <2>2. CASE n = 0
    <3>1. 0 \in 0 .. count' /\ \A k \in 1 .. count' : Queue'[k] # Sentinel <=> k <= 0
      BY <1>0, <1>2, <1>3, <2>2
    <3> QED BY <1>1, <2>1, <3>1 DEF QueueInv
  <2>3. CASE n > 0
    <3>1. n - 1 \in 0 .. count' /\ \A k \in 1 .. count' : Queue'[k] # Sentinel <=> k <= n - 1
      BY <1>0, <1>2, <1>3, <2>3
    <3> QED BY <1>1, <2>1, <3>1 DEF QueueInv
  <2> QED BY <2>2, <2>3
<1>8. AccInv' BY <1>0, <1>2 DEF IInv, AccInv
<1>9. WorkerInv'
  <2>1. ASSUME NEW v \in Workers
        PROVE fd'[v] = NULL <=> wpc'[v] \in {"init", "pop", "not_empty", "exit"}
    BY <1>0, <1>4, <1>5 DEF IInv, WorkerInv
  <2>2. ASSUME NEW v \in Workers, fd'[v] # NULL PROVE fd'[v] \in accepted'
    BY <1>0, <1>4, <1>5, <2>2 DEF IInv, WorkerInv
  <2>3. ASSUME NEW v \in Workers, v \notin NoBuffer, wpc'[v] = "exit"
        PROVE sent' > 0 /\ \A k \in 1 .. count' : Queue'[k] = Sentinel
    <3>1. CASE Queue[1] = Sentinel
      <4>1. n = 0 BY <1>0, <1>2, <1>3, <3>1
      <4>2. sent > 0 BY <1>0, <1>2, <3>1 DEF IInv, AccInv, TypeOK
      <4> QED BY <1>0, <1>2, <1>3, <4>1, <4>2
    <3>2. CASE Queue[1] # Sentinel BY <1>0, <1>2, <1>4, <1>5, <2>3, <3>2 DEF IInv, WorkerInv
    <3> QED BY <3>1, <3>2
  <2>4. apc' # "done" BY <1>0 DEF IInv, WorkerInv
  <2> QED BY <2>1, <2>2, <2>3, <2>4 DEF WorkerInv
<1>10. Placed'
  <2>1. closed' \subseteq accepted' BY <1>0 DEF IInv, Placed
  <2>2. ASSUME NEW c \in accepted'
        PROVE \/ c \in closed' \cup {job'}
              \/ \E v \in Workers : fd'[v] = c
              \/ \E k \in 1 .. count' : Queue'[k] = c
    <3>0. c \in accepted /\ c # Sentinel /\ c # NULL BY <1>0, <1>5
    <3>1. CASE c \in closed \cup {job} BY <1>0, <3>1
    <3>2. ASSUME NEW v \in Workers, fd[v] = c PROVE fd'[v] = c BY <1>4, <1>5, <3>0, <3>2
    <3>3. ASSUME NEW k \in 1 .. count, Queue[k] = c
          PROVE fd'[w] = c \/ \E j \in 1 .. count' : Queue'[j] = c
      <4>1. CASE k = 1 BY <1>4, <1>5, <3>0, <3>3, <4>1
      <4>2. CASE k # 1
        <5>1. k - 1 \in 1 .. count' /\ (k - 1) + 1 = k BY <1>2, <4>2
        <5>2. Queue'[k - 1] = Queue[(k - 1) + 1] BY <1>2, <5>1
        <5> QED BY <3>3, <5>1, <5>2
      <4> QED BY <4>1, <4>2
    <3> QED BY <3>0, <3>1, <3>2, <3>3 DEF IInv, Placed
  <2> QED BY <2>1, <2>2 DEF Placed
<1>11. Apart'
  <2>0. ASSUME NEW k \in 1 .. count, Queue[k] # Sentinel
        PROVE /\ Queue[k] \notin closed \cup {job} /\ \A v \in Workers : fd[v] # Queue[k]
              /\ \A j \in 1 .. count : Queue[j] = Queue[k] => j = k
    BY <2>0 DEF IInv, Apart
  <2>1. ASSUME NEW k \in 1 .. count', Queue'[k] # Sentinel
        PROVE /\ Queue'[k] \notin closed' \cup {job'} /\ \A v \in Workers : fd'[v] # Queue'[k]
              /\ \A j \in 1 .. count' : Queue'[j] = Queue'[k] => j = k
    <3>1. k + 1 \in 1 .. count /\ Queue'[k] = Queue[k + 1] BY <1>2
    <3>2. /\ Queue[k + 1] \notin closed \cup {job} /\ \A v \in Workers : fd[v] # Queue[k + 1]
          /\ \A j \in 1 .. count : Queue[j] = Queue[k + 1] => j = k + 1
      BY <2>0, <2>1, <3>1
    <3>3. Queue[1] # Queue[k + 1] BY <1>2, <3>2
    <3>4. \A v \in Workers : fd'[v] # Queue'[k] BY <1>4, <1>5, <3>1, <3>2, <3>3
    <3>5. ASSUME NEW j \in 1 .. count', Queue'[j] = Queue'[k] PROVE j = k
      <4>1. j + 1 = k + 1 BY <1>2, <3>1, <3>2, <3>5
      <4> QED BY <1>0, <4>1
    <3> QED BY <1>0, <3>1, <3>2, <3>4, <3>5
  <2>2. ASSUME job' \in Conns PROVE job' \notin closed' /\ \A v \in Workers : fd'[v] # job'
    <3>1. job \notin closed /\ \A v \in Workers : fd[v] # job BY <1>0, <2>2 DEF IInv, Apart
    <3>2. Queue[1] # job BY <1>0, <1>2, <1>5, <2>0, <2>2
    <3> QED BY <1>0, <1>4, <1>5, <3>1, <3>2
  <2> QED BY <2>1, <2>2 DEF Apart
<1>12. NoLostWakeup'
  <2>1. Cardinality(Runnable)' = Cardinality(Runnable) - 1
    <3>1. "exit" \in WorkerPc /\ "recv" \in WorkerPc BY DEF WorkerPc
    <3> QED BY <1>0, <1>4, <1>5, <3>1, RunnableMoves
  <2>2. Waiting' \subseteq Waiting BY <1>4, <1>5 DEF Waiting
  <2> QED BY <1>0, <2>1, <2>2, RunnableFinite DEF IInv, NoLostWakeup, Runnable
<1> QED BY <1>6, <1>7, <1>8, <1>9, <1>10, <1>11, <1>12 DEF IInv

------------------------------------------------------------------------------
(* The invariant *)

\* The invariant holds when the server starts.
LEMMA InitIInv == ASSUME Init PROVE IInv
<1>1. TypeOK
  BY ServerAssumption, NWorkersIs DEF Init, TypeOK, Index, AccPc, WorkerPc
<1>2. QueueInv
  <2>1. 0 % QCap = 0 BY ServerAssumption
  <2>2. 0 \in 0 .. count /\ \A k \in 1 .. count : FALSE BY DEF Init
  <2> QED BY <2>1, <2>2 DEF Init, QueueInv
<1>3. \A k \in 1 .. count : FALSE BY DEF Init
<1>4. AccInv BY <1>3, ServerAssumption DEF Init, AccInv
<1>5. WorkerInv BY <1>3 DEF Init, WorkerInv
<1>6. Placed BY DEF Init, Placed
<1>7. Apart BY <1>3, ServerAssumption DEF Init, Apart
<1>8. NoLostWakeup BY DEF Init, NoLostWakeup, Waiting
<1> QED BY <1>1, <1>2, <1>4, <1>5, <1>6, <1>7, <1>8 DEF IInv

\* Stuttering keeps the invariant.
LEMMA UnchangedIInv == ASSUME IInv, UNCHANGED vars PROVE IInv'
<1>0. UNCHANGED <<fds, head, tail, count, apc, job, sent, accepted, wpc, fd, closed>>
  BY DEF vars, ringVars, accVars
<1>1. Queue' = Queue BY <1>0 DEF Queue
<1>2. TypeOK' BY <1>0 DEF IInv, TypeOK
<1>3. QueueInv' BY <1>0, <1>1 DEF IInv, QueueInv
<1>4. AccInv' BY <1>0, <1>1 DEF IInv, AccInv
<1>5. WorkerInv' BY <1>0, <1>1 DEF IInv, WorkerInv
<1>6. Placed' BY <1>0, <1>1 DEF IInv, Placed
<1>7. Apart' BY <1>0, <1>1 DEF IInv, Apart
<1>8. NoLostWakeup' BY <1>0 DEF IInv, NoLostWakeup, Waiting
<1> QED BY <1>2, <1>3, <1>4, <1>5, <1>6, <1>7, <1>8 DEF IInv

\* Every step keeps the invariant.
LEMMA StepIInv == ASSUME IInv, [Next]_vars PROVE IInv'
<1>1. CASE Acceptor
  BY <1>1, StepAccept, StepAcceptFail, StepPush, StepPushWait, StepJoin DEF Acceptor
<1>2. ASSUME NEW w \in Workers, Worker(w) PROVE IInv'
  BY <1>2, StepWorkerInit, StepPop, StepPopWait, StepRecv, StepHandle, StepClose DEF Worker
<1>3. CASE SpuriousWakeup BY <1>3, StepSpurious
<1>4. CASE UNCHANGED vars BY <1>4, UnchangedIInv
<1> QED BY <1>1, <1>2, <1>3, <1>4 DEF Next, Returned

\* The invariant of the pool: the queue and its counters agree, every connection has
\* one place, and waiting workers are covered by signals (net_server.c).
THEOREM Invariant == SafeSpec => []IInv
BY InitIInv, StepIInv, PTL DEF SafeSpec

\* No wakeup of net_job_push or net_job_pop is lost: a worker waits only while the
\* workers that can run are enough for the jobs, the acceptor only at a full queue.
THEOREM WakeupsKept == SafeSpec => []NoLostWakeup
<1>1. IInv => NoLostWakeup BY DEF IInv
<1> QED BY <1>1, Invariant, PTL

\* When net_parallel_server returns, its workers have left and every accepted
\* connection is closed, if one worker had its buffer.
THEOREM Drained == SafeSpec => []DrainedAtShutdown
<1>1. ASSUME IInv, apc = "done", NoBuffer # Workers PROVE closed = accepted
  <2>1. PICK w \in Workers : w \notin NoBuffer BY <1>1, ServerAssumption
  <2>2. \A v \in Workers : wpc[v] = "exit" /\ fd[v] = NULL BY <1>1 DEF IInv, WorkerInv
  <2>3. \A k \in 1 .. count : Queue[k] = Sentinel BY <1>1, <2>1, <2>2 DEF IInv, WorkerInv
  <2>4. job = NULL BY <1>1 DEF IInv, AccInv
  <2>5. accepted \subseteq Conns BY <1>1 DEF IInv, TypeOK
  <2> QED BY <1>1, <2>2, <2>3, <2>4, <2>5, ServerAssumption DEF IInv, Placed
<1>2. IInv => DrainedAtShutdown BY <1>1 DEF DrainedAtShutdown, IInv, WorkerInv
<1> QED BY <1>2, Invariant, PTL

------------------------------------------------------------------------------
(* The server implements the abstract service *)

\* The connections of a queue whose first n jobs are the connections.
LEMMA Segment ==
  ASSUME NEW c \in Nat, NEW q, NEW n \in 0 .. c, \A k \in 1 .. c : q[k] # Sentinel <=> k <= n
  PROVE Cardinality({k \in 1 .. c : q[k] # Sentinel}) = n
<1>1. {k \in 1 .. c : q[k] # Sentinel} = 1 .. n OBVIOUS
<1>2. Cardinality(1 .. n) = n BY FS_Interval
<1> QED BY <1>1, <1>2

\* They are a sequence of connections.
LEMMA SegmentSeq ==
  ASSUME NEW n \in Nat, NEW q, \A k \in 1 .. n : q[k] \in Conns
  PROVE /\ [k \in 1 .. n |-> q[k]] \in Seq(Conns) /\ Len([k \in 1 .. n |-> q[k]]) = n
        /\ \A k \in 1 .. n : [j \in 1 .. n |-> q[j]][k] = q[k]
OBVIOUS

\* What waits in a state of the server, and in the next.
LEMMA BacklogIs ==
  ASSUME IInv, NEW n \in 0 .. count, \A k \in 1 .. count : Queue[k] # Sentinel <=> k <= n
  PROVE /\ Backlog \in Seq(Conns) /\ Len(Backlog) = n
        /\ \A k \in 1 .. n : Backlog[k] = Queue[k]
<1>1. count \in Nat BY ServerAssumption DEF IInv, TypeOK
<1>2. Pending = n BY <1>1, Segment DEF Pending
<1>3. \A k \in 1 .. n : Queue[k] \in Conns
  <2>1. \A k \in 1 .. n : k \in 1 .. count /\ k <= n BY <1>1
  <2> QED BY <2>1 DEF IInv, QueueInv, TypeOK
<1>4. Backlog = [k \in 1 .. n |-> Queue[k]] BY <1>2 DEF Backlog
<1>5. n \in Nat BY <1>1
<1> QED BY <1>3, <1>4, <1>5, SegmentSeq

\* The entries before the sentinels are the backlog.
LEMMA BacklogNext ==
  ASSUME IInv', NEW n \in 0 .. count', \A k \in 1 .. count' : Queue'[k] # Sentinel <=> k <= n
  PROVE /\ Backlog' \in Seq(Conns) /\ Len(Backlog') = n
        /\ \A k \in 1 .. n : Backlog'[k] = Queue'[k]
<1>1. count' \in Nat BY ServerAssumption DEF IInv, TypeOK
<1>2. Pending' = n BY <1>1, Segment DEF Pending
<1>3. \A k \in 1 .. n : Queue'[k] \in Conns
  <2>1. \A k \in 1 .. n : k \in 1 .. count' /\ k <= n BY <1>1
  <2> QED BY <2>1 DEF IInv, QueueInv, TypeOK
<1>4. Backlog' = [k \in 1 .. n |-> Queue'[k]] BY <1>2 DEF Backlog
<1>5. n \in Nat BY <1>1
<1> QED BY <1>3, <1>4, <1>5, SegmentSeq

\* A step that leaves the ring alone leaves the backlog alone.
LEMMA BacklogSame == ASSUME UNCHANGED ringVars PROVE Backlog' = Backlog
<1>1. Queue' = Queue /\ count' = count BY DEF ringVars, Queue
<1>2. Pending' = Pending BY <1>1 DEF Pending
<1> QED BY <1>1, <1>2 DEF Backlog

\* A push of a connection is an arrival; the push of a sentinel changes nothing.
LEMMA PushServes == ASSUME IInv, IInv', Push PROVE [Service!Next]_(Service!svars)
<1>0. /\ UNCHANGED <<head, accepted, fd, closed>> /\ apc = "push" /\ count < QCap
      /\ fds' = [fds EXCEPT ![tail] = job] /\ tail' = (tail + 1) % QCap /\ count' = count + 1
      /\ TypeOK /\ QueueInv /\ job # NULL /\ count \in Nat /\ job \in Job
  BY ServerAssumption DEF IInv, Push, AccInv, TypeOK
<1>1. (\A k \in 1 .. count : Queue'[k] = Queue[k]) /\ Queue'[count + 1] = job
  BY <1>0, PushQueue
<1>2. \A k \in 1 .. count' : k \in 1 .. count \/ k = count + 1 BY <1>0
<1>3. PICK n \in 0 .. count : \A k \in 1 .. count : Queue[k] # Sentinel <=> k <= n
  BY <1>0 DEF QueueInv
<1>4. /\ Backlog \in Seq(Conns) /\ Len(Backlog) = n
      /\ \A k \in 1 .. n : Backlog[k] = Queue[k]
  BY <1>3, BacklogIs
<1>5. CASE job = Sentinel
  <2>1. n \in 0 .. count' /\ \A k \in 1 .. count' : Queue'[k] # Sentinel <=> k <= n
    BY <1>0, <1>1, <1>2, <1>3, <1>5
  <2>2. /\ Backlog' \in Seq(Conns) /\ Len(Backlog') = n
        /\ \A k \in 1 .. n : Backlog'[k] = Queue'[k]
    BY <2>1, BacklogNext
  <2>3. \A k \in 1 .. Len(Backlog) : Backlog'[k] = Backlog[k] BY <1>0, <1>1, <1>4, <2>2
  <2>4. Backlog' = Backlog BY <1>4, <2>2, <2>3, SeqEqual
  <2> QED BY <1>0, <2>4 DEF Service!svars
<1>6. CASE job \in Conns
  <2>1. \A k \in 1 .. count : Queue[k] # Sentinel BY <1>6 DEF IInv, AccInv
  <2>2. n = count
    <3>1. CASE count = 0 BY <1>3, <3>1
    <3>2. CASE count > 0
      <4>1. count \in 1 .. count BY <1>0, <3>2
      <4> QED BY <1>0, <1>3, <2>1, <4>1
    <3> QED BY <1>0, <3>1, <3>2
  <2>3. \A k \in 1 .. count' : Queue'[k] # Sentinel
    BY <1>1, <1>2, <1>6, <2>1, ServerAssumption
  <2>4. /\ Backlog' \in Seq(Conns) /\ Len(Backlog') = count + 1
        /\ \A k \in 1 .. count + 1 : Backlog'[k] = Queue'[k]
    <3>1. count' \in 0 .. count' /\ \A k \in 1 .. count' : Queue'[k] # Sentinel <=> k <= count'
      BY <1>0, <2>3
    <3> QED BY <1>0, <3>1, BacklogNext
  <2>5. Backlog' = Append(Backlog, job)
    <3>1. /\ Append(Backlog, job) \in Seq(Conns) /\ Len(Append(Backlog, job)) = count + 1
          /\ \A k \in 1 .. count : Append(Backlog, job)[k] = Backlog[k]
          /\ Append(Backlog, job)[count + 1] = job
      BY <1>4, <1>6, <2>2, AppendProperties
    <3>2. \A k \in 1 .. Len(Backlog') : Backlog'[k] = Append(Backlog, job)[k]
      BY <1>0, <1>1, <1>2, <1>4, <2>2, <2>4, <3>1
    <3> QED BY <2>4, <3>1, <3>2, SeqEqual
  <2>6. job \notin Service!ToSet(Backlog) \cup closed
    <3>1. \A k \in 1 .. count : Queue[k] # job BY <1>6, <2>1 DEF IInv, Apart
    <3>2. DOMAIN Backlog = 1 .. count BY <1>4, <2>2
    <3>3. job \notin Service!ToSet(Backlog) BY <1>4, <2>2, <3>1, <3>2 DEF Service!ToSet
    <3> QED BY <1>6, <3>3 DEF IInv, Apart
  <2>7. \A w \in Workers : fd[w] # job BY <1>6 DEF IInv, Apart
  <2>8. Len(Backlog) < QCap BY <1>0, <1>4, <2>2
  <2>9. Service!Arrive(job) BY <1>0, <2>5, <2>6, <2>7, <2>8 DEF Service!Arrive
  <2> QED BY <1>6, <2>9 DEF Service!Next
<1> QED BY <1>0, <1>5, <1>6 DEF Job

\* A pop of a connection takes the oldest; the pop of a sentinel changes nothing.
LEMMA PopServes ==
  ASSUME IInv, IInv', NEW w \in Workers, Pop(w) PROVE [Service!Next]_(Service!svars)
<1>0. /\ UNCHANGED <<fds, tail, closed>> /\ wpc[w] = "pop" /\ count > 0
      /\ head' = (head + 1) % QCap /\ count' = count - 1
      /\ TypeOK /\ QueueInv /\ count \in Nat /\ 1 \in 1 .. count
  BY ServerAssumption DEF Pop, IInv, TypeOK
<1>1. Queue[1] = fds[head] /\ \A k \in 1 .. count - 1 : Queue'[k] = Queue[k + 1]
  BY <1>0, PopQueue
<1>2. PICK n \in 0 .. count : \A k \in 1 .. count : Queue[k] # Sentinel <=> k <= n
  BY <1>0 DEF QueueInv
<1>3. /\ Backlog \in Seq(Conns) /\ Len(Backlog) = n
      /\ \A k \in 1 .. n : Backlog[k] = Queue[k]
  BY <1>2, BacklogIs
<1>4. CASE Queue[1] = Sentinel
  <2>1. n = 0 BY <1>0, <1>2, <1>4
  <2>2. 0 \in 0 .. count' /\ \A k \in 1 .. count' : Queue'[k] # Sentinel <=> k <= 0
    BY <1>0, <1>1, <1>2, <2>1
  <2>3. Backlog' \in Seq(Conns) /\ Len(Backlog') = 0 BY <2>2, BacklogNext
  <2>4. Backlog' = Backlog BY <1>3, <2>1, <2>3, SeqEqual
  <2>5. fd' = fd BY <1>1, <1>4 DEF Pop
  <2> QED BY <1>0, <2>4, <2>5 DEF Service!svars
<1>5. CASE Queue[1] # Sentinel
  <2>1. n >= 1 BY <1>0, <1>2, <1>5
  <2>2. n - 1 \in 0 .. count' /\ \A k \in 1 .. count' : Queue'[k] # Sentinel <=> k <= n - 1
    BY <1>0, <1>1, <1>2, <2>1
  <2>3. /\ Backlog' \in Seq(Conns) /\ Len(Backlog') = n - 1
        /\ \A k \in 1 .. n - 1 : Backlog'[k] = Queue'[k]
    BY <2>2, BacklogNext
  <2>4. Backlog # <<>> /\ Head(Backlog) = Queue[1] BY <1>3, <2>1
  <2>5. Backlog' = Tail(Backlog)
    <3>1. /\ Tail(Backlog) \in Seq(Conns) /\ Len(Tail(Backlog)) = n - 1
          /\ \A k \in 1 .. n - 1 : Tail(Backlog)[k] = Backlog[k + 1]
      BY <1>3, <2>1, <2>4, HeadTailProperties
    <3>2. \A k \in 1 .. Len(Backlog') : Backlog'[k] = Tail(Backlog)[k]
      BY <1>0, <1>1, <1>3, <2>1, <2>3, <3>1
    <3> QED BY <2>3, <3>1, <3>2, SeqEqual
  <2>6. fd[w] = NULL BY <1>0 DEF IInv, WorkerInv
  <2>7. fd' = [fd EXCEPT ![w] = Head(Backlog)] BY <1>1, <1>5, <2>4 DEF Pop
  <2>8. Service!Take(w) BY <1>0, <2>4, <2>5, <2>6, <2>7 DEF Service!Take
  <2> QED BY <2>8 DEF Service!Next
<1> QED BY <1>4, <1>5

\* The other steps are a finish, or change nothing the service sees.
LEMMA CloseServes ==
  ASSUME IInv, NEW w \in Workers, Close(w) PROVE [Service!Next]_(Service!svars)
<1>1. fd[w] # NULL BY DEF Close, IInv, WorkerInv
<1>2. Backlog' = Backlog BY BacklogSame DEF Close
<1>3. Service!Finish(w) BY <1>1, <1>2 DEF Close, Service!Finish
<1> QED BY <1>3 DEF Service!Next

\* Every step of the pool is a step of the service, or none.
LEMMA StepServes == ASSUME IInv, IInv', [Next]_vars PROVE [Service!Next]_(Service!svars)
<1>0. ASSUME UNCHANGED <<ringVars, fd, closed>> PROVE [Service!Next]_(Service!svars)
  BY <1>0, BacklogSame DEF Service!svars
<1>1. CASE Acceptor
  <2>1. CASE Push BY <2>1, PushServes
  <2>2. CASE ~Push
    BY <1>0, <1>1, <2>2 DEF Acceptor, Accept, AcceptFail, PushWait, Join
  <2> QED BY <2>1, <2>2
<1>2. ASSUME NEW w \in Workers, Worker(w) PROVE [Service!Next]_(Service!svars)
  <2>1. CASE Pop(w) BY <2>1, PopServes
  <2>2. CASE Close(w) BY <2>2, CloseServes
  <2>3. CASE WorkerInit(w) \/ PopWait(w) \/ Recv(w) \/ Handle(w)
    BY <1>0, <2>3 DEF WorkerInit, PopWait, Recv, Handle
  <2> QED BY <1>2, <2>1, <2>2, <2>3 DEF Worker
<1>3. CASE SpuriousWakeup BY <1>0, <1>3 DEF SpuriousWakeup
<1>4. CASE UNCHANGED vars BY <1>0, <1>4 DEF vars
<1> QED BY <1>1, <1>2, <1>3, <1>4 DEF Next, Returned

\* The pool starts as the service does.
LEMMA InitServes == ASSUME Init PROVE Service!Init
<1>1. count = 0 /\ \A k \in 1 .. count : Queue[k] # Sentinel <=> k <= 0 BY DEF Init
<1>2. Pending = 0
  <2>1. {k \in 1 .. count : Queue[k] # Sentinel} = {} BY <1>1
  <2> QED BY <2>1, FS_EmptySet DEF Pending
<1>3. Backlog = <<>> BY <1>2 DEF Backlog
<1> QED BY <1>3 DEF Init, Service!Init

\* The ring, the mutex and the two condition variables implement the abstract
\* service: connections are served in the order of accept(), each by one worker.
THEOREM ServerServes == SafeSpec => ServesInOrder
<1>1. SafeSpec => []IInv BY Invariant
<1> QED BY <1>1, InitServes, StepServes, PTL DEF SafeSpec, ServesInOrder, Service!Spec
=============================================================================
