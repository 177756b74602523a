------------------------------- MODULE NetServer -------------------------------
(***************************************************************************)
(* net_parallel_server of net/net.c: an acceptor thread, the bounded       *)
(* blocking queue net_job_q_t, and a pool of worker threads.               *)
(*                                                                         *)
(* The queue is touched only with its mutex held, so the code between a    *)
(* lock (or the return of pthread_cond_wait) and the unlock (or the wait)  *)
(* is one action.  A signalled thread leaves the condition variable and    *)
(* tests its condition again, competing with threads that never waited.    *)
(* A connection stands for its file descriptor.                            *)
(***************************************************************************)
EXTENDS Integers, FiniteSets, Sequences

CONSTANTS
  QCap,       \* NET_PSRV_QCAP
  Workers,    \* the nworkers threads of the pool
  NoBuffer,   \* the workers whose buffer allocation fails
  Conns,      \* client connections
  Silent,     \* clients that connect and then neither send nor close
  Sentinel,   \* the fd -1 of the shutdown
  NULL

ASSUME ServerAssumption ==
  /\ QCap \in Nat \ {0}
  /\ IsFiniteSet(Workers) /\ Workers # {}
  /\ NoBuffer \subseteq Workers
  /\ Silent \subseteq Conns
  /\ {Sentinel, NULL} \cap Conns = {} /\ Sentinel # NULL

VARIABLES
  fds, head, tail, count,   \* the ring of net_job_q_t
  apc,        \* where the acceptor is
  job,        \* what it pushes
  sent,       \* sentinels pushed
  wpc,        \* where a worker is
  fd,         \* wc.newsockfd: the connection a worker serves
  accepted,   \* connections accept() returned
  closed      \* connections a worker closed

ringVars == <<fds, head, tail, count>>
accVars  == <<apc, job, sent, accepted>>
vars     == <<ringVars, accVars, wpc, fd, closed>>

NWorkers == Cardinality(Workers)
Index    == 0 .. QCap - 1
Job      == Conns \cup {Sentinel}
AccPc    == {"accept", "push", "not_full", "join", "done"}
WorkerPc == {"init", "pop", "not_empty", "recv", "handle", "close", "exit"}

\* The threads blocked on q->not_empty.
Waiting == {w \in Workers : wpc[w] = "not_empty"}

\* memset(&q,0,...), and the threads are created.
Init ==
  /\ fds = [i \in Index |-> NULL]
  /\ head = 0
  /\ tail = 0
  /\ count = 0
  /\ apc = "accept"
  /\ job = NULL
  /\ sent = 0
  /\ wpc = [w \in Workers |-> "init"]
  /\ fd = [w \in Workers |-> NULL]
  /\ accepted = {}
  /\ closed = {}

-----------------------------------------------------------------------------
(* The acceptor. *)

\* accept() returns a connection, to be pushed.
Accept(c) ==
  /\ apc = "accept"
  /\ c \notin accepted
  /\ accepted' = accepted \cup {c}
  /\ job' = c
  /\ apc' = "push"
  /\ UNCHANGED <<ringVars, sent, wpc, fd, closed>>

\* accept() fails, or the listening socket is gone: any failure ends the loop,
\* and the shutdown pushes its sentinels.
AcceptFail ==
  /\ apc = "accept"
  /\ job' = Sentinel
  /\ apc' = "push"
  /\ UNCHANGED <<ringVars, sent, accepted, wpc, fd, closed>>

\* pthread_cond_signal(&q->not_empty): one waiting thread, if any, is woken.
SignalNotEmpty ==
  \/ /\ Waiting = {}
     /\ UNCHANGED wpc
  \/ \E w \in Waiting : wpc' = [wpc EXCEPT ![w] = "pop"]

\* Mutant of AfterPush: one sentinel for the whole pool.
AfterPushOneSentinel ==
  /\ job' = NULL
  /\ sent' = IF job = Sentinel THEN sent + 1 ELSE sent
  /\ apc' = IF job = Sentinel THEN "join" ELSE "accept"

\* Back to accept() after a connection; on to the next sentinel, or to the
\* joins after the last one.
AfterPush ==
  LET more == job = Sentinel /\ sent + 1 < NWorkers
  IN  /\ job' = IF more THEN Sentinel ELSE NULL
      /\ sent' = IF job = Sentinel THEN sent + 1 ELSE sent
      /\ apc' = IF more THEN "push" ELSE IF job = Sentinel THEN "join" ELSE "accept"

\* Mutant of Push: the limit of the queue is not tested.
PushNoLimit ==
  /\ apc = "push"
  /\ fds' = [fds EXCEPT ![tail] = job]
  /\ tail' = (tail + 1) % QCap
  /\ count' = count + 1
  /\ SignalNotEmpty
  /\ AfterPush
  /\ UNCHANGED <<head, accepted, fd, closed>>

\* Mutant of Push: a waiting thread is woken only when the queue was empty.
PushSignalsIfEmpty ==
  /\ apc = "push"
  /\ count < QCap
  /\ fds' = [fds EXCEPT ![tail] = job]
  /\ tail' = (tail + 1) % QCap
  /\ count' = count + 1
  /\ IF count = 0 THEN SignalNotEmpty ELSE UNCHANGED wpc
  /\ AfterPush
  /\ UNCHANGED <<head, accepted, fd, closed>>

\* net_job_push with room in the queue.
Push ==
  /\ apc = "push"
  /\ count < QCap
  /\ fds' = [fds EXCEPT ![tail] = job]
  /\ tail' = (tail + 1) % QCap
  /\ count' = count + 1
  /\ SignalNotEmpty
  /\ AfterPush
  /\ UNCHANGED <<head, accepted, fd, closed>>

\* net_job_push with a full queue: pthread_cond_wait(&q->not_full, &q->lock).
PushWait ==
  /\ apc = "push"
  /\ count = QCap
  /\ apc' = "not_full"
  /\ UNCHANGED <<ringVars, job, sent, accepted, wpc, fd, closed>>

\* Mutant of Join: the last worker is not joined.
JoinAllButOne ==
  /\ apc = "join"
  /\ \E v \in Workers : \A w \in Workers \ {v} : wpc[w] = "exit"
  /\ apc' = "done"
  /\ UNCHANGED <<ringVars, job, sent, accepted, wpc, fd, closed>>

\* pthread_join of every worker; only then is the queue destroyed.
Join ==
  /\ apc = "join"
  /\ \A w \in Workers : wpc[w] = "exit"
  /\ apc' = "done"
  /\ UNCHANGED <<ringVars, job, sent, accepted, wpc, fd, closed>>

-----------------------------------------------------------------------------
(* The workers. *)

\* worker_init, and the allocation of the buffer.
WorkerInit(w) ==
  /\ wpc[w] = "init"
  /\ wpc' = [wpc EXCEPT ![w] = IF w \in NoBuffer THEN "exit" ELSE "pop"]
  /\ UNCHANGED <<ringVars, accVars, fd, closed>>

\* Mutant of Pop: `if' for `while', a woken thread does not test the queue again.
PopNoRetest(w) ==
  /\ wpc[w] = "pop"
  /\ head' = (head + 1) % QCap
  /\ count' = count - 1
  /\ apc' = IF apc = "not_full" THEN "push" ELSE apc
  /\ wpc' = [wpc EXCEPT ![w] = IF fds[head] = Sentinel THEN "exit" ELSE "recv"]
  /\ fd' = [fd EXCEPT ![w] = IF fds[head] = Sentinel THEN NULL ELSE fds[head]]
  /\ UNCHANGED <<fds, tail, job, sent, accepted, closed>>

\* net_job_pop with a job in the queue; the acceptor is the only thread that
\* waits on not_full.
Pop(w) ==
  /\ wpc[w] = "pop"
  /\ count > 0
  /\ head' = (head + 1) % QCap
  /\ count' = count - 1
  /\ apc' = IF apc = "not_full" THEN "push" ELSE apc
  /\ \/ /\ fds[head] = Sentinel
        /\ wpc' = [wpc EXCEPT ![w] = "exit"]
        /\ UNCHANGED fd
     \/ /\ fds[head] # Sentinel
        /\ wpc' = [wpc EXCEPT ![w] = "recv"]
        /\ fd' = [fd EXCEPT ![w] = fds[head]]
  /\ UNCHANGED <<fds, tail, job, sent, accepted, closed>>

\* net_job_pop with an empty queue: pthread_cond_wait(&q->not_empty, &q->lock).
PopWait(w) ==
  /\ wpc[w] = "pop"
  /\ count = 0
  /\ wpc' = [wpc EXCEPT ![w] = "not_empty"]
  /\ UNCHANGED <<ringVars, accVars, fd, closed>>

\* recv_msg blocks until the client sends (n > 0) or goes away (n <= 0): no
\* timeout is set on the socket.
Recv(w) ==
  /\ wpc[w] = "recv"
  /\ fd[w] \notin Silent
  /\ \/ wpc' = [wpc EXCEPT ![w] = "handle"]
     \/ wpc' = [wpc EXCEPT ![w] = "close"]
  /\ UNCHANGED <<ringVars, accVars, fd, closed>>

\* The handler, and send_msg, whose result is not looked at.
Handle(w) ==
  /\ wpc[w] = "handle"
  /\ wpc' = [wpc EXCEPT ![w] = "close"]
  /\ UNCHANGED <<ringVars, accVars, fd, closed>>

Close(w) ==
  /\ wpc[w] = "close"
  /\ wpc' = [wpc EXCEPT ![w] = "pop"]
  /\ fd' = [fd EXCEPT ![w] = NULL]
  /\ closed' = closed \cup {fd[w]}
  /\ UNCHANGED <<ringVars, accVars>>

\* pthread_cond_wait may return without a signal.
SpuriousWakeup ==
  \/ /\ apc = "not_full"
     /\ apc' = "push"
     /\ UNCHANGED <<ringVars, job, sent, accepted, wpc, fd, closed>>
  \/ /\ \E w \in Waiting : wpc' = [wpc EXCEPT ![w] = "pop"]
     /\ UNCHANGED <<ringVars, accVars, fd, closed>>

\* The server has returned.
Returned == apc = "done" /\ UNCHANGED vars

-----------------------------------------------------------------------------

Acceptor == (\E c \in Conns : Accept(c)) \/ AcceptFail \/ Push \/ PushWait \/ Join

Worker(w) ==
  WorkerInit(w) \/ Pop(w) \/ PopWait(w) \/ Recv(w) \/ Handle(w) \/ Close(w)

Next ==
  \/ Acceptor
  \/ \E w \in Workers : Worker(w)
  \/ SpuriousWakeup
  \/ Returned

\* Threads that can run do run (the mutex is held for a few instructions); no
\* client has to come, and accept() does not have to fail.
Fairness ==
  /\ WF_vars(Push \/ PushWait \/ Join)
  /\ \A w \in Workers : WF_vars(Worker(w))

SafeSpec == Init /\ [][Next]_vars

Spec == SafeSpec /\ Fairness

-----------------------------------------------------------------------------
(* Properties. *)

TypeOK ==
  /\ fds \in [Index -> Job \cup {NULL}]
  /\ head \in Index
  /\ tail \in Index
  /\ count \in 0 .. QCap
  /\ apc \in AccPc
  /\ job \in Job \cup {NULL}
  /\ sent \in 0 .. NWorkers
  /\ wpc \in [Workers -> WorkerPc]
  /\ fd \in [Workers -> Conns \cup {NULL}]
  /\ accepted \subseteq Conns
  /\ closed \subseteq Conns

\* The jobs in the queue, oldest first.
Queue == [k \in 1 .. count |-> fds[(head + k - 1) % QCap]]

\* How many of them are connections, and these: the sentinels come last.
Pending == Cardinality({k \in 1 .. count : Queue[k] # Sentinel})
Backlog == [k \in 1 .. Pending |-> Queue[k]]

\* Connections are served in the order of accept(), each by one worker, and none
\* is dropped: net_job_push, net_job_pop and net_worker_thread implement the
\* abstract service.  A sentinel is not a connection.
Service == INSTANCE ConnService WITH
  Room <- QCap,
  waiting <- Backlog,
  serving <- fd,
  finished <- closed
ServesInOrder == Service!Spec

\* No wakeup is lost, though push signals one thread at a time and a thread that
\* never waited may take the job instead: while a worker is blocked on not_empty
\* there are enough runnable workers for all jobs, and the acceptor is blocked
\* on not_full only while the queue is full.
NoLostWakeup ==
  /\ Waiting # {} => Cardinality({w \in Workers : wpc[w] = "pop"}) >= count
  /\ apc = "not_full" => count = QCap

\* When net_parallel_server destroys the queue, no thread uses it any more and,
\* if one worker had its buffer, every accepted connection has been closed.
DrainedAtShutdown ==
  apc = "done" =>
    /\ \A w \in Workers : wpc[w] = "exit"
    /\ NoBuffer # Workers => closed = accepted

\* A connection whose client talks is closed in the end, provided fewer clients
\* keep silent than there are workers with a buffer.
TalkingServed ==
  Cardinality(Silent) < Cardinality(Workers \ NoBuffer) =>
    \A c \in Conns \ Silent : c \in accepted ~> c \in closed

\* After accept() has failed the server returns, unless a worker is kept by a
\* silent client.
ShutdownCompletes ==
  (job = Sentinel) ~> (apc = "done" \/ \E w \in Workers : fd[w] \in Silent)
================================================================================
