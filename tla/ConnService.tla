------------------------------ MODULE ConnService ------------------------------
(***************************************************************************)
(* What the worker-pool server of net/net.c promises: connections wait in  *)
(* the order in which they were accepted, each is taken by one worker, and *)
(* is finished by that worker.  At most Room connections wait.             *)
(***************************************************************************)
EXTENDS Integers, Sequences, SequencesExt

CONSTANTS Conns, Workers, Room, NULL

VARIABLES
  waiting,   \* accepted connections nobody serves yet, oldest first
  serving,   \* the connection a worker serves
  finished   \* closed connections

svars == <<waiting, serving, finished>>

Init ==
  /\ waiting = <<>>
  /\ serving = [w \in Workers |-> NULL]
  /\ finished = {}

Arrive(c) ==
  /\ c \notin ToSet(waiting) \cup finished
  /\ \A w \in Workers : serving[w] # c
  /\ Len(waiting) < Room
  /\ waiting' = Append(waiting, c)
  /\ UNCHANGED <<serving, finished>>

Take(w) ==
  /\ serving[w] = NULL
  /\ waiting # <<>>
  /\ serving' = [serving EXCEPT ![w] = Head(waiting)]
  /\ waiting' = Tail(waiting)
  /\ UNCHANGED finished

Finish(w) ==
  /\ serving[w] # NULL
  /\ finished' = finished \cup {serving[w]}
  /\ serving' = [serving EXCEPT ![w] = NULL]
  /\ UNCHANGED waiting

Next ==
  \/ \E c \in Conns : Arrive(c)
  \/ \E w \in Workers : Take(w) \/ Finish(w)

Spec == Init /\ [][Next]_svars
================================================================================
