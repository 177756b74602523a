------------------------------ MODULE MCNetServer ------------------------------
(***************************************************************************)
(* Instances of NetServer for TLC: more clients than room in the queue, and *)
(* one worker of the pool that never gets its buffer, and a silent client.  *)
(***************************************************************************)
EXTENDS NetServer, TLC

CONSTANTS w1, w2, w3, w4, c1, c2, c3, c4

MCWorkers == {w1, w2, w3, w4}
MCNoBuffer == {w4}
MCConns == {c1, c2, c3, c4}
MCSilent == {c1}
================================================================================
