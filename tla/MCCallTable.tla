----------------------------- MODULE MCCallTable -----------------------------
(***************************************************************************)
(* Instances of CallTable for TLC, with one subscriber.                     *)
(* m1 and m3 are a maxsec and its retransmission, m2 another call; t1 and  *)
(* t2 are a term of the first call and its retransmission.                 *)
(***************************************************************************)
EXTENDS CallTable, TLC

CONSTANTS w1, w2, m1, m2, m3, t1, t2, u1, u2, s1

MCWorkers == {w1, w2}
MCUids == {u1, u2}
MCSubscribers == {s1}
MCClg == [u \in MCUids |-> s1]
MCCallNumber == [s \in MCSubscribers |-> 1]
MCTerms == {t1, t2}
MCTermUid == [t \in MCTerms |-> u1]

\* Three requests: with three slots, both the limit and a retransmission matter.
MCMaxsecs == {m1, m2, m3}
MCMaxUid == [m \in MCMaxsecs |-> IF m = m2 THEN u2 ELSE u1]
MCSymmetry == Permutations(MCWorkers) \cup Permutations({m1, m3}) \cup Permutations(MCTerms)

\* Two requests, so that one slot can be full, and two terms of different kinds;
\* the second worker has no DB connection.
MCMaxsecsLive == {m1, m2}
MCMaxUidLive == [m \in MCMaxsecsLive |-> IF m = m1 THEN u1 ELSE u2]
MCTermUidLive == [t \in MCTerms |-> IF t = t1 THEN u1 ELSE u2]
MCCallNumberLive == [s \in MCSubscribers |-> 2]
MCFirstWorker == {w1}
MCFirstTerm == {t1}
==============================================================================
