------------------------------- MODULE MCRating -------------------------------
(***************************************************************************)
(* Instances of Rating for TLC.                                            *)
(***************************************************************************)
EXTENDS Rating

CONSTANTS a1, a2

MCNone == {}
MCFirst == {1}
MCSecond == {2}
MCThird == {3}
MCFourth == {4}

\* Two calls of one account: the first, of three seconds, may be online.
MCAccs == {a1}
MCCdrs == {1, 2}
MCAcc == [c \in MCCdrs |-> a1]
MCBillsec == [c \in MCCdrs |-> 4 - c]

\* Liveness, units of two seconds: two calls of one account, one that is not
\* ratable and one without a rate.
MCAccsLive == {a1, a2}
MCCdrsLive == 1 .. 4
MCAccLive == [c \in MCCdrsLive |-> IF c < 3 THEN a1 ELSE a2]
MCBillsecLive == [c \in MCCdrsLive |-> 2 * c - 1]

===============================================================================
