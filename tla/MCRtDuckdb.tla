----------------------------- MODULE MCRtDuckdb -----------------------------
(* Two accounts, one with a free CDR and one at the boundary of its free    *)
(* seconds; a window of two CDRs.                                           *)
EXTENDS RtDuckdb, TLC

CONSTANTS x, y
MCOwner == 1 :> x @@ 2 :> x @@ 3 :> y
MCBothLegs == <<"a", "b">>
=============================================================================
