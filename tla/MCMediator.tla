----------------------------- MODULE MCMediator -----------------------------
(* Two files of one name, the second with a call that the remote switch has *)
(* as well; days of three ticks, so that polls meet the end of a cycle.     *)
EXTENDS Mediator, TLC

CONSTANTS f1, f2, c1, c2, bad

MCNameOf == (f1 :> "n") @@ (f2 :> "n")
MCContent == (f1 :> <<c1, bad>>) @@ (f2 :> <<c2>>)
MCNone == [f \in {} |-> <<>>]
MCProfilesDb == <<"db">>
MCProfiles == <<"file", "db">>
=============================================================================
