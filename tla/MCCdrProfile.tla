---------------------------- MODULE MCCdrProfile -----------------------------
(* The registration of one profile, alone, whatever the local database is. *)
EXTENDS CdrProfile

Start ==
  /\ RegAt("off") /\ regThread' = [RegOff EXCEPT !.pc = "begin"]
  /\ NoFault /\ UNCHANGED <<reg, lost>>

Init == StoreInit /\ ProfileInit
Next == Start \/ RegisterStep("db")
Spec == Init /\ [][Next]_<<storeVars, regVars>>
=============================================================================
