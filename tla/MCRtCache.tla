------------------------------ MODULE MCRtCache ------------------------------
(* One lookup of each kind, and two of the account, whose key leaves out    *)
(* what its select depends on. A system's CDRs need the lookups of one      *)
(* entry, and a select or an allocation may fail; or they need an account   *)
(* and its card.                                                            *)
EXTENDS RtCache, TLC

Symmetry == Permutations(Workers)
MCLookups == {l \in [kind : Kinds, key : {1}, asker : {1, 2}] : l.asker = 1 \/ l.kind = "racc"}
MCNeeds ==
  [lookups : {Sharing(l) : l \in MCLookups}, faults : {1}]
    \cup [lookups : {{l \in MCLookups : l.kind \in {"racc", "pcard"} /\ l.asker = 1}}, faults : {0}]
=============================================================================
