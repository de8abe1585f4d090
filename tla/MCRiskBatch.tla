----------------------------- MODULE MCRiskBatch -----------------------------
(***************************************************************************)
(* Instances of RiskBatch for TLC: a storm, which has no revisions; and an *)
(* earthquake whose second version, of the same time, is no longer near    *)
(* the supplier s2, and of which there are two different second versions.  *)
(***************************************************************************)
EXTENDS RiskBatch, TLC

MCKeyOf      == [e \in Event |-> IF e = "storm" THEN "storm" ELSE "quake"]
MCRevisionOf == [e \in Event |-> CASE e = "storm" -> NoRevision
                                   [] e = "quake1" -> 1
                                   [] OTHER -> 2]
MCFamilyOf   == [e \in Event |-> IF MCKeyOf[e] = "storm" THEN "weather" ELSE "seismic"]
MCOccurredAt == [e \in Event |-> -1]
MCLookback   == [weather |-> 1, seismic |-> 2]
MCConcerns   ==
  {<<s, e>> \in Supplier \X Event : s = "s1" \/ e = "quake1"}
MCSnapshot   == {{"s1"}, Supplier}
Symmetry     == Permutations(Process)
==============================================================================
