----------------------------- MODULE MCDashboard ------------------------------
(***************************************************************************)
(* An instance of Dashboard for TLC: a supplier assessed twice, first with *)
(* no event and then with one.                                             *)
(***************************************************************************)
EXTENDS Dashboard, TLC

Assessed(t, E) == {[supplier |-> x, at |-> t, evidence |-> E] : x \in Supplier}

MCSnapshot == {Supplier}
MCBatches  == {Assessed(0, {}), Assessed(1, Key)}

(* Threads and scripts are only compared for equality, and no property is  *)
(* a liveness property.                                                    *)
Symmetry == Permutations(Thread) \cup Permutations(Script)
===============================================================================
