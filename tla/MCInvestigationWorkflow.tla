----------------------- MODULE MCInvestigationWorkflow -----------------------
(***************************************************************************)
(* Instances of InvestigationWorkflow for TLC.                             *)
(***************************************************************************)
EXTENDS InvestigationWorkflow, TLC

(* Processes, threads and investigations are only compared for equality,   *)
(* and the runs that use symmetry check no liveness.                       *)
Symmetry ==
  Permutations(Process) \cup Permutations(Thread) \cup Permutations(Investigation)
==============================================================================
