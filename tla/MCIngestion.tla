----------------------------- MODULE MCIngestion ------------------------------
(***************************************************************************)
(* An instance of Ingestion for TLC: two earthquakes one after the other,  *)
(* a malformed one between them, a good and a malformed observation.       *)
(***************************************************************************)
EXTENDS Ingestion, TLC

MCOccursAt == [f \in Feature |-> CASE f = "quake1" -> 1 [] f = "bad" -> 2 [] f = "quake2" -> 3]

(* Missing or malformed, at once, and longer than the cap.                 *)
MCRetryAfter == {NoDelay, 0, 10}

(* Bootstraps are interchangeable.                                         *)
Symmetry == Permutations(Bootstrap)
===============================================================================
