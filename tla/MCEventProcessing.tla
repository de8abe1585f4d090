-------------------------- MODULE MCEventProcessing --------------------------
(***************************************************************************)
(* Instances of EventProcessing for TLC.  Versions are strings: the letter *)
(* is the key (q: a USGS earthquake, w: a weather forecast, which exposes  *)
(* no revision), the digit of an earthquake's version is its revision.     *)
(***************************************************************************)
EXTENDS EventProcessing, TLC

MCKeyOf == [v \in Version |-> IF v \in {"wA", "wB"} THEN "w" ELSE "q"]

MCRevisionOf ==
  [v \in Version |->
     CASE v \in {"wA", "wB"}   -> NoRevision
       [] v \in {"q1A", "q1B"} -> 1
       [] v = "q2"             -> 2
       [] v = "q3"             -> 3]

(* Messages and workers are interchangeable: every assignment of versions  *)
(* to messages is initial, and no property names one of either.            *)
Symmetry == Permutations(Message) \cup Permutations(Worker)
==============================================================================
