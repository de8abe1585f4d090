----------------------------- MODULE GuardedReads -----------------------------
(***************************************************************************)
(* Reads of BigQuery under a budget (GuardedBigQueryReader.read): a dry    *)
(* run whose estimate is compared with the budget, then the query itself,  *)
(* on tables that may have grown, with the budget as its limit.  A script  *)
(* reads one thing at a time.                                              *)
(***************************************************************************)
EXTENDS Integers, FiniteSets

CONSTANTS Script,      \* the threads that read
          Budget,      \* max_bytes_billed
          MaxBytes     \* bound on the size of the tables

ASSUME ReadsAssumption == Budget \in Nat /\ MaxBytes \in Nat

VARIABLES
  bytes,       \* what a query over the tables processes now
  estimated,   \* whether the dry run of a script's read has passed
  billed       \* history variable: the most that one query was billed

reads == <<bytes, estimated, billed>>

ReadsTypeOK ==
  /\ bytes \in 0..MaxBytes
  /\ estimated \in [Script -> BOOLEAN]
  /\ billed \in 0..MaxBytes

ReadsInit ==
  /\ bytes \in 0..MaxBytes
  /\ estimated = [c \in Script |-> FALSE]
  /\ billed = 0

Grow == bytes < MaxBytes /\ bytes' = bytes + 1 /\ UNCHANGED <<estimated, billed>>

DryRunPasses(c) ==
  /\ ~estimated[c]
  /\ bytes <= Budget
  /\ estimated' = [estimated EXCEPT ![c] = TRUE]
  /\ UNCHANGED <<bytes, billed>>

(* Variant: the query runs without maximum_bytes_billed.                   *)
QueryUnlimited(c) ==
  /\ estimated[c]
  /\ estimated' = [estimated EXCEPT ![c] = FALSE]
  /\ billed' = IF bytes > billed THEN bytes ELSE billed
  /\ UNCHANGED bytes

(* BigQuery refuses a query that would be billed for more than its limit.  *)
QueryRuns(c) ==
  /\ estimated[c]
  /\ bytes <= Budget
  /\ estimated' = [estimated EXCEPT ![c] = FALSE]
  /\ billed' = IF bytes > billed THEN bytes ELSE billed
  /\ UNCHANGED bytes

(* The dry run fails or exceeds the budget; the query is refused, fails or *)
(* times out; or what it was billed for is not what the caller asked for.  *)
ReadRaises(c) ==
  /\ estimated' = [estimated EXCEPT ![c] = FALSE]
  /\ billed' \in {billed} \cup
                 {b \in {bytes} : estimated[c] /\ billed < bytes /\ bytes <= Budget}
  /\ UNCHANGED bytes

(* No query is billed for more than the budget, however much the tables    *)
(* have grown since its dry run.                                           *)
BilledWithinBudget == billed <= Budget

===============================================================================
