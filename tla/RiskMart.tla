------------------------------ MODULE RiskMart -------------------------------
(***************************************************************************)
(* What the MART tables promise to the readers of supplier risk, without   *)
(* batches in progress or load jobs: history gains whole batches, and the  *)
(* current snapshot is at all times one batch of history, or empty.        *)
(***************************************************************************)
EXTENDS Integers

CONSTANTS Supplier,   \* supplier identifiers
          Key,        \* deduplication keys of canonical events
          Snapshot,   \* the lists of suppliers that load_snapshot may be given
          MaxTime     \* bound on the clock

Time == 0..MaxTime

(* An assessment: scores and levels follow from the supplier and the       *)
(* evidence and are left out.                                              *)
Row == [supplier : Supplier, at : Time, evidence : SUBSET Key]

(* A batch assesses every supplier of one list, each once and all at the   *)
(* same time.                                                              *)
BatchOf(S, t, evidence) ==
  {[supplier |-> s, at |-> t, evidence |-> evidence[s]] : s \in S}

Batch ==
  UNION {{BatchOf(S, t, evidence) : evidence \in [S -> SUBSET Key]} :
           S \in Snapshot, t \in Time}

VARIABLES history,  \* the batches appended to supplier_risk_history
          current   \* the rows of supplier_risk_current

mart == <<history, current>>

MartInit == history = {} /\ current = {}

Publish(B) ==
  /\ history' = history \cup {B}
  /\ UNCHANGED current

Show(B) ==
  /\ B \in history
  /\ current' = B
  /\ UNCHANGED history

MartNext == \E B \in Batch : Publish(B) \/ Show(B)

MartSpec == MartInit /\ [][MartNext]_mart

==============================================================================
