\* One session, a second script beside one that a click has stopped, two investigations, two
\* batches, tables within the budget (0 bytes) that may come to exceed it (1).
SPECIFICATION Spec
CONSTANTS
  None = None
  Session = {u1}
  Script = {c1, c2}
  Budget = 0
  MaxBytes = 1
  Supplier = {"s1"}
  Key = {"quake"}
  Snapshot <- MCSnapshot
  MaxTime = 1
  Batches <- MCBatches
  Thread = {t1, t2}
  HistoryLimit = 1
  MaxKeys = 1
  MaxEvents = 1
  MaxFaults = 1
SYMMETRY Symmetry
INVARIANTS TypeOK BilledWithinBudget HistoryHasAssessment EvidenceIsNamed PageShowsItsReport
PROPERTIES SettledDecisionStands ImplementsReview
