\* One process whose first batch is slow: two batches, one failure.
SPECIFICATION Spec
CONSTANTS
  Supplier = {"s1", "s2"}
  Key = {"storm"}
  Event = {"storm"}
  KeyOf <- MCKeyOf
  RevisionOf <- MCRevisionOf
  NoRevision = NoRevision
  FamilyOf <- MCFamilyOf
  OccurredAt <- MCOccurredAt
  Concerns <- MCConcerns
  Lookback <- MCLookback
  Snapshot <- MCSnapshot
  MaxTime = 1
  Process = {p1}
  MaxRuns = 2
  MaxFaults = 1
PROPERTIES CurrentNeverGoesBack
