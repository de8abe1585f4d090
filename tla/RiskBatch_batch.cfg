\* Two processes, two batches, a supplier list that grows and shrinks, one failure.
SPECIFICATION Spec
CONSTANTS
  Supplier = {"s1", "s2"}
  Key = {"quake"}
  Event = {"quake1", "quake2", "quake2*"}
  KeyOf <- MCKeyOf
  RevisionOf <- MCRevisionOf
  NoRevision = NoRevision
  FamilyOf <- MCFamilyOf
  OccurredAt <- MCOccurredAt
  Concerns <- MCConcerns
  Lookback <- MCLookback
  Snapshot <- MCSnapshot
  MaxTime = 1
  Process = {p1, p2}
  MaxRuns = 2
  MaxFaults = 1
SYMMETRY Symmetry
INVARIANTS TypeOK EvidenceIsWhole
PROPERTIES ImplementsRiskMart
