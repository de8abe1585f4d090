\* One fetch from either source, one copy of every event, one foreign message, pulls of
\* up to two messages by one consumer, two bootstraps, one failure.
SPECIFICATION IngestionSpec
CONSTANTS
  None = None
  Event = {"quake1", "quake2", "rain"}
  Foreign = {"foreign"}
  MaxCopies = 1
  MaxMessages = 2
  MaxDeliveries = 2
  Consumer = {c1}
  Bootstrap = {b1, b2}
  MaxFaults = 1
  Feature = {"quake1", "bad", "quake2"}
  OccursAt <- MCOccursAt
  Observation = {"rain", "fog"}
  WellFormed = {"quake1", "quake2", "rain"}
  Limit = 2
  MaxAttempts = 3
  InitialBackoff = 1
  MaxBackoff = 2
  RetryAfter <- MCRetryAfter
SYMMETRY Symmetry
\* The system rests once everything is settled.
CHECK_DEADLOCK FALSE
INVARIANTS TypeOK FetchTypeOK UnseenOnlyIfMissed FetchBounded LeftOutIsLater
PROPERTIES NothingDroppedOnceSetUp MatchingOutlivesLaterBootstraps
