\* Liveness: two messages of conflicting and later contents; fewer faults than the
\* deliveries a message has, and forwarding exactly at the limit.
SPECIFICATION FairSpec
CONSTANTS
  Key = {"q"}
  Version = {"q1A", "q1B", "q2"}
  KeyOf <- MCKeyOf
  RevisionOf <- MCRevisionOf
  NoRevision = NoRevision
  NoVersion = NoVersion
  Message = {m1, m2}
  Worker = {p1, p2}
  NoWorker = NoWorker
  NoMessage = NoMessage
  MaxDeliveryAttempts = 3
  ForwardFrom = 3
  MaxFaults = 2
PROPERTIES EveryMessageSettles EveryMessageAcked
\* The system rests once every message is settled.
CHECK_DEADLOCK FALSE
