\* An earthquake with two contents of revision 1 and a revision 2, a weather forecast
\* with two contents, three messages of any of them, two workers.
SPECIFICATION Spec
CONSTANTS
  Key = {"q", "w"}
  Version = {"q1A", "q1B", "q2", "wA", "wB"}
  KeyOf <- MCKeyOf
  RevisionOf <- MCRevisionOf
  NoRevision = NoRevision
  NoVersion = NoVersion
  Message = {m1, m2, m3}
  Worker = {p1, p2}
  NoWorker = NoWorker
  NoMessage = NoMessage
  MaxDeliveryAttempts = 1
  ForwardFrom = 1
  MaxFaults = 2
SYMMETRY Symmetry
INVARIANTS TypeOK AckedIsCovered AcceptedIsStored CoreNeverBehindLedger SettledKeysAgree
PROPERTIES LedgerOnlyAdvances CoreOnlyAdvances AckedNeverHandledAgain ImplementsEventStore
\* The system rests once every message is settled.
CHECK_DEADLOCK FALSE
