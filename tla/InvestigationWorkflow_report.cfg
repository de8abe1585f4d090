\* A review whose thread is started again for another investigation.
SPECIFICATION FairSpec
CONSTANTS
  Process = {p1, p2}
  Thread = {t1}
  Investigation = {i1, i2}
  Evidence = {e1}
  ReuseThreads = TRUE
  MaxFaults = 0
  NoState = NoState
  NoThread = NoThread
  NoReport = NoReport
  NoRequest = NoRequest
  NoDecision = NoDecision
PROPERTY ReviewKeepsReport
