\* Two processes on one thread that may be started again for either of two
\* investigations at any time, with one crash.
SPECIFICATION Spec
CONSTANTS
  Process = {p1, p2}
  Thread = {t1}
  Investigation = {i1, i2}
  Evidence = {e1}
  ReuseThreads = TRUE
  MaxFaults = 1
  NoState = NoState
  NoThread = NoThread
  NoReport = NoReport
  NoRequest = NoRequest
  NoDecision = NoDecision
SYMMETRY Symmetry
INVARIANTS TypeOK ReviewedIsValidated DecisionNamesItsInvestigation FailedKeepsNothing
