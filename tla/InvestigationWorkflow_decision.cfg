\* Two reviewers of one report.
SPECIFICATION FairSpec
CONSTANTS
  Process = {p1, p2}
  Thread = {t1}
  Investigation = {i1}
  Evidence = {e1}
  ReuseThreads = FALSE
  MaxFaults = 0
  NoState = NoState
  NoThread = NoThread
  NoReport = NoReport
  NoRequest = NoRequest
  NoDecision = NoDecision
PROPERTY FirstDecisionStands
\* The system rests once every thread has been used.
CHECK_DEADLOCK FALSE
