\* Three processes, every thread started once: the investigation and its reviews.
SPECIFICATION FairSpec
CONSTANTS
  Process = {p1, p2, p3}
  Thread = {t1}
  Investigation = {i1, i2}
  Evidence = {e1}
  ReuseThreads = FALSE
  MaxFaults = 1
  NoState = NoState
  NoThread = NoThread
  NoReport = NoReport
  NoRequest = NoRequest
  NoDecision = NoDecision
PROPERTIES ImplementsHumanReview ReviewTakesEffect
\* The system rests once every thread has been used.
CHECK_DEADLOCK FALSE
