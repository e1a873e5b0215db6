SPECIFICATION Spec
CONSTANTS
  Tasks = {t1}
  Workers = {w1, w2}
  Requests = {r1, r2}
  NoTask = NoTask
  Slow = {t1}
  Confirms = {TRUE, FALSE}
  MaxFaults = 1
SYMMETRY Symmetry
INVARIANTS TypeOK OneExecution PendingIsUnstarted SuccessIsComplete
PROPERTIES AtMostOnce SuccessFinal OwnFailureFinal StatusPromise
CHECK_DEADLOCK FALSE
