SPECIFICATION FairSpec
CONSTANTS
  Tasks = {t1}
  Workers = {w1, w2}
  Requests = {r1}
  NoTask = NoTask
  Slow = {t1}
  Confirms = {FALSE}
  MaxFaults = 1
PROPERTIES PollStops
CHECK_DEADLOCK FALSE
