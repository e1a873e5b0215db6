SPECIFICATION Spec
CONSTANTS
  Candidates = {c1}
  NoEmail = {}
  Recruiters = {r1}
  Managers = {m1}
  Scorers = {w1}
  NoCandidate = NoCandidate
  RecruiterKinds = {"share", "update", "notes"}
  ManagerKinds = {"review", "schedule", "end", "reopen"}
PROPERTIES ReopenedByManager
