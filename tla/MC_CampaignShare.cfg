SPECIFICATION Spec
CONSTANTS
  Candidates = {c1, c2}
  NoEmail = {c2}
  Recruiters = {r1}
  Managers = {m1}
  Scorers = {}
  NoCandidate = NoCandidate
  RecruiterKinds = {"share", "notes"}
  ManagerKinds = {"review", "schedule"}
INVARIANTS InvitationFirst
PROPERTIES SharedAsSelected
