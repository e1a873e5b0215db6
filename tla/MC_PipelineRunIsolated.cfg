SPECIFICATION Spec
CONSTANTS
  Candidates = {c1, c2}
  Stranger = Stranger
  Ks = {1, 2}
  Required = 2
  MaxScore = 1
  Threshold = 1
  MaxAnswer = 2
  MaxRuns = 1
SYMMETRY Symmetry
INVARIANTS SyncFailureIsolated
CHECK_DEADLOCK FALSE
