SPECIFICATION Spec
CONSTANTS
  Candidates = {c1, c2}
  Stranger = Stranger
  Ks = {1, 2}
  Required = 2
  MaxScore = 1
  Threshold = 1
  MaxAnswer = 3
  MaxRuns = 2
SYMMETRY Symmetry
INVARIANTS TypeOK SelectedAccounted ReturnedAreCompleted ShortlistIsStored ScoredAreSynchronized WarningIsTrue ReportIsExplained BrokenRunIsSilent
CHECK_DEADLOCK FALSE
