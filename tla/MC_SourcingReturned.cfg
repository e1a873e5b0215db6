SPECIFICATION Spec
CONSTANTS
  Requests = {r1, r2}
  Resumes = {u1, u2}
  Matching = {u1, u2}
  Exclusions = {{}}
  Required = 2
  Located = {TRUE}
  Remote = {FALSE}
  Skilled = {TRUE}
  TitleAnswers = {"original"}
  SkillCounts = {1}
  Places <- PlacesSent
  Plans <- PlansMade
  MaxAttempts = 2
  MaxStale = 2
  NoResume = NoResume
  MaxFaults = 0
SYMMETRY Symmetry
INVARIANTS SourcedAreReturned
CHECK_DEADLOCK FALSE
