SPECIFICATION FairSpec
CONSTANTS
  Requests = {r1}
  Resumes = {u1, u2}
  Matching = {u1, u2}
  Exclusions = {{}, {u2}}
  Required = 2
  Located = {TRUE, FALSE}
  Remote = {TRUE, FALSE}
  Skilled = {TRUE, FALSE}
  TitleAnswers = {"original", "general"}
  SkillCounts = {0, 1, 2}
  Places <- PlacesSent
  Plans <- PlansMade
  MaxAttempts = 4
  MaxStale = 2
  NoResume = NoResume
  MaxFaults = 1
INVARIANTS TypeOK CountedAreReturned GivesUpInVain
PROPERTIES EveryRequestEnds
CHECK_DEADLOCK FALSE
