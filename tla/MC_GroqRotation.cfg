SPECIFICATION FairSpec
CONSTANTS
  NumKeys = 3
  Calls = {c1, c2}
  Cooldowns = {0, 2}
  MaxTime = 2
INVARIANTS TypeOK BlameIsFair GivesUpExhausted
PROPERTIES RestingKeysRest EveryCallEnds
CHECK_DEADLOCK FALSE
