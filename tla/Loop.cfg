SPECIFICATION Spec
CONSTANTS
  Conditions <- MCMixed
  Cooldown = 2
  Quota = 1
  MaxConds = 2
  MaxClock = 3
INVARIANTS DecidedOnce EveryActionRecorded
PROPERTIES TickEnds
