SPECIFICATION Spec
CONSTANTS
  Levels <- MCLevels
  Retries = 1
  MaxInvocations = 2
INVARIANTS
  TypeOK
  LevelsTogether
  PassesOnItsOwn
PROPERTIES
  RetryLosesNothing
CHECK_DEADLOCK FALSE
