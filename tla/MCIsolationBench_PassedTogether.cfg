SPECIFICATION Spec
CONSTANTS
  Levels <- MCLevels
  Retries = 1
  MaxInvocations = 3
INVARIANT PassedTogether
CHECK_DEADLOCK FALSE
