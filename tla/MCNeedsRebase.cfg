SPECIFICATION Spec
CONSTANTS
  ForkOptions = {TRUE, FALSE}
  Faults = TRUE
  MaxEvents = 4
INVARIANTS
  TypeOK
  RestIsRight
  AsksWhenAlone
  CommentedOnce
CHECK_DEADLOCK FALSE
