SPECIFICATION Spec
CONSTANTS
  Person = {ann, bob}
  RemindAfter = 2
  UnassignAfter = 1
  Every = 2
  MaxTime = 7
SYMMETRY Symmetry
INVARIANTS
  TypeOK
  WarnedBeforeRemoval
  OneReminder
  HelpWantedFirst
  FreedInTime
CHECK_DEADLOCK FALSE
