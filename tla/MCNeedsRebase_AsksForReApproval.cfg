SPECIFICATION Spec
CONSTANTS
  ForkOptions = {FALSE}
  Faults = FALSE
  MaxEvents = 4
INVARIANT
  AsksForReApproval
CHECK_DEADLOCK FALSE
