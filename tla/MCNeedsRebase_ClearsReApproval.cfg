SPECIFICATION Spec
CONSTANTS
  ForkOptions = {FALSE}
  Faults = FALSE
  MaxEvents = 4
INVARIANT
  ClearsReApproval
CHECK_DEADLOCK FALSE
