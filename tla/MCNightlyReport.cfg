SPECIFICATION Spec
CONSTANTS
  MaxE2E = 5
  MaxCold = 3
  MaxOverhead = 2
  MaxWarm = 1
  LoadTime = 2
  MaxTime = 5
  MaxPods = 3
  MaxFaults = 1
  MaxManual = 2
  MaxAttempts = 2
  File = {"f1", "f2"}
  Name = {"n1", "n2"}
  Channel = {"alerts", "sig"}
  Fallback = "alerts"
  Nightly = "f1"
  Mains <- MCMains
CHECK_DEADLOCK FALSE
INVARIANTS TypeOK VerdictIsTrue FailureHeard
PROPERTY GuideBlamedRightly
