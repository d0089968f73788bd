SPECIFICATION ProbedSpec
CONSTANTS
  Pod = {p1}
  CacheDirOptions = {TRUE}
INVARIANT
  StartupProbeHolds
