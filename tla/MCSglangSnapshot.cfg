SPECIFICATION Spec
CONSTANTS
  Pod = {p1, p2}
  CacheDirOptions = {TRUE}
INVARIANTS
  TypeOK
  HealthyResident
  StatusGivenBack
  ImagesHeld
PROPERTIES
  StartSettles
  KeepsReadyGate
