SPECIFICATION Spec
CONSTANTS
  Pod = {p1, p2}
  CacheDirOptions = {TRUE, FALSE}
INVARIANTS
  TypeOK
  ServingResident
  ImagesLean
  PurgeAccountedFor
PROPERTIES
  StartSettles
  KeepsReadyGate
