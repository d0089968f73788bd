SPECIFICATION Spec
CONSTANTS
  Backticks = {"heredoc"}
  Targets <- MCTargets
  CiTargets = {"rich", "plain"}
  Books <- MCBooks
  Redrafts <- MCRedrafts
  Manifests <- MCManifests
  Refs = {"rel"}
  MaxMoves = 2
INVARIANTS
  TypeOK
  CommandKeepsPromise
  HarvestAgrees
  SecretsStayOut
  PublishedTruth
CHECK_DEADLOCK FALSE
