SPECIFICATION RSpec
CONSTANTS
  Seeder = {s1, s2}
  Badge <- MCBadge
  Wanted <- MCBadge
  Retries = 2
  MaxCommits = 5
  Lanes <- MCLanes
  NewLanes <- MCNewLanes
  Guides <- MCGuides
  Providers = {"gke", "amd"}
  None = "none"
  Series = "release-1.0"
  Version = {"v1.0.0"}
  Older <- MCOlder
INVARIANTS
  TypeOK
  DoneMeansComplete
  CreatedOnce
  NoBrokenCells
PROPERTIES
  KeepsStore
SYMMETRY MCSymmetry
CHECK_DEADLOCK FALSE
