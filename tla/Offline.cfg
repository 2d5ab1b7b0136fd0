SPECIFICATION Spec
CONSTANTS
  Null = Null
  alice = alice
  bob = bob
  carol = carol
  Samples <- MCSamples
  MaxRuns = 5
  MaxCrashes = 1
INVARIANTS
  TypeOK
  CanonicalIsConsistent
  FeaturesAreHistory
  SnapshotsMatchTheGraph
  ModelingIsWhole
CHECK_DEADLOCK FALSE
