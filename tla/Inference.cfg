SPECIFICATION InferenceSpec
CONSTANTS
  Null = Null
  alice = alice
  bob = bob
  Datasets <- MCDatasets
  Limits <- MCLimits
CHECK_DEADLOCK FALSE
INVARIANT ScoresTheWholeDataset
INVARIANT ValidDatasetsAreScored
