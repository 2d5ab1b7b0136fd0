SPECIFICATION Spec
CONSTANTS
  Datasets = {d1}
  Runs = {r1}
  Target <- OneDatasetTarget
  Content <- OneDatasetContent
  Entities = {e1}
  MaxCrashes = 0
CHECK_DEADLOCK FALSE
INVARIANT AlertsGoWithDataset
