SPECIFICATION FairSpec
CONSTANTS
  Datasets = {d1}
  Runs = {r1, r2}
  Target <- OneDatasetTarget
  Content <- OneDatasetContent
  Entities = {e1}
  MaxCrashes = 0
CHECK_DEADLOCK FALSE
PROPERTIES
  RunsSettle
  RequestsSettle
