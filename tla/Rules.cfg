SPECIFICATION Spec
CONSTANTS
  Results <- SomeResults
  Buckets = {1}
  Origins = {"o1"}
  Clusters = {"c1"}
  MaxResults = 3
CHECK_DEADLOCK FALSE
INVARIANTS
  BandsAgree
  HighRiskAlertedOnce
  TiesDoNotMatter
