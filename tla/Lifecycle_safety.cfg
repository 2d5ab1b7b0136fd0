SPECIFICATION Spec
CONSTANTS
  Datasets = {d1}
  Runs = {r1, r2}
  Target <- OneDatasetTarget
  Content <- OneDatasetContent
  Entities = {e1, e2}
  MaxCrashes = 1
CHECK_DEADLOCK FALSE
SYMMETRY EntitySymmetry
INVARIANTS
  TypeOK
  OneActiveRun
  ResultsMatchOutcome
  RunsOnReadyDatasets
  DatasetStatusTellsRows
  ScoresWholeDataset
PROPERTIES
  FinishedRunsAreFrozen
  ImplementsRegistry
