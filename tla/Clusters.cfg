SPECIFICATION Spec
CONSTANTS
  Addresses = {a1, a2, a3, a4}
  None = None
  MaxTxs = 3
  Rows <- MCRows
SYMMETRY MCSymmetry
INVARIANTS
  TypeOK
  ForestIsSound
  ClustersAreComponents
  HistoryIsPrior
PROPERTY ImplementsClusters
