SPECIFICATION Spec
CONSTANTS
  e1 = e1
  e2 = e2
  e3 = e3
  Entities <- MCEntities
  Exchanges <- MCExchanges
  Initial <- MCInitial
  Total = 2
  Quarters = {0}
  Many = {2}
  Crowd = 2
  Rounds = {2, 3}
SYMMETRY MCSymmetry
CHECK_DEADLOCK FALSE
INVARIANTS
  TypeOK
  BooksAgree
  ExportIsConsistent
  OnlyBatchesOverdraw
