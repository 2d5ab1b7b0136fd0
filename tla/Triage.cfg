SPECIFICATION TriageSpec
CONSTANTS
  Alerts = {a1, a2}
  Manual = {m1}
  Worker = w
  Patchers = {p1, p2}
  Levels <- TwoLevels
  BasePriority <- AllSecond
  Asked = {"NEW", "INVESTIGATING", "RESOLVED"}
  MaxRestarts = 1
SYMMETRY TriageSymmetry
INVARIANTS
  TriageTypeOK
  ResolvedIffInactive
  WorkedOnIsAcknowledged
  NoAlertLost
PROPERTY FieldsAreIndependent
