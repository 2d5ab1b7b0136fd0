SPECIFICATION Spec
CONSTANTS
  Rows = 2
  ChunkSizes = {2, 3}
  PoolMax = 5
  Boot = 3
  Reserve = 0
  Seeds = {50000}
  Boosts = {90000}
  Few = {2}
  Many = {3}
  BurstSizes = {2}
  Telemetry = {"mapped", "private"}
  Quarters = {0, 4}
CHECK_DEADLOCK FALSE
INVARIANTS
  TypeOK
  RowsAreSound
  ManifestMatchesFile
PROPERTIES
  ImplementsCoinBook
