SPECIFICATION FairSpec
CONSTANTS
  p1 = p1  p2 = p2
  Process = {p1, p2}
  Version = {1, 2, 3}
  Pgvector = 2
  Dimension = {2, 3}
  Item = {1, 2}
  MayInstall = TRUE
  MayReset = TRUE
  MaxStarts = 4
  MaxCrashes = 1
INVARIANTS MigratedInOrder ReadyIsMigrated RowsAreSearchable
PROPERTIES QuietStartSucceeds StartsEnd
CHECK_DEADLOCK FALSE
