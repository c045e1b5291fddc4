SPECIFICATION FairSpec
CONSTANTS
  Nothing = Nothing
  Reconciler = {watch, manual, dry}
  Daemon = {watch}
  DryRunner = {dry}
  Manage = TRUE
  Port = {own, spare}
  OwnPort = own
  MaxId = 4
  MaxTraffic = 1
  MaxRuns = 1
  MaxEdits = 2
  MaxErrors = 1
INVARIANTS
  TypeOK
PROPERTIES
  OnlyOwnedWritten
  Repaired
