SPECIFICATION Spec
CONSTANTS
  Absent = Absent
  NoOne = NoOne
  Reconciler = {watch, manual}
  Daemon = {watch, manual}
  MaxRuns = 0
  DryRunner = {}
  NoRestarter = {}
  RestartOnChange = TRUE
  Body = {good, fatal, loop}
  Malformed = {}
  Looping = {loop}
  Failing = {fatal}
  MaxEdits = 1
  MaxErrors = 1
  MaxKills = 1
  MaxEvents = 1
SYMMETRY Symmetry
CONSTRAINT OwnBase
INVARIANTS
  TypeOK
  ServedUnlessLapse
  OnlyOwnWriteUndone
  BackupIsPrevious
PROPERTIES
  Implements
