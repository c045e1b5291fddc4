SPECIFICATION FairSpec
CONSTANTS
  Absent = Absent
  NoOne = NoOne
  Reconciler = {watch, dry, hand}
  Daemon = {watch}
  MaxRuns = 1
  DryRunner = {dry}
  NoRestarter = {hand}
  RestartOnChange = TRUE
  Body = {good, fatal, broken}
  Malformed = {broken}
  Looping = {}
  Failing = {fatal}
  MaxEdits = 1
  MaxErrors = 0
  MaxKills = 1
  MaxEvents = 0
PROPERTIES
  EveryRunEnds
  Converges
  RestartsCease
