SPECIFICATION Spec
CONSTANTS
  Absent = Absent
  NoOne = NoOne
  Reconciler = {watch}
  Daemon = {watch}
  MaxRuns = 2
  DryRunner = {}
  NoRestarter = {}
  RestartOnChange = TRUE
  Body = {good}
  Malformed = {}
  Looping = {}
  Failing = {}
  MaxEdits = 1
  MaxErrors = 0
  MaxKills = 1
  MaxEvents = 0
CONSTRAINT OwnBase
PROPERTY UnchangedMeansServed
