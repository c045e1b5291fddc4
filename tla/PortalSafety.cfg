SPECIFICATION Spec
CONSTANTS
  Request = {req}
  Url = {a, bad}
  Raising = {bad}
  Session = {s}
  Nothing = Nothing
  Repeatable = {1}
  Migrations = 2
  MaxServices = 2
  MaxFeeds = 1
  MaxRuns = 1
  MaxErrors = 1
  MaxKills = 1
INVARIANTS
  TypeOK
  ResultsBelong
  ItemsBelong
