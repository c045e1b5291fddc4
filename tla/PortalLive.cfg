SPECIFICATION FairSpec
CONSTANTS
  Request = {}
  Url = {a, b, bad}
  Raising = {bad}
  Session = {s}
  Nothing = Nothing
  Repeatable = {1}
  Migrations = 2
  MaxServices = 2
  MaxFeeds = 1
  MaxRuns = 1
  MaxErrors = 0
  MaxKills = 1
PROPERTIES
  SessionsCleaned
  CheckedUnlessRaising
  ComesUpUnlessTorn
