SPECIFICATION Spec
CONSTANTS
  Absent = Absent
  MaxEdits = 1
  MaxErrors = 2
  MaxKills = 1
  MaxManual = 2
  MaxEvents = 1
INVARIANTS
  TypeOK
  RouterMeansLoopback
  Served443
PROPERTIES
  EditsKept
