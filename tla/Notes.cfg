SPECIFICATION Spec
CONSTANTS
  Absent = Absent
  Locked = Locked
  None = None
  MaxEdits = 4
  MaxFailures = 3
  MaxEnds = 2
INVARIANT
  EditsSafe
PROPERTY
  LocksEnd
