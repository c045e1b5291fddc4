SPECIFICATION FetchSpec
CONSTANTS
  Address <- MCAddress
  Name = Name
  Localhost = Localhost
  None = None
  MaxRedirects = 2
  MaxBytes = 1
INVARIANTS
  FetchTypeOK
  ConnectionsChecked
PROPERTY
  FetchEnds
CHECK_DEADLOCK FALSE
