SPECIFICATION Spec
SYMMETRY Symmetry
CONSTANTS
  Thread = {t1, t2}
  Browser = {b1}
  Token = {k1, k2}
  Legacy = Legacy
  Hash = {h1, h2}
  Code = {c1}
  Target = {g1, g2}
  None = None
  Ttl = 1
  Attempts = 2
  Kinds = {"login", "logout", "create", "delete", "get", "head"}
  MaxTime = 1
  MaxRequests = 5
  MaxRestarts = 2
  MaxErrors = 1
INVARIANTS
  AcceptedStillValid
  NoOrphan
  ClicksExact
CHECK_DEADLOCK FALSE
