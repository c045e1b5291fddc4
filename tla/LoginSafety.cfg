SPECIFICATION Spec
CONSTANTS
  Shared = Shared
  Request = {r1, r2, r3}
  Client = {c1}
  FailureLimit = 2
  Window = 2
  CleanupEvery = 1
  Burst = 2
  Concurrency = 2
  MaxTime = 3
SYMMETRY Symmetry
INVARIANTS
  TypeOK
  SlotsConserved
  ReservationsExact
  FailuresWithinLimit
  AdmissionsWithinBudget
  NoRecentFailureForgotten
