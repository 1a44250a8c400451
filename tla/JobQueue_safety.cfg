SPECIFICATION WorkSpec
CONSTANTS
  Halves = {"queue"}
  Procs = {p1}
  NoProc = NoProc
  Deprovisions = FALSE
  SlowOwners = FALSE
  MaxCrashes = 0
  MaxFailures = 0
  Jobs = {j1, j2}
  Tasks = {t1, t2}
  Owners = {t1, t2}
  OwnerOf <- OwnOwner
  Enqueuers = {e1, e2}
  NoJob = NoJob
  NoOwner = NoOwner
  Concurrency = 1
  LeaseTime = 2
  MaxDelay = 1
  MaxAttempts = 2
  AttemptCap = 3
  MaxAbandons = 1
  MaxInterventions = 2
INVARIANTS
  LeaseExclusive
  RetryBudget
PROPERTIES
  RevokedRecordsNothing
CHECK_DEADLOCK FALSE
SYMMETRY Symmetry
