SPECIFICATION WorkSpec
CONSTANTS
  Halves = {"provisioning"}
  Procs = {p1, p2}
  NoProc = NoProc
  Deprovisions = FALSE
  SlowOwners = TRUE
  MaxCrashes = 0
  MaxFailures = 0
  Jobs = {j1, j2}
  Tasks = {t1, t2}
  Owners = {t1, t2}
  OwnerOf <- OwnOwner
  Enqueuers = {e1}
  NoJob = NoJob
  NoOwner = NoOwner
  Concurrency = 1
  LeaseTime = 1
  MaxDelay = 1
  MaxAttempts = 2
  AttemptCap = 3
  MaxAbandons = 1
  MaxInterventions = 1
INVARIANTS
  StatusFollowsLifecycle
CHECK_DEADLOCK FALSE
