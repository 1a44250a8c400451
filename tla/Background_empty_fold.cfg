SPECIFICATION Background
CONSTANTS
  Halves = {"archive"}
  Inverters = {v1, v2}
  Ids = {i1, i2}
  Compactors = {w1, w2}
  Folders = {f1}
  Outlives = FALSE
  MaxRevision = 3
  MaxCrashes = 1
  Senders = {s1, s2}
  Queries = {q1, q2}
  Dispatchers = {d1, d2}
  LastTime = 3
  BatchSize = 2
  UploadAttempts = 2
  MaxStops = 1
  DeliveryAttempts = 3
  MaxReplays = 2
  MaxLosses = 2
PROPERTY EveryFoldEnds
CHECK_DEADLOCK FALSE
