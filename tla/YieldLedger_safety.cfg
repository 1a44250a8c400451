SPECIFICATION AllSpec
CONSTANTS
  Weather = {w1, w2}
  Runs = {r1, r2}
  Intervals = {i1, i2}
  Nothing = Nothing
  PurgeLimit = 1
  Horizon = 2
  Ranges <- Adjacent
  Calls = {c1, c2}
  MaxDeaths = 1
  Halves = {"ledger", "command"}
PROPERTIES
  Explained
  ActiveResultsStay
  RetentionDrains
  AnsweredIsRebuilt
CHECK_DEADLOCK FALSE
