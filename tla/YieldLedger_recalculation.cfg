SPECIFICATION AllSpec
CONSTANTS
  Weather = {w1, w2}
  Runs = {r1, r2}
  Intervals = {i1, i2}
  Nothing = Nothing
  PurgeLimit = 1
  Horizon = 0
  Ranges <- Overlapping
  Calls = {c1, c2}
  MaxDeaths = 0
  Halves = {"command"}
PROPERTIES
  AnsweredIsRebuilt
CHECK_DEADLOCK FALSE
