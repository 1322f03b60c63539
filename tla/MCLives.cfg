SPECIFICATION MCSpec
CONSTANTS
  a = a
  b = b
  c = c
  d = d
  e = e
  f = f
  p = p
  q = q
  r = r
  s = s
  c1 = c1
  c2 = c2
  None = None
  Jobs = {a, b, c}
  Pollers = {p}
  Runs = {r}
  Saves = {e}
  Batch = 2
  MaxBatches = 1
  GroupLimit = 1
  MaxTime = 3
  MaxSaves = 1
  MaxHides = 1
  MaxFaults = 0
PROPERTIES
  FeedCatchesUpAlone
  NeverDarkAlone
  CatalogFollowsBoardAlone
CHECK_DEADLOCK FALSE
