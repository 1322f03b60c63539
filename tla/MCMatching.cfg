SPECIFICATION Spec
CONSTANTS
  a = a
  b = b
  c = c
  d = d
  e = e
  f = f
  p = p
  q = q
  r = r
  s = s
  Jobs = {a, b, c}
  Pollers = {p}
  Runs = {r, s}
  Saves = {e, f}
  Batch = 2
  MaxBatches = 2
  GroupLimit = 2
  MaxTime = 3
  MaxSaves = 2
  MaxHides = 1
  MaxFaults = 1
INVARIANTS
  NothingSkipped
  FeedIsOfProfile
CHECK_DEADLOCK FALSE
SYMMETRY Symmetry
CONSTRAINT Bounds
