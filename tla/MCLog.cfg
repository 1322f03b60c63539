SPECIFICATION MCSpec
CONSTANTS
  a = a
  b = b
  c = c
  d = d
  e = e
  closing = closing
  deadline = deadline
  followup = followup
  t = t
  u = u
  Notes = {a, b, c, d, e}
  Kinds <- MCKinds
  KindOf <- MCKindOf
  Capped = {closing, deadline, followup}
  Unspaced = {followup}
  Grouped = {closing}
  Ticks = {t, u}
  PerDay = 2
  Spacing = 3
  Window = 5
  RetryDelay = 1
  ClaimExpiry = 2
  Switched = {closing}
  MaxFaults = 1
  MaxTime = 7
INVARIANTS
  NotifiedOnce
  RowsHeldOnce
  CapKept
  TriedThrice
  HeldOnlyAtCap
SYMMETRY MCSymmetry
CHECK_DEADLOCK FALSE
