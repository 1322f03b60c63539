SPECIFICATION Spec
CONSTANTS
  a = a
  b = b
  p = p
  q = q
  c1 = c1
  c2 = c2
  Jobs = {a, b}
  Pollers = {p, q}
  Claims = {c1, c2}
  None = None
  Modes = {"queue","cron","admin"}
  Kinds = {"complete","partial","references"}
  CloseAfter = 2
  QuarantineAfter = 3
  TrustFrom = 2
  MaxFaults = 2
  MaxChanges = 1
INVARIANTS
  OnePollAtATime
  OneBadAnswer
CHECK_DEADLOCK FALSE
SYMMETRY Symmetry
