SPECIFICATION Spec
CONSTANTS
  a = a
  b = b
  c = c
  r = r
  s = s
  Jobs = {a, b}
  Cycles = {r, s}
  AsksPerDay = 1
  ChecksPerDay = 2
  Modes = {"ask", "auto"}
  Faults = {"crash", "error"}
  MaxTrouble = 1
  MaxTime = 1
INVARIANTS
  NobodyForgotten
  AsksADay
CHECK_DEADLOCK FALSE
SYMMETRY Symmetry
