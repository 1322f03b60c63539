SPECIFICATION MCSpec
CONSTANTS
  j = j
  k = k
  phone = phone
  pad = pad
  q = q
  r = r
  Jobs <- OneJob
  Devices <- TwoDevices
  Runs <- TwoRuns
  Modes = {FALSE}
  Events = {"devices", "matches"}
  Faults = {}
  MaxFaults = 0
  MaxTokens = 2
  MaxDays = 1
INVARIANTS
  AlertedOnce
  DigestOnce
  NobodyForgotten
  EndIsTrue
SYMMETRY RunSymmetry
CHECK_DEADLOCK FALSE
