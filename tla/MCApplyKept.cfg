SPECIFICATION Spec
CONSTANTS
  a = a
  b = b
  c = c
  j = j
  NoSession = NoSession
  NoSend = NoSend
  Sends <- ThreeSends
  Jobs <- RaceJobs
  JobOf <- ThreeJobOf
  Real <- RaceSends
  Checks = {}
  Automatic = {}
  Limit = 1
  Faults = {}
  MaxFaults = 0
INVARIANTS
  BrowserHasOneSend
  NoOpenPageClosed
  KeptFormLetGo
SYMMETRY Symmetric
CHECK_DEADLOCK FALSE
