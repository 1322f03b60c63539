SPECIFICATION Spec
CONSTANTS
  a = a
  b = b
  c = c
  j = j
  NoSession = NoSession
  NoSend = NoSend
  Sends <- RaceSends
  Jobs <- RaceJobs
  JobOf <- RaceJobOf
  Real <- RaceSends
  Checks = {}
  Automatic <- OneSend
  Limit = 2
  Faults = {"request", "attempt"}
  MaxFaults = 2
INVARIANTS
  IInv
  SentOnce
  SentIsNotDenied
  SentHoldsAllowance
PROPERTIES
  StatusMovesOn
  KeepsThePromise
CHECK_DEADLOCK FALSE
