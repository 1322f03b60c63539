SPECIFICATION FairSpec
CONSTANTS
  a = a
  b = b
  c = c
  j = j
  NoSession = NoSession
  NoSend = NoSend
  Sends <- OneSend
  Jobs <- RaceJobs
  JobOf <- OneJobOf
  Real <- OneSend
  Checks = {}
  Automatic <- OneSend
  Limit = 2
  Faults = {"attempt", "finish"}
  MaxFaults = 5
INVARIANTS
  BooksSettled
PROPERTIES
  EverySendEnds
  EveryWorkflowEnds
CHECK_DEADLOCK FALSE
