SPECIFICATION MCSpec
CONSTANTS
  j = j
  k = k
  phone = phone
  pad = pad
  q = q
  r = r
  Jobs <- OneJob
  Devices <- TwoDevices
  Runs <- OneRun
  Modes = {FALSE}
  Events = {"settings"}
  Faults = {"crash"}
  MaxFaults = 1
  MaxTokens = 1
  MaxDays = 1
PROPERTIES
  AlertsEnd
CHECK_DEADLOCK FALSE
