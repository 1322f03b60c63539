SPECIFICATION MCSpec
CONSTANTS
  cv1 = cv1
  cv2 = cv2
  cv3 = cv3
  first = first
  second = second
  third = third
  None = None
  phone = phone
  web = web
  guest = guest
  mail = mail
  google = google
  job = job
  Tailorings = {cv1, cv2, cv3}
  Requests = {first, second}
  FreeLimit = 1
  ProLimit = 2
  Zones = {0, 1}
  DailyCharges = 2
  Budget = 5
  Week = 2
  MaxDays = 2
  MaxCalls = 5
  MaxFaults = 1
  Files = {cv1, cv2, cv3}
  Calls = {first, second, third}
  MaxFileCalls = 4
  MaxFileFaults = 2
  Identities = {mail, google}
  Jobs = {job}
  Devices = {phone, web}
  Users = {phone, web, guest}
  SignIns = {first, second}
  MaxSignIns = 4
  MaxDeaths = 1
INVARIANTS
  AllowanceKept
  ChargedIsServed
  FilesMatchRows
  NothingLost
  OneAccount
CONSTRAINT Bounds
CHECK_DEADLOCK FALSE
SYMMETRY Symmetry
