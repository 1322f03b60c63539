SPECIFICATION Spec
CONSTANTS
  job1 = job1
  job2 = job2
  invite = invite
  rejection = rejection
  call1 = call1
  call2 = call2
  NoJob = NoJob
  NoMail = NoMail
  Jobs = {job1, job2}
  Tracked <- MCTracked
  Emails = {invite, rejection}
  Reports <- MCReports
  Dated = {invite}
  Picks = {"saved", "interview", "ghosted"}
  Callers = {call1, call2}
  MaxApps = 3
  MaxCalls = 3
  Leeway = 1
  MaxDeaths = 1
INVARIANTS
  TimelineAgrees
  EmailSortedOnce
  DateFitsStage
PROPERTIES
  PersonsDateStays
CHECK_DEADLOCK FALSE
SYMMETRY Symmetry
