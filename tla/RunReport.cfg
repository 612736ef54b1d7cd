SPECIFICATION FairReport
CONSTANTS
  Procs = {p}
  MaxCycles = 2
  Policies = {a}
  Trees = {t}
  Absent = Absent
  Torn = Torn
  Some = Some
  Nobody = Nobody
  FreshRoot = TRUE
  MaxStarts = 3
  MaxStops = 1
  MaxPower = 0
  MaxReported = 2
  MaxLost = 1
PROPERTY SessionsEnd
PROPERTY ReportWasTrue
PROPERTY RequestPrecedesWork
CHECK_DEADLOCK FALSE
