SPECIFICATION SpecReport
CONSTANTS
  Procs = {p}
  MaxCycles = 2
  Policies = {a}
  Trees = {t}
  Absent = Absent
  Torn = Torn
  Some = Some
  Nobody = Nobody
  FreshRoot = FALSE
  MaxStarts = 2
  MaxStops = 1
  MaxPower = 0
  MaxReported = 2
  MaxLost = 0
PROPERTY RefusedWasNoRun
CHECK_DEADLOCK FALSE
