SPECIFICATION Spec
CONSTANTS
  Procs = {p, q}
  MaxCycles = 1
  Policies = {a, b}
  Trees = {t, u}
  Absent = Absent
  Torn = Torn
  Some = Some
  Nobody = Nobody
  FreshRoot = TRUE
  MaxStarts = 1
  MaxStops = 0
  MaxPower = 1
  MaxLost = 0
INVARIANT FinishedIsDurable
CHECK_DEADLOCK FALSE
