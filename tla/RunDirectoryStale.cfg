SPECIFICATION Spec
CONSTANTS
  Procs = {p}
  MaxCycles = 2
  Policies = {a, b}
  Trees = {t}
  Absent = Absent
  Torn = Torn
  Some = Some
  Nobody = Nobody
  FreshRoot = FALSE
  MaxStarts = 3
  MaxStops = 1
  MaxPower = 1
  MaxLost = 0
INVARIANT OneHistory
CHECK_DEADLOCK FALSE
