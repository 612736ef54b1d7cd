SPECIFICATION Spec
CONSTANTS
  Procs = {p, q}
  MaxCycles = 2
  Policies = {a, b}
  Trees = {t, u}
  Absent = Absent
  Torn = Torn
  Some = Some
  Nobody = Nobody
  FreshRoot = FALSE
  MaxStarts = 3
  MaxStops = 0
  MaxPower = 2
  MaxLost = 1
SYMMETRY MCSymmetry
INVARIANT SurvivorsVouch
INVARIANT FinishedIsDurable
INVARIANT PoolHasHistory
CHECK_DEADLOCK FALSE
