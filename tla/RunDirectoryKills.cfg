SPECIFICATION Spec
CONSTANTS
  Procs = {p, q}
  MaxCycles = 2
  Policies = {a, b}
  Trees = {t, u}
  Absent = Absent
  Torn = Torn
  Some = Some
  Nobody = Nobody
  FreshRoot = FALSE
  MaxStarts = 3
  MaxStops = 2
  MaxPower = 0
  MaxLost = 0
SYMMETRY MCSymmetry
INVARIANT TypeOK
INVARIANT RecordVouches
INVARIANT OneHistory
INVARIANT NeverBroken
PROPERTY FinishedIsKept
PROPERTY ImplementsHistory
CHECK_DEADLOCK FALSE
