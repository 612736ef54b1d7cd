SPECIFICATION Spec
CONSTANTS
  Workers = {v, w, z}
  Parts = {f, g}
  Values = {x, y}
  Gone = Gone
  MaxCaptures = 5
  MaxEdits = 3
  MaxFailures = 1
SYMMETRY MCSymmetry
INVARIANT RefsNameTheirState
INVARIANT CapturesWhatWasLeft
INVARIANT RefsAreDurable
CHECK_DEADLOCK FALSE
