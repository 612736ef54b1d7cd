SPECIFICATION SpecLoop
CONSTANTS
  Scores <- MCScores
  NoScore = NoScore
  Odd = Odd
  MaxSize = 4
  MaxScored = 3
  Limit = DefaultLimit
  DefaultLimit = DefaultLimit
  MaxBatch = 2
  Budgets = {1, 2}
  NoBudget = NoBudget
  MaxSolved = 3
  Betas = {1, 2, 4}
  MaxForked = 2
INVARIANT RevealedInOrder
INVARIANT DefaultCapSpares
INVARIANT TrajectoryReadsBack
INVARIANT ClosedIsExhausted
INVARIANT SolveEndsInTime
INVARIANT BaselinesAreLegal
INVARIANT BaselinesStopForCause
INVARIANT SignalsAgree
CHECK_DEADLOCK FALSE
