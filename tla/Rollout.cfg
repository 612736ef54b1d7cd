SPECIFICATION FairRetrace
CONSTANTS
  Workers = 2
  MaxRounds = 3
  MaxNodes = 4
  MaxBranches = 2
  MaxRefinements = 1
  Outcomes = {1}
  NoProposal = NoProposal
  Unknown = Unknown
  MaxBatch = 3
INVARIANT NodeIsItsAttempt
INVARIANT RecordingIsLegal
INVARIANT RetraceIsExact
PROPERTY Stops
CHECK_DEADLOCK FALSE
