SPECIFICATION FairSpec
CONSTANTS
  MaxRequests = 4
  MaxNoise = 2
INVARIANT OwnAnswers
INVARIANT NothingOutlives
PROPERTY RequestsEnd
CHECK_DEADLOCK FALSE
