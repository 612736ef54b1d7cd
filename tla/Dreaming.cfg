SPECIFICATION FairSpec
CONSTANTS
  History = 3
  Limit = 2
  NoLimit = NoLimit
  MaxVersions = 3
  MaxAttempts = 2
  Workers = 2
  CostWeight = 1
  BonusWeight = 1
  Scale = 2
  Replays <- MCReplays
  NoScore = NoScore
  NegInf = NegInf
  Failed = Failed
  Default = Default
  Other = Other
  Unreadable = Unreadable
  MaxStatements = 3
INVARIANT CellsAreTheirReplays
INVARIANT NoWorseThanIncumbent
INVARIANT FailingNeverPays
INVARIANT SelectionReadsTrue
INVARIANT SpentIsRecorded
INVARIANT RefusalsAreEarned
PROPERTY Ends
CHECK_DEADLOCK FALSE
