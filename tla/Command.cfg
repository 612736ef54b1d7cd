SPECIFICATION FairSpec
CONSTANTS
  MaxAttempts = 2
  Contents = {a, b}
  Missing = Missing
  Fifo = Fifo
  Blank = Blank
INVARIANT RecordIsOwn
INVARIANT OnlyCleanRunsCount
PROPERTY AttemptsEnd
CHECK_DEADLOCK FALSE
