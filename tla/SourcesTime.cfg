CONSTANTS
  Keys = {"a", "b"}
  Deciders = {"t1", "t2"}
  Handlers <- KeyHandlers
  Configs <- TimedSource
  Instants <- Times
  MaxUpdates = 2
  MaxStarts = 0
  MaxFailures = 0
  MaxSetbacks = 0
SPECIFICATION FairSpec
PROPERTY TimeFrame
CHECK_DEADLOCK FALSE
