CONSTANTS
  Keys = {"a", "b"}
  Deciders = {"t1", "t2"}
  Handlers <- KeyHandlers
  Configs <- Hash
  Instants <- Times
  MaxUpdates = 3
  MaxStarts = 0
  MaxFailures = 0
  MaxSetbacks = 0
SPECIFICATION FairSpec
PROPERTY KnownPayloads
CHECK_DEADLOCK FALSE
