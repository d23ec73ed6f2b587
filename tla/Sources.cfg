CONSTANTS
  Keys = {"a", "b"}
  Deciders = {"t1", "t2"}
  Handlers <- OwnThread
  Configs <- OneEach
  Instants <- Times
  MaxUpdates = 3
  MaxStarts = 1
  MaxFailures = 1
  MaxSetbacks = 1
SPECIFICATION FairSpec
INVARIANTS
  TypeOK
  RateLimit
  UnsavedIsDue
PROPERTIES
  RenewedAfterExpiration
  Written
CHECK_DEADLOCK FALSE
