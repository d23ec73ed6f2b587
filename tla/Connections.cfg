CONSTANTS
  Hosts = {"a", "b", "x"}
  Lih = "lih"
  Hihs = {"hih"}
  DefaultIp = "gw"
  Threads = {"t1", "t2"}
  Home <- HostThread
  ExtFlows <- FromHosts
  PotFlows <- FromPots
  Opening <- Opens
  ExclusiveHih = TRUE
  MaxConns = 2
SPECIFICATION FairSpec
INVARIANTS
  TypeOK
  NoDangling
  HeldLive
  NeverBlocks
  UniqueFlow
  RepliesFound
  PinCounts
PROPERTY Expires
CHECK_DEADLOCK FALSE
