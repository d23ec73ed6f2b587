CONSTANTS
  Hosts = {"a", "b", "x"}
  Lih = "lih"
  Hihs = {"hih"}
  DefaultIp = "gw"
  Threads = {"t1", "t2"}
  Home <- HostThread
  ExtFlows <- AttacksApart
  PotFlows = {}
  Opening <- AttacksApart
  ExclusiveHih = TRUE
  MaxConns = 2
SPECIFICATION Spec
INVARIANT OneTarget
CHECK_DEADLOCK FALSE
