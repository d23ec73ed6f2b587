CONSTANTS
  Hosts = {"a", "b", "x"}
  Lih = "lih"
  Hihs = {"hih"}
  DefaultIp = "gw"
  Threads = {"t1", "t2"}
  Home <- HostThread
  ExtFlows <- FromHosts
  PotFlows <- FromPots
  Opening <- Opens
  ExclusiveHih = FALSE
  MaxConns = 2
SPECIFICATION Spec
INVARIANT PinHeld
CHECK_DEADLOCK FALSE
