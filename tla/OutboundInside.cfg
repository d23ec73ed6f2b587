CONSTANTS
  Lih = "lih"
  Hihs = {"hih"}
  Hosts <- Outside
  Lan = {"n"}
  DefaultIp = "gw"
  Threads = {"t1", "t2"}
  Home <- AddressThread
  Internal <- Players
  DnsServer = "s"
  Configs <- Setups
  Flows <- AllFlows
  Queries <- HihQueries
  MaxConns = 2
SPECIFICATION Spec
INVARIANT StaysInside
CHECK_DEADLOCK FALSE
