CONSTANTS
  Links = {"wan", "honeynet"}
  Uplinks = {"wan"}
  Flows <- ExternalFlows
  DecisionThreads = 2
  Rpc = TRUE
  MaxPackets = 1
SPECIFICATION FairSpec
PROPERTY SignalEnds
CHECK_DEADLOCK FALSE
