CONSTANTS
  Links = {"wan", "honeynet"}
  Uplinks = {"wan"}
  Flows <- ExternalFlows
  DecisionThreads = 2
  Rpc = FALSE
  MaxPackets = 1
SPECIFICATION Spec
INVARIANT ProcessedOpen
CHECK_DEADLOCK FALSE
