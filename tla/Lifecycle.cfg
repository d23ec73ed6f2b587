CONSTANTS
  Links = {"wan", "honeynet"}
  Uplinks = {"wan"}
  Flows <- ExternalFlows
  DecisionThreads = 2
  Rpc = FALSE
  MaxPackets = 3
SPECIFICATION FairSpec
INVARIANTS
  TypeOK
  AllHandled
  SessionFifo
  FreedUnused
PROPERTY SignalEnds
CHECK_DEADLOCK FALSE
