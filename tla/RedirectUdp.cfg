CONSTANTS
  Tcp = FALSE
  FrontRule = TRUE
  BackHandlers = {1, 2}
  BackRules = {2}
  PickerIds = {0, 1, 2}
  ExclusiveHih = TRUE
  ResetExt = FALSE
  MaxPacketBuffer <- NoLimit
  SeqMod = 4
  LihIsn = 3
  HihIsn = 2
  MaxExtPkts = 4
  MaxLihPkts = 2
  MaxUnits = 2
SPECIFICATION FairSpec
INVARIANT NoCrash
PROPERTY ReplayCompletes
CHECK_DEADLOCK FALSE
