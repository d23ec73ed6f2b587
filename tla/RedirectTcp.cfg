CONSTANTS
  Tcp = TRUE
  FrontRule = TRUE
  BackHandlers = {2, 4}
  BackRules = {2, 4}
  PickerIds = {}
  ExclusiveHih = FALSE
  ResetExt = TRUE
  MaxPacketBuffer <- NoLimit
  SeqMod = 4
  LihIsn = 3
  HihIsn = 2
  MaxExtPkts = 4
  MaxLihPkts = 3
  MaxUnits = 2
SPECIFICATION FairSpec
INVARIANTS
  TypeOK
  NoCrash
  HihInOrder
  ReplayExact
  AckTranslated
  SeqContinuous
PROPERTIES
  OnePeer
  HandsOver
  ReplayCompletes
CHECK_DEADLOCK FALSE
