CONSTANTS
  Modules = {"counter", "yes", "backpick_random"}
  Pickers = {"backpick_random"}
  MaxGroups = 2
  MaxConjuncts = 2
SPECIFICATION FairSpec
INVARIANTS
  SimpleRuleMeans
  PickerNamesBackend
  FreedOnce
PROPERTY CallsReturn
CHECK_DEADLOCK FALSE
