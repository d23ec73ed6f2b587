CONSTANTS
  Modules = {"counter", "yes"}
  Pickers = {}
  MaxGroups = 2
  MaxConjuncts = 3
SPECIFICATION Spec
INVARIANT RuleMeans
CHECK_DEADLOCK FALSE
