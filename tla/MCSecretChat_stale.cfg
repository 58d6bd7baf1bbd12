CONSTANTS
  Worlds <- StaleWorlds
  HeldLimit = 2
SPECIFICATION Spec
INVARIANT NeverWithoutKey
CHECK_DEADLOCK FALSE
