CONSTANTS
  Worlds <- SmallWorlds
  MaxTasks = 2
SPECIFICATION FairSpec
INVARIANTS TypeOK SavedNotAhead HoleRemembered
PROPERTY HoleClosed
