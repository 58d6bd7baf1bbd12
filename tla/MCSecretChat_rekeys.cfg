CONSTANTS
  Worlds <- SmallWorlds
  HeldLimit = 2
SPECIFICATION FairSpec
INVARIANTS TypeOK HandledInOrder KeysMeet
PROPERTY Settles
CHECK_DEADLOCK FALSE
