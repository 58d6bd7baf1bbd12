CONSTANTS
  Worlds <- SmallWorlds
  InitialFast = 2
  MaxFast = 2
SPECIFICATION FairSpec
INVARIANTS TypeOK FinishedIsComplete ResumePointConfirmed
PROPERTY UploadEnds
CHECK_DEADLOCK FALSE
