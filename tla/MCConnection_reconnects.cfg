CONSTANTS
    Persistent = {TRUE, FALSE}
    SyncFailures = {TRUE, FALSE}
    MaxTasks = 1
    MaxLeaked = 1
SPECIFICATION FairSpec
INVARIANTS TypeOK WaitEnds TokenMeansSocket SuspendedIsClosed LossIsNoticed OneSocket OneFirstPacket
 
