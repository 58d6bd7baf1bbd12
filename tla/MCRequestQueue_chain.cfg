SPECIFICATION Spec
CONSTANTS
    r1 = r1
    r2 = r2
    r3 = r3
    Requests = {r1, r2, r3}
    Generic = {r1, r2, r3}
    InvokeAfter = {r1, r2}
    WithoutLogin = {}
    Internal = {}
    GenericLimit = 2
    DownloadLimit = 1
    RetryMax = 2
    FloodRetryMax = 1
    Events = {}
    MaxMsgId = 3
    MaxToken = 2
    MaxTasks = 1
SYMMETRY Symmetric
INVARIANTS
    TypeOK
    ResentAfterOthers
    
PROPERTIES
    NewWaitsForOlder
CHECK_DEADLOCK FALSE
