SPECIFICATION Spec
CONSTANTS
    r1 = r1
    r2 = r2
    r3 = r3
    Requests = {r1, r2}
    Generic = {r1}
    InvokeAfter = {r1}
    WithoutLogin = {}
    Internal = {}
    GenericLimit = 1
    DownloadLimit = 1
    RetryMax = 2
    FloodRetryMax = 1
    Events = {"salt", "session", "badMsg"}
    MaxMsgId = 2
    MaxToken = 2
    MaxTasks = 1
INVARIANTS
    IdsNotShared
    
CHECK_DEADLOCK FALSE
