SPECIFICATION Spec
CONSTANTS
    r1 = r1
    r2 = r2
    r3 = r3
    Requests = {r1, r3}
    Generic = {r1, r3}
    InvokeAfter = {}
    WithoutLogin = {r3}
    Internal = {r3}
    GenericLimit = 1
    DownloadLimit = 1
    RetryMax = 2
    FloodRetryMax = 1
    Events = {"cancel", "logout", "network", "key"}
    MaxMsgId = 3
    MaxToken = 2
    MaxTasks = 2
INVARIANTS
    CallbackOnce
PROPERTIES
    EndedIsFinal
CHECK_DEADLOCK FALSE
