SPECIFICATION ConfigSpec
CONSTANTS
    MaxVersion = 5
    FailingOps = {"rename", "open", "write", "sync", "removeConfig", "removeBackup", "restore"}
INVARIANTS
    ConfigTypeOK
    
    DurableUntilFailure

    
CHECK_DEADLOCK FALSE
