SPECIFICATION ConfigSpec
CONSTANTS
    MaxVersion = 4
    FailingOps = {"write"}
INVARIANTS
    AcknowledgedIsDurable
CHECK_DEADLOCK FALSE
