CONSTANTS
    MaxTicks = 5
    DeployFirst = TRUE
    NoOverlap = TRUE
    TransferMayFail = FALSE
    CrashOnUnhandled = TRUE
SPECIFICATION Spec
INVARIANT LogCountPerListener
PROPERTY EveryTransferLogged
CHECK_DEADLOCK FALSE
