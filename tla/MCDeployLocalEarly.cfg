CONSTANTS
    MaxTicks = 3
    DeployFirst = FALSE
    NoOverlap = TRUE
    TransferMayFail = FALSE
    CrashOnUnhandled = TRUE
SPECIFICATION Spec
INVARIANT TickNeverThrows
CHECK_DEADLOCK FALSE
