\* transfer_script.ts at one block per 5 s interval, block-number reads resolving within the interval, and a gateway whose calls can throw.
CONSTANTS
    MaxTicks = 4
    MaxBlocksPerTick = 1
    ReadWithinTick = TRUE
    ProviderMayFail = TRUE
    CrashOnUnhandled = TRUE
SPECIFICATION Spec
INVARIANT TransferLogged
CHECK_DEADLOCK FALSE
