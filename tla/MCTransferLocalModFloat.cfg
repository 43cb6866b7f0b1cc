\* transfer_local_mod.ts with a supply whose quotient by 19 is at least 10^21.
CONSTANTS
    acc0 = acc0
    acc1 = acc1
    acc2 = acc2
    acc3 = acc3
    main = main
    Accounts <- MCAccounts
    AccountList <- MCAccountList
    Main <- main
    Divisor = 3
    Amt = 1
    K = 2
    InitialSupply = {27}
    ExactLimit = 4
    ExpLimit = 8
    AutoMine = TRUE
    CrashOnUnhandled = FALSE
SPECIFICATION Spec
\* The script ends: every process reaches a final state.
CHECK_DEADLOCK FALSE
PROPERTY
    PaysFloorShare
