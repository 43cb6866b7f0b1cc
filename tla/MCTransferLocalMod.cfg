\* transfer_local_mod.ts on an interval-mining node: the loops may send before the distribution is mined.
CONSTANTS
    acc0 = acc0
    acc1 = acc1
    acc2 = acc2
    acc3 = acc3
    main = main
    Accounts <- MCAccounts
    AccountList <- MCAccountList
    Main <- main
    Divisor = 3
    Amt = 1
    K = 2
    InitialSupply = {6, 7, 14, 27}
    ExactLimit = 4
    ExpLimit = 8
    AutoMine = FALSE
    CrashOnUnhandled = FALSE
SPECIFICATION Spec
\* The script ends: every process reaches a final state.
CHECK_DEADLOCK FALSE
INVARIANTS
    TypeOK
    DistributionSplit
PROPERTIES
    FundedWalletCompletes
