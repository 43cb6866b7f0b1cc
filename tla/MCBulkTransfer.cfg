\* transfer_local_1000_upgraded.ts with interval mining, Node < 15 semantics.
CONSTANTS
    account1 = account1
    account2 = account2
    account3 = account3
    account4 = account4
    account5 = account5
    main = main
    Accounts <- MCAccounts
    Source <- account1
    Peers <- MCPeers
    Receiver <- account5
    Main <- main
    Divisor = 4
    Amt = 1
    K = 2
    InitialSupply = {6, 8, 11}
    AutoMine = FALSE
    CrashOnUnhandled = FALSE
SPECIFICATION Spec
\* The script ends: every process reaches a final state.
CHECK_DEADLOCK FALSE
INVARIANTS
    TypeOK
    OneInFlight
    DistributionSplit
PROPERTIES
    FundedWalletCompletes
    WalletLoopsRefinement
