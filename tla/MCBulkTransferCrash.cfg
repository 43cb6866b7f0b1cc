\* Node >= 15: the unhandled rejection of main() ends the whole process.
CONSTANTS
    account1 = account1
    account2 = account2
    account3 = account3
    account4 = account4
    account5 = account5
    main = main
    Accounts <- MCAccounts
    Source <- account1
    Peers <- MCPeers
    Receiver <- account5
    Main <- main
    Divisor = 4
    Amt = 1
    K = 2
    InitialSupply = {6, 8, 11}
    AutoMine = FALSE
    CrashOnUnhandled = TRUE
SPECIFICATION Spec
\* The script ends: every process reaches a final state.
CHECK_DEADLOCK FALSE
PROPERTIES
    FundedWalletCompletes
