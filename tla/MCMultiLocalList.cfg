\* deploy_multi.ts main() run twice at once through the import.
CONSTANTS
    account1 = account1
    account2 = account2
    imported = imported
    awaited = awaited
    noToken = noToken
    Accounts = {account1, account2}
    Deployer <- account1
    Account2 <- account2
    Imported <- imported
    Awaited <- awaited
    NoToken <- noToken
    Amt = 1
    InitialSupply = {10}
    NumDeploy = 2
    MaxSends = 3
    AutoMine = TRUE
    CrashOnUnhandled = TRUE
    ImportedDoneFirst = TRUE
SPECIFICATION Spec
\* while(true) is cut after MaxSends calls: the model stops there.
CHECK_DEADLOCK FALSE
INVARIANT
    EveryContractListedOnce
