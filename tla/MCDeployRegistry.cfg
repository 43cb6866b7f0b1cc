\* deploy.ts with one token more than the two it deploys (one more pass of
\* the same loop body); the chain and the registry may fail.
CONSTANTS
    NumDeploy = 3
    ChainMayFail = TRUE
    HttpMayFail = TRUE
SPECIFICATION Spec
\* main() ends, and the registry answers every post
CHECK_DEADLOCK FALSE
INVARIANTS TypeOK
