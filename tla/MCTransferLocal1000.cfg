\* transfer_local_1000.ts on an interval-mining node, ten iterations,
\* the sender funded for one fewer, all, or twice as many.
CONSTANTS
    Accounts = {sender, receiver}
    Sender = sender
    Receiver = receiver
    Amt = 1
    K = 10
    InitialSupply = {9, 10, 20}
    AutoMine = FALSE
SPECIFICATION Spec
\* the loop ends after K calls, or at the first failure
CHECK_DEADLOCK FALSE
INVARIANTS
    TypeOK
    NoncesInLoopOrder
    StopsAfterFailure
PROPERTIES
    ReceiverGetsAll
    SequentialRefinement
