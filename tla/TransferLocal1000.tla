---------------------------- MODULE TransferLocal1000 ----------------------------
(***************************************************************************)
(* scripts/transfer_local_1000.ts: main() reads name, symbol and supply,   *)
(* then for i < 1000 awaits sendToken(), which sends account2 a fixed      *)
(* amount from an ethers Wallet (nonce: the pending transaction count) and *)
(* awaits the receipt.  A failed call rejects main(), started without a    *)
(* catch: the loop stops there.  K stands for 1000; call i is the i-th     *)
(* sendToken() of the loop.                                                *)
(***************************************************************************)
EXTENDS EthChain

CONSTANTS
    Sender,         \* account1, the Wallet of PrivateKey1
    Receiver,       \* account2
    Amt,            \* "1000000000000000000"
    K,              \* the 1000 iterations
    InitialSupply   \* balances the sender may start with

ASSUME Accounts = {Sender, Receiver} /\ K \in Nat \ {0} /\ Amt \in Nat \ {0}

Calls == 1..K

VARIABLES
    started,  \* sendToken() calls the loop has made
    spc,      \* where each call is
    stx       \* the transfer each call signed

vars == <<chainVars, started, spc, stx>>

NoTx == Tx(Sender, Receiver, Amt, 0)

TypeOK ==
    /\ ChainTypeOK
    /\ started \in 0..K
    /\ spc \in [Calls -> {"idle", "populate", "broadcast", "wait", "done", "aborted"}]
    /\ \A c \in Calls : stx[c].from = Sender /\ stx[c].to = Receiver

-----------------------------------------------------------------------------
(* Mutations of the code.                                                   *)

\* for (...) { sendToken(); }: the call is not awaited
PreviousSettledNoAwait(c) == TRUE
\* for (let i = 0; i <= 1000; i++)
LoopContinuesInclusive(n) == n <= K
\* for (let i = 1; i < 1000; i++)
LoopContinuesFromOne(n) == n < K - 1

-----------------------------------------------------------------------------

Init ==
    /\ \E b \in InitialSupply :
          ChainInit([a \in Accounts |-> IF a = Sender THEN b ELSE 0])
    /\ started = 0
    /\ spc = [c \in Calls |-> "idle"]
    /\ stx = [c \in Calls |-> NoTx]

\* await sendToken(): the previous call has resolved.
PreviousSettled(c) == IF c = 0 THEN TRUE ELSE spc[c] = "done"

\* for (let i = 0; i < 1000; i++)
LoopContinues(n) == n < K

\* { await sendToken(); }: a rejected call rejects main() and no further
\* call is made.
NextCall ==
    /\ LoopContinues(started)
    /\ PreviousSettled(started)
    /\ \A c \in Calls : spc[c] # "aborted"
    /\ started' = started + 1
    /\ spc' = [spc EXCEPT ![started + 1] = "populate"]
    /\ UNCHANGED <<chainVars, stx>>

\* acc1.transfer(account2, amount): pending nonce, gas estimate, signing.
SendPopulate(c) ==
    /\ spc[c] = "populate"
    /\ IF EstimateOk(Sender, Amt)
       THEN /\ stx' = [stx EXCEPT ![c] = Tx(Sender, Receiver, Amt, PendingNonce(Sender))]
            /\ spc' = [spc EXCEPT ![c] = "broadcast"]
       ELSE spc' = [spc EXCEPT ![c] = "aborted"] /\ UNCHANGED stx
    /\ UNCHANGED <<chainVars, started>>

\* sendRawTransaction; the node refuses a nonce already in use.
SendBroadcast(c) ==
    /\ spc[c] = "broadcast"
    /\ IF Accepted(stx[c])
       THEN SendRaw(stx[c]) /\ spc' = [spc EXCEPT ![c] = "wait"]
       ELSE spc' = [spc EXCEPT ![c] = "aborted"] /\ UNCHANGED chainVars
    /\ UNCHANGED <<started, stx>>

\* await tx.wait(): throws on a reverted receipt.
SendWait(c) ==
    /\ spc[c] = "wait"
    /\ Mined(stx[c])
    /\ spc' = [spc EXCEPT ![c] = IF MinedOk(stx[c]) THEN "done" ELSE "aborted"]
    /\ UNCHANGED <<chainVars, started, stx>>

MineStep == Mine /\ UNCHANGED <<started, spc, stx>>

CallStep(c) == SendPopulate(c) \/ SendBroadcast(c) \/ SendWait(c)

Next == NextCall \/ MineStep \/ \E c \in Calls : CallStep(c)

Spec ==
    /\ Init /\ [][Next]_vars
    /\ WF_vars(NextCall) /\ WF_vars(MineStep)
    /\ \A c \in Calls : WF_vars(CallStep(c))

-----------------------------------------------------------------------------
(* Properties.                                                              *)

Signed(c) == spc[c] \in {"wait", "done"}

\* Spec 8: the wallet's transfers take strictly increasing nonces in the
\* order the loop issues them, with no gap and none refused.
NoncesInLoopOrder ==
    /\ \A c, d \in Calls : c < d /\ Signed(c) /\ Signed(d) => stx[c].n < stx[d].n
    /\ \A c \in Calls : Signed(c) => stx[c].n = c - 1

\* Spec 8: after a call fails, the loop makes no further call, and every
\* transfer confirmed before it stays in the receiver's balance.
StopsAfterFailure ==
    \A c \in Calls : spc[c] = "aborted" =>
        /\ \A d \in Calls : d > c => spc[d] = "idle"
        /\ balance[Receiver] = (c - 1) * Amt

\* Spec 8: a sender funded for all K transfers eventually has moved exactly
\* K * Amt to the receiver.
ReceiverGetsAll ==
    (TotalSupply >= K * Amt) ~> (balance[Receiver] = K * Amt)

-----------------------------------------------------------------------------
(* Refinement.  The sequential loop is the workflow of WalletLoops for one  *)
(* wallet, the sender, and no peers: a transfer is the abstract Send when   *)
(* its receipt is mined, and the loop is running from its first call until *)
(* all K calls are done or one is aborted.                                 *)

ConfirmedTransfers == Quantify(receipts, LAMBDA r : r.ok /\ r.tx.from = Sender)

LoopState ==
    CASE started = 0                          -> "idle"
      [] \E c \in Calls : spc[c] = "aborted" -> "aborted"
      [] \A c \in Calls : spc[c] = "done"    -> "done"
      [] OTHER                                -> "run"

Abstract == INSTANCE WalletLoops WITH
    Source  <- Sender,
    PeerSet <- {},
    Divisor <- 1,
    bal     <- balance,
    paid    <- {},
    sent    <- [w \in {Sender} |-> ConfirmedTransfers],
    st      <- [w \in {Sender} |-> LoopState]

\* Spec 8: the awaited loop implements the abstract workflow: it makes
\* confirmed transfers one at a time, stops only when the balance no
\* longer covers Amt, and finishes only after K of them.
SequentialRefinement == Abstract!Spec

==============================================================================
