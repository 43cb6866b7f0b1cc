------------------------------ MODULE MultiLocal ------------------------------
(***************************************************************************)
(* scripts/deploy_multi.ts with scripts/transfer_multi_local.ts.           *)
(*                                                                         *)
(* deploy_multi.ts calls main() when it is loaded and also exports it.     *)
(* transfer_multi_local.ts imports it, so main() runs twice at once: the   *)
(* import-time call (Imported) and the awaited one (Awaited).  Both deploy *)
(* NumDeploy ERC20 contracts from account1 through the node's signer,      *)
(* share the module-level `token` and `contractAddress`, and push          *)
(* token.address after each await token.deployed().  Awaited's result is   *)
(* that shared array; the while(true) loop walks it, re-reading its length *)
(* on every iteration, and on each entry calls sendToken() without        *)
(* awaiting it, then reads name/symbol/supply and sleeps one second.       *)
(* sendToken signs with an ethers Wallet holding account1's key: the nonce *)
(* is the pending count fetched before signing.                            *)
(*                                                                         *)
(* The node mines on arrival (the scripts target a local Hardhat node).    *)
(* A contract is identified by the nonce of its creation.  MaxSends bounds *)
(* the sendToken calls of the endless loop.                                *)
(***************************************************************************)
EXTENDS EthChain, Sequences, Functions

CONSTANTS
    Deployer,            \* account1: hardhat's first signer and PrivateKey1
    Account2,            \* account2, the transfer destination
    Amt,                 \* "1000000000000000000"
    InitialSupply,       \* account1's token balance
    NumDeploy,           \* numberOfContractToDeploy
    MaxSends,            \* bound on the sendToken calls of while(true)
    Imported, Awaited,   \* the two concurrent calls of deploy_multi's main()
    NoToken,             \* `token` before the first assignment
    ImportedDoneFirst,   \* timing: the import-time main() ends before the loop starts
    CrashOnUnhandled     \* an unhandled rejection ends the process (Node >= 15)

Deployers == {Imported, Awaited}
Sends == 1..MaxSends

ASSUME
    /\ Accounts = {Deployer, Account2} /\ AutoMine = TRUE
    /\ NumDeploy \in Nat \ {0} /\ MaxSends \in Nat \ {0}
    /\ ImportedDoneFirst \in BOOLEAN /\ CrashOnUnhandled \in BOOLEAN

VARIABLES
    dpc,       \* where each main() call of deploy_multi is
    ditr,      \* its loop index itr
    dtx,       \* the creation transaction it awaits with token.deployed()
    token,     \* deploy_multi's module-level `token`
    list,      \* deploy_multi's module-level `contractAddress`
    lpc,       \* transfer_multi_local main: awaiting deploy1.main(), or looping
    litr,      \* its loop index itr
    sends,     \* sendToken calls made so far
    spc,       \* where each sendToken call is
    stx,       \* the transfer it signed
    err,       \* why a sendToken call rejected
    alive      \* the process is running

vars == <<chainVars, dpc, ditr, dtx, token, list, lpc, litr, sends, spc, stx, err, alive>>

NoTx == Tx(Deployer, Deployer, 0, 0)
InFlight == {"populate", "broadcast", "wait"}

TypeOK ==
    /\ ChainTypeOK
    /\ dpc \in [Deployers -> {"deploy", "deployed", "done"}]
    /\ ditr \in [Deployers -> 0..NumDeploy]
    /\ token \in Nat \cup {NoToken}
    /\ list \in Seq(Nat)
    /\ lpc \in {"await", "iter"} /\ litr \in Nat /\ sends \in 0..MaxSends
    /\ spc \in [Sends -> {"idle", "done", "aborted"} \cup InFlight]
    /\ err \in [Sends -> {"none", "estimate", "nonce", "revert"}]
    /\ alive \in BOOLEAN

-----------------------------------------------------------------------------
(* Mutations of the code.                                                   *)

\* for (let itr = 0; itr <= numberOfContractToDeploy; itr++)
DeployMoreInclusive(n) == n <= NumDeploy

-----------------------------------------------------------------------------

Init ==
    /\ \E b \in InitialSupply :
          ChainInit([a \in Accounts |-> IF a = Deployer THEN b ELSE 0])
    /\ dpc = [d \in Deployers |-> "deploy"]
    /\ ditr = [d \in Deployers |-> 0]
    /\ dtx = [d \in Deployers |-> NoTx]
    /\ token = NoToken
    /\ list = <<>>
    /\ lpc = "await" /\ litr = 0 /\ sends = 0
    /\ spc = [k \in Sends |-> "idle"]
    /\ stx = [k \in Sends |-> NoTx]
    /\ err = [k \in Sends |-> "none"]
    /\ alive = TRUE

\* for (let itr = 0; itr < numberOfContractToDeploy; itr++)
DeployMore(n) == n < NumDeploy

\* token = await Token.deploy(...): the node signs the creation with the
\* next pending nonce; the shared `token` is the new contract.
DeploySend(d) ==
    LET t == DeployTx(Deployer, PendingNonce(Deployer)) IN
    /\ alive /\ dpc[d] = "deploy"
    /\ SendRaw(t)
    /\ dtx' = [dtx EXCEPT ![d] = t]
    /\ token' = t.n
    /\ dpc' = [dpc EXCEPT ![d] = "deployed"]
    /\ UNCHANGED <<ditr, list, lpc, litr, sends, spc, stx, err, alive>>

\* await token.deployed() (on the contract this call created); then
\* contractAddress.push(token.address) reads the shared `token` again.
DeployPush(d) ==
    /\ alive /\ dpc[d] = "deployed"
    /\ Mined(dtx[d])
    /\ list' = Append(list, token)
    /\ ditr' = [ditr EXCEPT ![d] = @ + 1]
    /\ dpc' = [dpc EXCEPT ![d] = IF DeployMore(ditr[d] + 1) THEN "deploy" ELSE "done"]
    /\ UNCHANGED <<chainVars, dtx, token, lpc, litr, sends, spc, stx, err, alive>>

\* let contract_address = await deploy1.main(); Array.isArray holds.
LoopStart ==
    /\ alive /\ lpc = "await"
    /\ dpc[Awaited] = "done"
    /\ ImportedDoneFirst => dpc[Imported] = "done"
    /\ lpc' = "iter" /\ litr' = 0
    /\ UNCHANGED <<chainVars, dpc, ditr, dtx, token, list, sends, spc, stx, err, alive>>

\* The reads and the one-second sleep of the previous iteration are over;
\* on a local node that outlasts a sendToken call.
SleepElapsed == \A k \in Sends : spc[k] \notin InFlight

\* One iteration of for (itr < contract_address.length), wrapped by
\* while(true): contract = new Contract(contract_address[itr]); sendToken().
LoopIter ==
    LET idx == IF litr < Len(list) THEN litr ELSE 0 IN
    /\ alive /\ lpc = "iter"
    /\ sends < MaxSends
    /\ SleepElapsed
    /\ sends' = sends + 1
    /\ spc' = [spc EXCEPT ![sends + 1] = "populate"]
    /\ litr' = idx + 1
    /\ UNCHANGED <<chainVars, dpc, ditr, dtx, token, list, lpc, stx, err, alive>>

\* sendToken() rejects.  Nothing awaits or catches it: the rejection is
\* unhandled, and with CrashOnUnhandled the process ends.
Reject(k, why) ==
    /\ spc' = [spc EXCEPT ![k] = "aborted"]
    /\ err' = [err EXCEPT ![k] = why]
    /\ alive' = ~CrashOnUnhandled

\* sendToken: acc1.transfer(account2, amount): the Wallet fetches the
\* pending nonce and estimates gas.
SendPopulate(k) ==
    /\ alive /\ spc[k] = "populate"
    /\ IF EstimateOk(Deployer, Amt)
       THEN /\ stx' = [stx EXCEPT ![k] = Tx(Deployer, Account2, Amt, PendingNonce(Deployer))]
            /\ spc' = [spc EXCEPT ![k] = "broadcast"]
            /\ UNCHANGED <<err, alive>>
       ELSE Reject(k, "estimate") /\ UNCHANGED stx
    /\ UNCHANGED <<chainVars, dpc, ditr, dtx, token, list, lpc, litr, sends>>

\* sendRawTransaction: refused if another transaction took the nonce.
SendBroadcast(k) ==
    /\ alive /\ spc[k] = "broadcast"
    /\ IF Accepted(stx[k])
       THEN SendRaw(stx[k]) /\ spc' = [spc EXCEPT ![k] = "wait"] /\ UNCHANGED <<err, alive>>
       ELSE Reject(k, "nonce") /\ UNCHANGED chainVars
    /\ UNCHANGED <<dpc, ditr, dtx, token, list, lpc, litr, sends, stx>>

\* await tx.wait(), then the two balanceOf reads that are only logged.
SendWait(k) ==
    /\ alive /\ spc[k] = "wait"
    /\ Mined(stx[k])
    /\ IF MinedOk(stx[k])
       THEN spc' = [spc EXCEPT ![k] = "done"] /\ UNCHANGED <<err, alive>>
       ELSE Reject(k, "revert")
    /\ UNCHANGED <<chainVars, dpc, ditr, dtx, token, list, lpc, litr, sends, stx>>

DeployStep(d) == DeploySend(d) \/ DeployPush(d)
SendStep(k) == SendPopulate(k) \/ SendBroadcast(k) \/ SendWait(k)

Next ==
    \/ \E d \in Deployers : DeployStep(d)
    \/ LoopStart
    \/ LoopIter
    \/ \E k \in Sends : SendStep(k)

\* Every pending await resumes on the event loop; the node mines on arrival.
Spec ==
    /\ Init /\ [][Next]_vars
    /\ \A d \in Deployers : WF_vars(DeployStep(d))
    /\ WF_vars(LoopStart) /\ WF_vars(LoopIter)
    /\ \A k \in Sends : WF_vars(SendStep(k))

-----------------------------------------------------------------------------
(* Properties.                                                              *)

\* No sendToken call is refused by the node because its nonce was taken:
\* not by an earlier sendToken still in flight (the loop does not await
\* it), nor by a creation of the import-time main() still deploying.
\* (Expected to fail when the import-time main() may still be deploying.)
NoNonceRejected == \A k \in Sends : err[k] # "nonce"

\* Once both calls of main() are done, contractAddress lists every contract
\* they deployed, each once.  (Expected to fail: the push reads the shared
\* `token`, which the other call may have reassigned.)
EveryContractListedOnce ==
    (\A d \in Deployers : dpc[d] = "done") =>
        /\ IsInjective(list)
        /\ Range(list) = {r.tx.n : r \in {q \in receipts : q.tx.kind = "deploy"}}
==============================================================================
