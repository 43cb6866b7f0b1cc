---------------------------- MODULE TransferLocalMod ----------------------------
(***************************************************************************)
(* scripts/transfer_local_mod.ts.  distribute_amounts reads the balance of *)
(* accounts[0], computes (main_balance / 19).toString() and sends that     *)
(* amount to accounts[1 .. length-2] through the node's own signer (the    *)
(* node assigns nonces), then awaits Promise.all over the transaction      *)
(* responses, not over tx.wait().  main then pops the last account as the  *)
(* receiver and runs one loop per remaining account, each sending K        *)
(* transfers of Amt, awaiting every receipt.                               *)
(*                                                                         *)
(* The division is JavaScript's: the BigNumber is turned into a double,    *)
(* divided, and printed.  The printed amount is a valid uint string only   *)
(* when the quotient is an integer-valued double below 10^21; above 2^53   *)
(* every double is an integer (the quotient is rounded), below it a        *)
(* remainder prints as a fraction, and from 10^21 on the double prints in  *)
(* exponent form.  ExactLimit and ExpLimit stand for 2^53 and 10^21.       *)
(***************************************************************************)
EXTENDS EthChain, Sequences

CONSTANTS
    AccountList,      \* provider.listAccounts(), in order
    Divisor,          \* the literal 19
    Amt,              \* "100000", amount of one bulk transfer
    K,                \* 53 iterations of each send_token_func loop
    InitialSupply,    \* balances accounts[0] may hold when the script starts
    ExactLimit,       \* doubles at or above it are all integers (2^53)
    ExpLimit,         \* doubles at or above it print in exponent form (10^21)
    CrashOnUnhandled, \* TRUE: an unhandled rejection ends the process
    Main              \* the process running main()

N == Len(AccountList)
Source == AccountList[1]
Receiver == AccountList[N]                      \* accounts.pop()
Wallets == {AccountList[j] : j \in 1..N-1}      \* wallets after wallets.pop()
Procs == {Main} \cup Wallets

ASSUME
    /\ Accounts = {AccountList[j] : j \in 1..N} /\ N >= 3
    /\ Divisor \in Nat \ {0} /\ Amt \in Nat \ {0} /\ K \in Nat \ {0}
    /\ InitialSupply \subseteq Nat /\ ExactLimit < ExpLimit
    /\ CrashOnUnhandled \in BOOLEAN

VARIABLES
    pc,       \* program counter of each process
    tx,       \* the transaction each process is awaiting
    err,      \* why a process stopped
    amount,   \* the printed amount, and whether it parses as a uint
    di,       \* index of the account distribute_amounts is paying
    i         \* loop index j of each send_token_func

vars == <<chainVars, pc, tx, err, amount, di, i>>

NoTx == Tx(Main, Main, 0, 0)
Terminal == {"done", "aborted", "killed"}

TypeOK ==
    /\ ChainTypeOK
    /\ pc[Main] \in {"read", "populate", "broadcast", "join", "done", "aborted"}
    /\ \A w \in Wallets :
          pc[w] \in {"idle", "populate", "broadcast", "wait"} \cup Terminal
    /\ err \in [Procs -> {"none", "format", "estimate", "revert", "rejected"}]
    /\ amount \in [ok : BOOLEAN, val : Nat]
    /\ di \in 2..N
    /\ i \in [Wallets -> 0..K]

-----------------------------------------------------------------------------
(* Mutations of the code.                                                   *)

\* for (let i = 1; i < accounts.length; i++): the receiver is paid too.
LastRecipientAll == N
\* for (let j = 0; j <= 53; j++)
LoopContinuesInclusive(n) == n <= K

-----------------------------------------------------------------------------

Init ==
    /\ \E b \in InitialSupply :
          ChainInit([a \in Accounts |-> IF a = Source THEN b ELSE 0])
    /\ pc = [p \in Procs |-> IF p = Main THEN "read" ELSE "idle"]
    /\ tx = [p \in Procs |-> NoTx]
    /\ err = [p \in Procs |-> "none"]
    /\ amount = [ok |-> FALSE, val |-> 0]
    /\ di = 2
    /\ i = [w \in Wallets |-> 0]

\* (main_balance / 19).toString(), then parsed back by BigNumber.from when
\* the transfer is encoded.
JsDivToString(b, d) ==
    CASE b >= ExpLimit * d   -> [ok |-> FALSE, val |-> 0]   \* "5.2631578947368425e+22"
      [] b % d = 0           -> [ok |-> TRUE, val |-> b \div d]
      [] b >= ExactLimit * d -> [ok |-> TRUE, val |-> (2 * b + d) \div (2 * d)]
      [] OTHER               -> [ok |-> FALSE, val |-> 0]   \* "2.3333333333333335"

\* for (let i = 1; i < accounts.length - 1; i++), as a 1-based index bound.
LastRecipient == N - 1

Recipients == {AccountList[j] : j \in 2..LastRecipient}

Throw(p, why) ==
    /\ pc' = [pc EXCEPT ![p] = "aborted"]
    /\ err' = [err EXCEPT ![p] = why]

\* contract.transfer(to, amt) through provider.getSigner: ethers encodes the
\* amount and estimates gas; either can throw before anything is sent.
Populate(p, s, amt) ==
    CASE ~amt.ok                    -> Throw(p, "format")
      [] ~EstimateOk(s, amt.val)    -> Throw(p, "estimate")
      [] OTHER -> pc' = [pc EXCEPT ![p] = "broadcast"] /\ UNCHANGED err

\* eth_sendTransaction: the node picks the next pending nonce itself.
Send(p, s, to, amt) ==
    LET t == Tx(s, to, amt, PendingNonce(s)) IN
    /\ SendRaw(t)
    /\ tx' = [tx EXCEPT ![p] = t]

\* distribute_amounts: listAccounts, balanceOf(accounts[0]), the amount.
ReadBalance ==
    /\ pc[Main] = "read"
    /\ amount' = JsDivToString(balance[Source], Divisor)
    /\ pc' = [pc EXCEPT ![Main] = "populate"]
    /\ UNCHANGED <<chainVars, tx, err, di, i>>

\* tx_list.push(await main_wallet.transfer(accounts[i], amount)), encoding
\* and estimate ...
MainPopulate ==
    /\ pc[Main] = "populate"
    /\ Populate(Main, Source, amount)
    /\ UNCHANGED <<chainVars, tx, amount, di, i>>

\* ... and the send.  After the last one, await Promise.all(tx_list) over
\* responses resolves at once and the balances are printed: the loops
\* start while the distribution may still be in the pool.
MainSend ==
    /\ pc[Main] = "broadcast"
    /\ Send(Main, Source, AccountList[di], amount.val)
    /\ pc' = IF di < LastRecipient
            THEN [pc EXCEPT ![Main] = "populate"]
            ELSE [p \in Procs |-> IF p = Main THEN "join" ELSE "populate"]
    /\ di' = di + 1
    /\ UNCHANGED <<err, amount, i>>

\* for (let j = 0; j < 53; j++)
LoopContinues(n) == n < K

\* send_token_func: acc.transfer(receiver_addr, "100000"), encode and estimate.
LoopPopulate(w) ==
    /\ pc[w] = "populate"
    /\ Populate(w, w, [ok |-> TRUE, val |-> Amt])
    /\ UNCHANGED <<chainVars, tx, amount, di, i>>

LoopSend(w) ==
    /\ pc[w] = "broadcast"
    /\ Send(w, w, Receiver, Amt)
    /\ pc' = [pc EXCEPT ![w] = "wait"]
    /\ UNCHANGED <<err, amount, di, i>>

\* await tx.wait()
LoopWait(w) ==
    /\ pc[w] = "wait"
    /\ Mined(tx[w])
    /\ IF MinedOk(tx[w])
       THEN /\ i' = [i EXCEPT ![w] = @ + 1]
            /\ pc' = [pc EXCEPT ![w] = IF LoopContinues(i[w] + 1)
                                       THEN "populate" ELSE "done"]
            /\ UNCHANGED err
       ELSE Throw(w, "revert") /\ UNCHANGED i
    /\ UNCHANGED <<chainVars, tx, amount, di>>

\* await Promise.all(transfer_ls_functions), main() started without a catch.
MainJoin ==
    /\ pc[Main] = "join"
    /\ \/ /\ \A w \in Wallets : pc[w] = "done"
          /\ pc' = [pc EXCEPT ![Main] = "done"]
          /\ UNCHANGED err
       \/ /\ \E w \in Wallets : pc[w] = "aborted"
          /\ pc' = [p \in Procs |->
                      IF p = Main THEN "aborted"
                      ELSE IF CrashOnUnhandled /\ pc[p] \notin Terminal
                           THEN "killed" ELSE pc[p]]
          /\ err' = [err EXCEPT ![Main] = "rejected"]
    /\ UNCHANGED <<chainVars, tx, amount, di, i>>

MineStep == Mine /\ UNCHANGED <<pc, tx, err, amount, di, i>>

MainStep == ReadBalance \/ MainPopulate \/ MainSend \/ MainJoin
LoopStep(w) == LoopPopulate(w) \/ LoopSend(w) \/ LoopWait(w)

Next ==
    \/ MainStep
    \/ \E w \in Wallets : LoopStep(w)
    \/ MineStep

Spec ==
    /\ Init /\ [][Next]_vars
    /\ WF_vars(MainStep)
    /\ \A w \in Wallets : WF_vars(LoopStep(w))
    /\ WF_vars(MineStep)

-----------------------------------------------------------------------------
(* Properties.                                                              *)

Sent(w) == Quantify(receipts, LAMBDA r : r.ok /\ r.tx.from = w /\ r.tx.to = Receiver)
Paid(p) == \E r \in receipts : r.ok /\ r.tx.from = Source /\ r.tx.to = p

\* Whatever the order in which the distribution and the loops' transfers
\* land: a paid recipient holds the amount less what it has sent, an unpaid
\* one has sent nothing, and accounts[0] holds the supply less the amounts
\* it paid out and sent.
DistributionSplit ==
    LET paid == {p \in Recipients : Paid(p)} IN
    /\ \A p \in Recipients :
          balance[p] + Amt * Sent(p) = IF p \in paid THEN amount.val ELSE 0
    /\ balance[Source] + Amt * Sent(Source)
          = TotalSupply - Cardinality(paid) * amount.val

\* Spec 4.2: a wallet whose balance covers its remaining transfers when it
\* issues one completes its loop.
FundedWalletCompletes ==
    \A w \in Wallets :
        (pc[w] = "populate" /\ balance[w] >= (K - i[w]) * Amt) ~> (pc[w] = "done")

\* Spec 4.1: the workflow waits for every receipt, so a recipient whose
\* loop starts already holds its share.  (Expected to fail.)
LoopStartsFunded ==
    \A p \in Recipients :
        pc[p] = "populate" /\ i[p] = 0 => Paid(p)

\* Spec 4.1/8: share = floor(B / 19) by integer division, the remainder
\* stays with accounts[0]: every recipient is eventually paid exactly that.
\* (Expected to fail.)
PaysFloorShare ==
    <>(\A p \in Recipients :
          \E r \in receipts : /\ r.ok /\ r.tx.from = Source /\ r.tx.to = p
                              /\ r.tx.amt = TotalSupply \div Divisor)
==============================================================================
