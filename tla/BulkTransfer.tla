----------------------------- MODULE BulkTransfer -----------------------------
(***************************************************************************)
(* scripts/transfer_local_1000_upgraded.ts: main() splits wallet1's token  *)
(* balance four ways (distribute_balance), then runs sendToken1..4 under   *)
(* Promise.all, each loop sending K transfers of Amt to account5, one at a *)
(* time: every transfer is signed, broadcast and awaited (tx.wait()) before *)
(* the next.  main() itself is started without a catch.                    *)
(*                                                                         *)
(* Processes: Main (main and distribute_balance) and one loop per wallet.  *)
(* Each await point of a transfer is its own step:                         *)
(*   "populate"  : ethers fetches the pending nonce and estimates gas      *)
(*   "broadcast" : the signed transaction is sent to the node              *)
(*   "wait"      : tx.wait() until the receipt is in a block               *)
(* Amounts are scaled: Amt stands for 10^18 and K for 250.                 *)
(***************************************************************************)
EXTENDS EthChain, Sequences

CONSTANTS
    Source,           \* account1 / wallet1, holds the whole supply at start
    Peers,            \* <<account2, account3, account4>>, wallets 2..4
    Receiver,         \* account5, destination of every bulk transfer
    Divisor,          \* balanceOfacc1.div(4)
    Amt,              \* amount of one bulk transfer
    K,                \* iterations of each sendTokenN loop
    InitialSupply,    \* balances wallet1 may hold when the script starts
    CrashOnUnhandled, \* TRUE: an unhandled rejection ends the process (Node >= 15)
    Main              \* the process running main()

PeerSet == {Peers[j] : j \in DOMAIN Peers}
Wallets == {Source} \cup PeerSet
Procs   == {Main} \cup Wallets

ASSUME
    /\ Accounts = Wallets \cup {Receiver}
    /\ Receiver \notin Wallets /\ Source \notin PeerSet
    /\ Divisor \in Nat \ {0} /\ Amt \in Nat \ {0} /\ K \in Nat \ {0}
    /\ InitialSupply \subseteq Nat
    /\ CrashOnUnhandled \in BOOLEAN

VARIABLES
    pc,       \* program counter of each process
    tx,       \* the transaction each process is sending or awaiting
    err,      \* why a process stopped: the error its awaited call threw
    share,    \* division_balance
    di,       \* which of tx1, tx2, tx3 distribute_balance is issuing
    distTxs,  \* tx1, tx2, tx3 once broadcast
    i         \* loop index of each sendTokenN

vars == <<chainVars, pc, tx, err, share, di, distTxs, i>>

NoTx == Tx(Main, Main, 0, 0)
Terminal == {"done", "aborted", "killed"}

TypeOK ==
    /\ ChainTypeOK
    /\ pc[Main] \in {"read", "populate", "broadcast", "waitDist", "join",
                     "done", "aborted"}
    /\ \A w \in Wallets :
          pc[w] \in {"idle", "populate", "broadcast", "wait"} \cup Terminal
    /\ err \in [Procs -> {"none", "estimate", "nonce", "revert", "rejected"}]
    /\ share \in Nat /\ di \in 1..Len(Peers) + 1
    /\ \A t \in distTxs : t.from = Source /\ t.to \in PeerSet /\ t.amt = share
    /\ i \in [Wallets -> 0..K]

-----------------------------------------------------------------------------
(* Mutations of the code, used to show each property can fail.             *)

\* balance / 3: dividing by the number of recipients instead of by 4.
ShareAmongPeers(b) == b \div Len(Peers)
\* for (let i = 0; i <= 250; i++): one iteration too many.
LoopContinuesInclusive(n) == n <= K
\* the bulk phase starts without awaiting tx1..tx3 (as transfer_local_mod.ts does).
DistConfirmedNoWait == TRUE

-----------------------------------------------------------------------------
(* The script.                                                              *)

Init ==
    /\ \E b \in InitialSupply :
          ChainInit([a \in Accounts |-> IF a = Source THEN b ELSE 0])
    /\ pc = [p \in Procs |-> IF p = Main THEN "read" ELSE "idle"]
    /\ tx = [p \in Procs |-> NoTx]
    /\ err = [p \in Procs |-> "none"]
    /\ share = 0 /\ di = 1 /\ distTxs = {}
    /\ i = [w \in Wallets |-> 0]

\* const division_balance = balanceOfacc1.div(4)
Share(b) == b \div Divisor

\* The awaited call of process p threw: p's async function rejects.
Throw(p, why) ==
    /\ pc' = [pc EXCEPT ![p] = "aborted"]
    /\ err' = [err EXCEPT ![p] = why]

\* acc.transfer(to, amt) up to signing: nonce and gas estimate.
Populate(p, to, amt) ==
    LET s == IF p = Main THEN Source ELSE p IN
    IF EstimateOk(s, amt)
    THEN /\ tx' = [tx EXCEPT ![p] = Tx(s, to, amt, PendingNonce(s))]
         /\ pc' = [pc EXCEPT ![p] = "broadcast"]
         /\ UNCHANGED err
    ELSE Throw(p, "estimate") /\ UNCHANGED tx

\* The rest of acc.transfer(...): sendRawTransaction, then go to next.
Broadcast(p, next) ==
    IF Accepted(tx[p])
    THEN SendRaw(tx[p]) /\ pc' = [pc EXCEPT ![p] = next] /\ UNCHANGED err
    ELSE Throw(p, "nonce") /\ UNCHANGED chainVars

\* distribute_balance: read wallet1's balance and compute the share.
ReadBalance ==
    /\ pc[Main] = "read"
    /\ share' = Share(balance[Source])
    /\ pc' = [pc EXCEPT ![Main] = "populate"]
    /\ UNCHANGED <<chainVars, tx, err, di, distTxs, i>>

\* const txN = await acc1.transfer(accountN, division_balance), signing part.
MainPopulate ==
    /\ pc[Main] = "populate"
    /\ Populate(Main, Peers[di], share)
    /\ UNCHANGED <<chainVars, share, di, distTxs, i>>

\* ... and its broadcast; the next transfer is issued only after this one.
MainBroadcast ==
    /\ pc[Main] = "broadcast"
    /\ Broadcast(Main, IF di < Len(Peers) THEN "populate" ELSE "waitDist")
    /\ distTxs' = distTxs \cup {tx[Main]}
    /\ di' = di + 1
    /\ UNCHANGED <<tx, share, i>>

\* await Promise.all([tx1.wait(), tx2.wait(), tx3.wait()]): all mined.
DistConfirmed == \A t \in distTxs : Mined(t)

\* ... or rejects at the first receipt that reports a revert.
DistReverted == \E t \in distTxs : Mined(t) /\ ~MinedOk(t)

\* distribute_balance returns; main reads the four balances and starts
\* Promise.all([sendToken1(), ..., sendToken4()]).
StartBulk ==
    /\ pc[Main] = "waitDist"
    /\ DistConfirmed \/ DistReverted
    /\ IF DistReverted
       THEN Throw(Main, "revert")
       ELSE /\ pc' = [p \in Procs |-> IF p = Main THEN "join" ELSE "populate"]
            /\ UNCHANGED err
    /\ UNCHANGED <<chainVars, tx, share, di, distTxs, i>>

\* for (let i = 0; i < 250; i++)
LoopContinues(n) == n < K

\* sendTokenN: acc1.transfer(account5, amount), signing part.
LoopPopulate(w) ==
    /\ pc[w] = "populate"
    /\ Populate(w, Receiver, Amt)
    /\ UNCHANGED <<chainVars, share, di, distTxs, i>>

LoopBroadcast(w) ==
    /\ pc[w] = "broadcast"
    /\ Broadcast(w, "wait")
    /\ UNCHANGED <<tx, share, di, distTxs, i>>

\* await tx.wait(): a reverted receipt makes wait() throw.
LoopWait(w) ==
    /\ pc[w] = "wait"
    /\ Mined(tx[w])
    /\ IF MinedOk(tx[w])
       THEN /\ i' = [i EXCEPT ![w] = @ + 1]
            /\ pc' = [pc EXCEPT ![w] = IF LoopContinues(i[w] + 1)
                                       THEN "populate" ELSE "done"]
            /\ UNCHANGED err
       ELSE Throw(w, "revert") /\ UNCHANGED i
    /\ UNCHANGED <<chainVars, tx, share, di, distTxs>>

\* await Promise.all(...) in main: resolves when every loop is done, rejects
\* at the first loop that rejects.  main() has no catch, so the rejection is
\* unhandled; with CrashOnUnhandled the process exits and the loops still
\* running are cut off.
MainJoin ==
    /\ pc[Main] = "join"
    /\ \/ /\ \A w \in Wallets : pc[w] = "done"
          /\ pc' = [pc EXCEPT ![Main] = "done"]
          /\ UNCHANGED err
       \/ /\ \E w \in Wallets : pc[w] = "aborted"
          /\ pc' = [p \in Procs |->
                      IF p = Main THEN "aborted"
                      ELSE IF CrashOnUnhandled /\ pc[p] \notin Terminal
                           THEN "killed" ELSE pc[p]]
          /\ err' = [err EXCEPT ![Main] = "rejected"]
    /\ UNCHANGED <<chainVars, tx, share, di, distTxs, i>>

MineStep == Mine /\ UNCHANGED <<pc, tx, err, share, di, distTxs, i>>

MainStep == ReadBalance \/ MainPopulate \/ MainBroadcast \/ StartBulk \/ MainJoin
LoopStep(w) == LoopPopulate(w) \/ LoopBroadcast(w) \/ LoopWait(w)

Next ==
    \/ MainStep
    \/ \E w \in Wallets : LoopStep(w)
    \/ MineStep

\* Every awaited provider call is eventually answered and every pending
\* transaction is eventually mined; the event loop runs each ready callback.
Fairness ==
    /\ WF_vars(MainStep)
    /\ \A w \in Wallets : WF_vars(LoopStep(w))
    /\ WF_vars(MineStep)

Spec == Init /\ [][Next]_vars /\ Fairness

-----------------------------------------------------------------------------
(* Properties.                                                              *)

\* Successful bulk transfers of wallet w that are in blocks.
Sent(w) == Quantify(receipts, LAMBDA r : r.ok /\ r.tx.from = w /\ r.tx.to = Receiver)

\* Spec 5/9: at most one transaction per wallet is in flight while the bulk
\* loops run.  Needs main to await tx1..tx3 before starting sendToken1, whose
\* wallet is the one that signed them.
OneInFlight ==
    \A w \in Wallets :
        pc[w] # "idle" => Quantify(pool, LAMBDA t : t.from = w) <= 1

\* Spec 8: once the loops have started, each peer has received exactly
\* floor(B/4) and wallet1 kept B - 3 * floor(B/4), where B is the supply;
\* what a wallet has sent to account5 since then is accounted for.
DistributionSplit ==
    LET s == TotalSupply \div Divisor IN
    (\E w \in Wallets : pc[w] # "idle") =>
        /\ \A p \in PeerSet : balance[p] + Amt * Sent(p) = s
        /\ balance[Source] + Amt * Sent(Source) = TotalSupply - Len(Peers) * s

\* Spec 4.2: a wallet whose balance covers its remaining transfers when it
\* issues one completes its loop, whatever the other wallets' loops do.
FundedWalletCompletes ==
    \A w \in Wallets :
        (pc[w] = "populate" /\ balance[w] >= (K - i[w]) * Amt) ~> (pc[w] = "done")

-----------------------------------------------------------------------------
(* Refinement: with CrashOnUnhandled = FALSE the script implements          *)
(* WalletLoops.  A peer is paid once its distribution transfer is mined,    *)
(* a wallet has sent what its mined transfers to account5 say, and a loop   *)
(* that is signing, broadcasting or awaiting a receipt is running.          *)

LoopState(w) == IF pc[w] \in {"populate", "broadcast", "wait"} THEN "run" ELSE pc[w]

Abstract == INSTANCE WalletLoops WITH
    bal  <- balance,
    paid <- {p \in PeerSet : \E r \in receipts : r.ok /\ r.tx.from = Source /\ r.tx.to = p},
    sent <- [w \in Wallets |-> Sent(w)],
    st   <- [w \in Wallets |-> LoopState(w)]

\* The script's behaviours are behaviours of the abstract workflow: in
\* particular no bulk transfer lands before every peer was paid, and every
\* transfer of a loop lands once, in order, while that loop runs.
WalletLoopsRefinement == Abstract!Spec
==============================================================================
