------------------------------ MODULE DeployLocal ------------------------------
(***************************************************************************)
(* scripts/deploy_local.ts.  At load the script starts main(), which       *)
(* deploys an ERC20 and assigns the module-level `token`, and, without     *)
(* waiting for it, starts a cron job firing every 5 s.  Each tick runs     *)
(* transfer_dummy (getSigners, token.transfer, balanceOf) and then         *)
(* listenToEvent, which adds one more token.on("Transfer") listener.       *)
(* The cron package does not await the async callback, so its rejection    *)
(* is unhandled.                                                           *)
(*                                                                         *)
(* Listeners are served by ethers' polling provider: each poll reads the   *)
(* latest block and hands the logs of the blocks after the last polled one *)
(* to every registered listener; the first poll starts one block back.     *)
(* The node mines every transaction on arrival, one per block, so block e *)
(* holds the transfer of the e-th tick to reach the chain (block 0: the    *)
(* deployment).                                                            *)
(***************************************************************************)
EXTENDS Integers

CONSTANTS
    MaxTicks,          \* bound on the cron ticks
    DeployFirst,       \* timing: main() has resolved before the first tick fires
    NoOverlap,         \* timing: a tick ends within its 5 s interval
    TransferMayFail,   \* token.transfer may reject: no tokens minted, provider error
    CrashOnUnhandled   \* an unhandled rejection ends the process (Node >= 15)

ASSUME MaxTicks \in Nat \ {0} /\ DeployFirst \in BOOLEAN
       /\ NoOverlap \in BOOLEAN /\ CrashOnUnhandled \in BOOLEAN
       /\ TransferMayFail \in BOOLEAN

Ticks == 1..MaxTicks
NotPolling == -1      \* ethers' _lastBlockNumber before the first poll

VARIABLES
    mpc,        \* main(): deploying, done or failed
    token,      \* whether the module-level `token` is assigned
    alive,      \* the process is running
    ticks,      \* cron ticks fired so far
    tpc,        \* where each tick's callback is
    latest,     \* the latest block: the number of transfers mined
    listeners,  \* Transfer listeners registered on `token`
    cursor,     \* last block the provider has polled
    logs        \* how many times the Transfer of each block was logged

vars == <<mpc, token, alive, ticks, tpc, latest, listeners, cursor, logs>>

TypeOK ==
    /\ mpc \in {"deploy", "done", "failed"} /\ token \in BOOLEAN /\ alive \in BOOLEAN
    /\ ticks \in 0..MaxTicks
    /\ tpc \in [Ticks -> {"idle", "signers", "listen", "done", "threw"}]
    /\ latest \in 0..MaxTicks /\ listeners \in 0..MaxTicks
    /\ cursor \in {NotPolling} \cup 0..MaxTicks
    /\ logs \in [Ticks -> 0..MaxTicks * MaxTicks]

-----------------------------------------------------------------------------
(* Mutations.                                                               *)

\* the first poll starts at the latest block instead of one before it
FirstPolledNoLookBack(b) == b
\* the poll's range starts at the last polled block instead of after it
PollFromInclusive(last) == last

-----------------------------------------------------------------------------

Init ==
    /\ mpc = "deploy" /\ token = FALSE /\ alive = TRUE
    /\ ticks = 0 /\ tpc = [k \in Ticks |-> "idle"]
    /\ latest = 0 /\ listeners = 0 /\ cursor = NotPolling
    /\ logs = [e \in Ticks |-> 0]

\* main(): getContractFactory, token = await Token.deploy(...), await
\* token.deployed(); a provider error ends in main().catch, exitCode = 1.
Deploy ==
    /\ alive /\ mpc = "deploy"
    /\ \/ mpc' = "done" /\ token' = TRUE
       \/ mpc' = "failed" /\ UNCHANGED token
    /\ UNCHANGED <<alive, ticks, tpc, latest, listeners, cursor, logs>>

\* Everything a tick started is over: its callback, and the bootstrap poll
\* ethers schedules with setTimeout(0) when the first listener is added.
TickOver == /\ \A k \in 1..ticks : tpc[k] \in {"done", "threw"}
            /\ listeners > 0 => cursor # NotPolling

\* cron fires onTick: "Checking...", transfer_dummy() awaits getSigners().
Tick ==
    /\ alive /\ ticks < MaxTicks
    /\ DeployFirst => mpc # "deploy"
    /\ NoOverlap => TickOver
    /\ ticks' = ticks + 1
    /\ tpc' = [tpc EXCEPT ![ticks + 1] = "signers"]
    /\ UNCHANGED <<mpc, token, alive, latest, listeners, cursor, logs>>

\* await token.transfer(add1.address, BigInt(val)) and the balanceOf read.
\* With `token` still undefined the call is a TypeError, and a defined
\* token's transfer may reject too: the callback rejects, nobody handles it.
TickTransfer(k) ==
    /\ alive /\ tpc[k] = "signers"
    /\ \E ok \in IF TransferMayFail THEN BOOLEAN ELSE {TRUE} :
          IF token /\ ok
          THEN /\ latest' = latest + 1
               /\ tpc' = [tpc EXCEPT ![k] = "listen"]
               /\ UNCHANGED alive
          ELSE /\ tpc' = [tpc EXCEPT ![k] = "threw"]
               /\ alive' = ~CrashOnUnhandled
               /\ UNCHANGED latest
    /\ UNCHANGED <<mpc, token, ticks, listeners, cursor, logs>>

\* listenToEvent: token.on("Transfer", ...) adds a listener each tick.
TickListen(k) ==
    /\ alive /\ tpc[k] = "listen"
    /\ listeners' = listeners + 1
    /\ tpc' = [tpc EXCEPT ![k] = "done"]
    /\ UNCHANGED <<mpc, token, alive, ticks, latest, cursor, logs>>

\* ethers: if (_lastBlockNumber === -2) _lastBlockNumber = blockNumber - 1
FirstPolled(b) == b - 1

\* ethers: filter.fromBlock = this._lastBlockNumber + 1
PollFrom(last) == last + 1

\* One poll of the provider: getLogs({fromBlock, toBlock: blockNumber}),
\* and every listener is called once for each Transfer in the range.
Poll ==
    LET from == PollFrom(IF cursor = NotPolling THEN FirstPolled(latest) ELSE cursor) IN
    /\ alive /\ listeners > 0 /\ latest # cursor
    /\ logs' = [e \in Ticks |-> IF from <= e /\ e <= latest THEN logs[e] + listeners ELSE logs[e]]
    /\ cursor' = latest
    /\ UNCHANGED <<mpc, token, alive, ticks, tpc, latest, listeners>>

TickStep(k) == TickTransfer(k) \/ TickListen(k)

Next ==
    \/ Deploy \/ Tick \/ Poll
    \/ \E k \in Ticks : TickStep(k)

Spec ==
    /\ Init /\ [][Next]_vars
    /\ WF_vars(Deploy) /\ WF_vars(Tick) /\ WF_vars(Poll)
    /\ \A k \in Ticks : WF_vars(TickStep(k))

-----------------------------------------------------------------------------
(* Properties.                                                              *)

\* No cron tick fails: in particular none reaches token.transfer while the
\* deployment of main() has not yet assigned `token`.  (Expected to fail
\* when a tick fires before the deploy resolves.)
TickNeverThrows == \A k \in Ticks : tpc[k] # "threw"

\* The Transfer of every tick is eventually logged, although the listener
\* that logs the first one is registered after that transfer was mined.
EveryTransferLogged ==
    \A e \in Ticks : (latest >= e) ~> (logs[e] >= 1)

\* Each Transfer is logged once.  (Expected to fail: every tick adds a
\* listener, so the n-th tick's transfer is logged up to n times.)
EachTransferLoggedOnce == \A e \in Ticks : logs[e] <= 1

\* The duplication grows with the ticks: the Transfer of the n-th tick,
\* once logged, was logged by each listener registered when a poll covered
\* its block, so at least n - 1 times (the listeners of earlier ticks) and
\* at most once per listener: no poll covers a block twice.
LogCountPerListener ==
    \A e \in Ticks : logs[e] # 0 => logs[e] \in (e - 1)..listeners
==============================================================================
