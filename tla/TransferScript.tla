----------------------------- MODULE TransferScript -----------------------------
(***************************************************************************)
(* scripts/transfer_script.ts.  At load the script starts a cron job       *)
(* firing every 5 s and calls sendToken() (a Wallet transfer, awaited to   *)
(* its receipt).  Each tick calls main() (name/symbol/supply reads, only   *)
(* logged) and listenToTransfer() without awaiting either: it reads the    *)
(* block number B, then logs queryFilter('Transfer', B - 1, B).            *)
(*                                                                         *)
(* The chain is a public testnet: blocks arrive on their own schedule.     *)
(* Time is the ticks: at most MaxBlocksPerTick blocks are mined between     *)
(* two ticks.                                                              *)
(***************************************************************************)
EXTENDS Naturals

CONSTANTS
    MaxTicks,          \* bound on the cron ticks
    MaxBlocksPerTick,  \* blocks mined in one 5 s interval
    ReadWithinTick,    \* timing: getBlockNumber resolves before the next tick
    ProviderMayFail,   \* a call to the public gateway can throw (timeout, rate limit)
    CrashOnUnhandled   \* an unhandled rejection ends the process (Node >= 15)

ASSUME MaxTicks \in Nat \ {0} /\ MaxBlocksPerTick \in Nat \ {0}
       /\ ReadWithinTick \in BOOLEAN /\ ProviderMayFail \in BOOLEAN
       /\ CrashOnUnhandled \in BOOLEAN

Ticks == 1..MaxTicks
NoBlock == 0
StartBlock == 1      \* the chain is past genesis when the script starts

VARIABLES
    latest,     \* the chain's latest block
    sinceTick,  \* blocks mined since the last tick fired
    ticks,      \* ticks fired so far
    tpc,        \* where each tick's listenToTransfer is
    tb,         \* the block number it read
    logged,     \* blocks whose Transfer events some tick logged
    spc,        \* where sendToken is
    txBlock,    \* the block that holds sendToken's transfer
    alive       \* the process is running

vars == <<latest, sinceTick, ticks, tpc, tb, logged, spc, txBlock, alive>>

-----------------------------------------------------------------------------
(* Mutations.                                                               *)

\* contract.queryFilter('Transfer', block, block): the latest block only
QueryFromLatestOnly(b) == b

-----------------------------------------------------------------------------

Init ==
    /\ latest = StartBlock /\ sinceTick = 0
    /\ ticks = 0 /\ tpc = [k \in Ticks |-> "idle"] /\ tb = [k \in Ticks |-> NoBlock]
    /\ logged = {}
    /\ spc = "send" /\ txBlock = NoBlock
    /\ alive = TRUE

\* A block is mined; it may include sendToken's pending transfer.
Mine ==
    /\ sinceTick < MaxBlocksPerTick
    /\ latest' = latest + 1
    /\ sinceTick' = sinceTick + 1
    /\ \/ spc = "pending" /\ spc' = "wait" /\ txBlock' = latest + 1
       \/ UNCHANGED <<spc, txBlock>>
    /\ UNCHANGED <<ticks, tpc, tb, logged, alive>>

\* cron fires: main() and listenToTransfer() start, neither awaited; main()
\* only reads and logs.
Tick ==
    /\ alive /\ ticks < MaxTicks
    /\ ReadWithinTick => \A k \in 1..ticks : tpc[k] # "read"
    /\ ticks' = ticks + 1
    /\ sinceTick' = 0
    /\ tpc' = [tpc EXCEPT ![ticks + 1] = "read"]
    /\ UNCHANGED <<latest, tb, logged, spc, txBlock, alive>>

\* const block = await provider.getBlockNumber()
ReadBlock(k) ==
    /\ alive /\ tpc[k] = "read"
    /\ tb' = [tb EXCEPT ![k] = latest]
    /\ tpc' = [tpc EXCEPT ![k] = "query"]
    /\ UNCHANGED <<latest, sinceTick, ticks, logged, spc, txBlock, alive>>

\* the first block of the window: block - 1
QueryFrom(b) == b - 1

\* await contract.queryFilter('Transfer', block - 1, block), then logged.
Query(k) ==
    /\ alive /\ tpc[k] = "query"
    /\ logged' = logged \cup QueryFrom(tb[k])..tb[k]
    /\ tpc' = [tpc EXCEPT ![k] = "done"]
    /\ UNCHANGED <<latest, sinceTick, ticks, tb, spc, txBlock, alive>>

\* sendToken: await acc1.transfer(account2, ...) broadcasts the transfer.
SendTransfer ==
    /\ alive /\ spc = "send"
    /\ spc' = "pending"
    /\ UNCHANGED <<latest, sinceTick, ticks, tpc, tb, logged, txBlock, alive>>

\* await tx.wait(), then the two balanceOf reads that are only logged.
SendWait ==
    /\ alive /\ spc = "wait"
    /\ spc' = "done"
    /\ UNCHANGED <<latest, sinceTick, ticks, tpc, tb, logged, txBlock, alive>>

\* A provider call throws: one of tick k's main() reads (name, symbol,
\* totalSupply) or listenToTransfer's getBlockNumber or queryFilter, all
\* started by the cron callback without await or catch.  The rejection is
\* unhandled; the tick logs nothing more.
TickFail(k) ==
    /\ ProviderMayFail /\ alive /\ tpc[k] \in {"read", "query"}
    /\ tpc' = [tpc EXCEPT ![k] = "threw"]
    /\ alive' = ~CrashOnUnhandled
    /\ UNCHANGED <<latest, sinceTick, ticks, tb, logged, spc, txBlock>>

\* sendToken() (called at load, not awaited, no catch): the transfer or its
\* tx.wait() throws.
SendFail ==
    /\ ProviderMayFail /\ alive /\ spc \in {"send", "wait"}
    /\ spc' = "threw"
    /\ alive' = ~CrashOnUnhandled
    /\ UNCHANGED <<latest, sinceTick, ticks, tpc, tb, logged, txBlock>>

TickStep(k) == ReadBlock(k) \/ Query(k) \/ TickFail(k)

Next ==
    \/ Mine \/ Tick \/ SendTransfer \/ SendWait \/ SendFail
    \/ \E k \in Ticks : TickStep(k)

\* cron fires on its timer and every pending await resumes; the testnet is
\* not assumed to mine.
Spec ==
    /\ Init /\ [][Next]_vars
    /\ WF_vars(Tick) /\ \A k \in Ticks : WF_vars(ReadBlock(k) \/ Query(k))

-----------------------------------------------------------------------------
(* Properties.                                                              *)

\* When every tick has logged its window, the Transfer sent by sendToken()
\* has been logged by some tick, provided it landed no later than the last
\* block a tick read.  The windows of consecutive ticks overlap only if no
\* two blocks pass between their getBlockNumber reads.
TransferLogged ==
    (\A k \in Ticks : tpc[k] = "done") /\ txBlock # NoBlock /\ txBlock <= tb[MaxTicks]
        => txBlock \in logged

\* The cron job keeps polling: every tick eventually logs its window.  (Fails
\* when a call to the gateway can throw: one unhandled rejection ends the
\* process.)
PollingContinues == <>(\A k \in Ticks : tpc[k] = "done")
==============================================================================
