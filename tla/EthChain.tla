------------------------------- MODULE EthChain -------------------------------
(***************************************************************************)
(* The collaborators every script of contracts/scripts talks to: a local   *)
(* development chain holding one ERC20 token contract, reached through the *)
(* ethers client library.  None of this is code of the scripts; it is      *)
(* modelled from the behaviour the scripts rely on (spec sections 3, 5, 6, *)
(* 7 and the glossary).                                                    *)
(*                                                                         *)
(*  balance  : token balance of each account (ERC20 balanceOf)             *)
(*  nonce    : number of transactions of each account included in blocks   *)
(*  pool     : signed transactions accepted by the node, not yet mined     *)
(*  receipts : one receipt per mined transaction, ok = FALSE on revert     *)
(*                                                                         *)
(* With AutoMine the node mines a transaction as soon as it is sent (the   *)
(* default of a local Hardhat node); without it transactions wait in the   *)
(* pool and Mine picks any of them whose nonce is next for its sender.     *)
(***************************************************************************)
EXTENDS Naturals, FiniteSets, FiniteSetsExt

CONSTANTS
    Accounts,   \* addresses that hold tokens or sign transactions
    AutoMine    \* TRUE: every accepted transaction is mined on arrival

ASSUME AutoMine \in BOOLEAN

VARIABLES balance, nonce, pool, receipts

chainVars == <<balance, nonce, pool, receipts>>

\* An ERC20 transfer(to, amt) signed by from with the given nonce.
Tx(from, to, amt, n) == [kind |-> "transfer", from |-> from, to |-> to, amt |-> amt, n |-> n]

\* A contract creation signed by from; the new contract's address is derived
\* from (from, n), so n identifies the contract.  It moves no tokens.
DeployTx(from, n) == [kind |-> "deploy", from |-> from, to |-> from, amt |-> 0, n |-> n]

ChainTypeOK ==
    /\ balance \in [Accounts -> Nat]
    /\ nonce \in [Accounts -> Nat]
    /\ \A t \in pool : t.from \in Accounts /\ t.to \in Accounts /\ t.n \in Nat
    /\ \A r \in receipts : r.ok \in BOOLEAN

ChainInit(initial) ==
    /\ balance = initial
    /\ nonce = [a \in Accounts |-> 0]
    /\ pool = {}
    /\ receipts = {}

\* eth_getTransactionCount(a, "pending"): what ethers' Wallet uses as the
\* nonce of the next transaction it signs.
PendingNonce(a) == nonce[a] + Quantify(pool, LAMBDA t : t.from = a)

\* eth_estimateGas of transfer(to, amt): the ERC20 call reverts, and ethers
\* throws before signing, when the sender's balance does not cover amt.
EstimateOk(a, amt) == balance[a] >= amt

\* eth_sendRawTransaction is refused when the nonce was already mined or a
\* transaction with the same sender and nonce is already pending.
Accepted(t) ==
    /\ t.n >= nonce[t.from]
    /\ ~\E p \in pool : p.from = t.from /\ p.n = t.n

\* Executing the transfer in a block: it moves the tokens or reverts; the
\* sender's nonce is consumed either way and a receipt is produced.
Apply(t) ==
    LET ok == balance[t.from] >= t.amt IN
    /\ nonce' = [nonce EXCEPT ![t.from] = @ + 1]
    /\ balance' = IF ok
                  THEN [balance EXCEPT ![t.from] = @ - t.amt, ![t.to] = @ + t.amt]
                  ELSE balance
    /\ receipts' = receipts \cup {[tx |-> t, ok |-> ok]}

\* The node takes an accepted transaction: mined at once under AutoMine when
\* its nonce is next, otherwise queued in the pool.
SendRaw(t) ==
    IF AutoMine /\ t.n = nonce[t.from]
    THEN Apply(t) /\ UNCHANGED pool
    ELSE pool' = pool \cup {t} /\ UNCHANGED <<balance, nonce, receipts>>

\* A block includes one pending transaction whose nonce is next for its sender.
Mine ==
    \E t \in pool :
        /\ t.n = nonce[t.from]
        /\ Apply(t)
        /\ pool' = pool \ {t}

\* tx.wait(): the receipt of t, once mined.
Mined(t) == \E r \in receipts : r.tx = t
MinedOk(t) == [tx |-> t, ok |-> TRUE] \in receipts

TotalSupply == MapThenSumSet(LAMBDA a : balance[a], Accounts)
==============================================================================
