------------------------------ MODULE WalletLoops ------------------------------
(***************************************************************************)
(* What the distribution and bulk-transfer workflow promises (spec 4.1,    *)
(* 4.2, 8), with no nonces, pools or receipts: the source pays every peer  *)
(* floor(Supply / Divisor); only then the loops start, and each wallet     *)
(* makes at most K transfers of Amt to the receiver, one at a time, each   *)
(* taking effect atomically, stopping at the first one its balance does    *)
(* not cover.  Other wallets are not affected by a stop.                   *)
(***************************************************************************)
EXTENDS Naturals, FiniteSets, FiniteSetsExt

CONSTANTS Accounts, Source, PeerSet, Receiver, Divisor, Amt, K, InitialSupply

Wallets == {Source} \cup PeerSet

VARIABLES
    bal,    \* token balance of every account
    paid,   \* peers that have received their share
    sent,   \* transfers each wallet has made to the receiver
    st      \* where each wallet's loop is: idle, run, done, aborted

absVars == <<bal, paid, sent, st>>

Supply == MapThenSumSet(LAMBDA a : bal[a], Accounts)
Share == Supply \div Divisor

Move(from, to, amt) == bal' = [bal EXCEPT ![from] = @ - amt, ![to] = @ + amt]

Init ==
    /\ \E b \in InitialSupply : bal = [a \in Accounts |-> IF a = Source THEN b ELSE 0]
    /\ paid = {}
    /\ sent = [w \in Wallets |-> 0]
    /\ st = [w \in Wallets |-> "idle"]

Pay(p) ==
    /\ p \in PeerSet \ paid
    /\ \A w \in Wallets : st[w] = "idle"
    /\ Move(Source, p, Share)
    /\ paid' = paid \cup {p}
    /\ UNCHANGED <<sent, st>>

Start ==
    /\ paid = PeerSet
    /\ \A w \in Wallets : st[w] = "idle"
    /\ st' = [w \in Wallets |-> "run"]
    /\ UNCHANGED <<bal, paid, sent>>

Send(w) ==
    /\ st[w] = "run" /\ sent[w] < K /\ bal[w] >= Amt
    /\ Move(w, Receiver, Amt)
    /\ sent' = [sent EXCEPT ![w] = @ + 1]
    /\ UNCHANGED <<paid, st>>

Finish(w) ==
    /\ st[w] = "run" /\ sent[w] = K
    /\ st' = [st EXCEPT ![w] = "done"]
    /\ UNCHANGED <<bal, paid, sent>>

Stop(w) ==
    /\ st[w] = "run" /\ sent[w] < K /\ bal[w] < Amt
    /\ st' = [st EXCEPT ![w] = "aborted"]
    /\ UNCHANGED <<bal, paid, sent>>

Next ==
    \/ \E p \in PeerSet : Pay(p)
    \/ Start
    \/ \E w \in Wallets : Send(w) \/ Finish(w) \/ Stop(w)

Spec == Init /\ [][Next]_absVars
==============================================================================
