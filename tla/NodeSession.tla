------------------------------ MODULE NodeSession ------------------------------
(***************************************************************************)
(* The scripts run one after another against one local Hardhat node.      *)
(* Every deployment and most transfers are signed by hardhat account #0    *)
(* (0xf39F..., PrivateKey1 / priv_key1 / accounts[0] / the default        *)
(* signer), and a contract's address is fixed by that account's nonce:     *)
(* 0x5FbDB... is nonce 0, 0x9fE4... nonce 2, 0xCf7E... nonce 3.  The       *)
(* scripts hard-code these addresses, so what each one finds there depends *)
(* on the scripts that ran before it on the same node.                     *)
(*                                                                         *)
(* A script is one step: its whole effect on account #0's nonces, and      *)
(* whether the contracts at the addresses it hard-codes are of the kind it *)
(* calls.  A script whose first call hits the wrong contract throws before *)
(* sending anything.  Scripts that loop until stopped send 0..MaxSent      *)
(* transfers; the bulk scripts send hundreds, which takes every nonce the  *)
(* model tracks.  transfer_script.ts targets a public testnet and          *)
(* add_token_config.ts sends nothing; neither takes part.                  *)
(***************************************************************************)
EXTENDS Naturals, Sequences

CONSTANTS
    MaxNonce,     \* nonces of account #0 the model tracks; later ones are Far
    MaxSent,      \* transfers a loop-until-stopped script sends before it is stopped
    FirstScript   \* the script run first on the fresh node, or "any"

Far == MaxNonce + 1
Nonces == 0..MaxNonce

Scripts == {"deploy", "deploy_multi", "transfer_multi_local", "deploy_local",
            "swap_local_token", "get_amount",
            "transfer_local_1000", "transfer_local_1000_upgraded", "transfer_local_mod"}
\* the three scripts that call the ERC20 at 0x5FbDB... and send from account #0
TransferScripts == {"transfer_local_1000", "transfer_local_1000_upgraded", "transfer_local_mod"}

ASSUME FirstScript \in Scripts \cup {"any"} /\ MaxSent \in Nat

VARIABLES
    used,     \* what each nonce of account #0 created: a contract, or a plain transfer
    next,     \* account #0's next nonce
    result    \* each script's last run: did it find the contracts it expects

vars == <<used, next, result>>

TypeOK ==
    /\ used \in [Nonces -> {"unused", "ERC20", "TokenSwap", "transfer"}]
    /\ next \in 0..Far
    /\ result \in [Scripts -> {"notrun", "ok", "wrong"}]

Init ==
    /\ used = [n \in Nonces |-> "unused"]
    /\ next = 0
    /\ result = [s \in Scripts |-> "notrun"]

\* Account #0 signs the transactions `kinds`, in order, from its next nonce.
Sign(kinds) ==
    /\ used' = [n \in Nonces |->
                  IF next <= n /\ n < next + Len(kinds) THEN kinds[n - next + 1] ELSE used[n]]
    /\ next' = IF next + Len(kinds) > Far THEN Far ELSE next + Len(kinds)

\* k plain transfers
Transfers(k) == [j \in 1..k |-> "transfer"]

Ran(s, ok) == result' = [result EXCEPT ![s] = IF ok THEN "ok" ELSE "wrong"]

Starts(s) == FirstScript \in {"any", s} \/ next > 0

\* deploy.ts: TokenSwap, then two ERC20s; the posts send nothing from #0.
RunDeploy ==
    /\ Starts("deploy")
    /\ Sign(<<"TokenSwap", "ERC20", "ERC20">>)
    /\ Ran("deploy", TRUE)

\* deploy_multi.ts run on its own: main() once, two ERC20s.
RunDeployMulti ==
    /\ Starts("deploy_multi")
    /\ Sign(<<"ERC20", "ERC20">>)
    /\ Ran("deploy_multi", TRUE)

\* transfer_multi_local.ts: deploy_multi's main() twice (four ERC20s), then
\* sendToken() from PrivateKey1 until the loop is stopped.
RunTransferMultiLocal ==
    /\ Starts("transfer_multi_local")
    /\ \E k \in 0..MaxSent :
          Sign(<<"ERC20", "ERC20", "ERC20", "ERC20">> \o Transfers(k))
    /\ Ran("transfer_multi_local", TRUE)

\* deploy_local.ts: one ERC20, then a token.transfer from the default signer
\* per cron tick until the script is stopped.
RunDeployLocal ==
    /\ Starts("deploy_local")
    /\ \E k \in 0..MaxSent : Sign(<<"ERC20">> \o Transfers(k))
    /\ Ran("deploy_local", TRUE)

\* swap_local_token.ts: deploys a TokenSwap, then posts 0x9fE4... and
\* 0xCf7E... (nonces 2 and 3) as the pair's two tokens.
PairNonces == {2, 3}
RunSwapLocalToken ==
    /\ Starts("swap_local_token")
    /\ Sign(<<"TokenSwap">>)
    /\ Ran("swap_local_token", \A n \in PairNonces : used'[n] = "ERC20")

\* getAmount.ts: getAmountsOut on the TokenSwap at 0x5FbDB... (nonce 0).
SwapReadAt == 0
RunGetAmount ==
    /\ Starts("get_amount")
    /\ Ran("get_amount", used[SwapReadAt] = "TokenSwap")
    /\ UNCHANGED <<used, next>>

\* The bulk scripts: name() on the ERC20 at 0x5FbDB... first; on any other
\* contract it throws before a transfer is sent, otherwise account #0 sends
\* hundreds of transfers.
TokenAt == 0
RunTransfer(s) ==
    /\ Starts(s)
    /\ IF used[TokenAt] = "ERC20"
       THEN Sign(Transfers(Far)) /\ Ran(s, TRUE)
       ELSE Ran(s, FALSE) /\ UNCHANGED <<used, next>>

Next ==
    \/ RunDeploy \/ RunDeployMulti \/ RunTransferMultiLocal \/ RunDeployLocal
    \/ RunSwapLocalToken \/ RunGetAmount
    \/ \E s \in TransferScripts : RunTransfer(s)

Spec == Init /\ [][Next]_vars

-----------------------------------------------------------------------------
(* Properties.                                                              *)

==============================================================================
