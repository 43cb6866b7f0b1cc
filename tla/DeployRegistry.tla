----------------------------- MODULE DeployRegistry -----------------------------
(***************************************************************************)
(* scripts/deploy.ts: deploy TokenSwap, then NumDeploy ERC20 tokens; after *)
(* each token is deployed and its name read, InsertToken fires a POST      *)
(* /tokens; once all are deployed the two symbols are read and a POST      *)
(* /tokenswap describing the pair (contractAddress[0], contractAddress[1]) *)
(* is fired.  Neither POST is awaited; each has a .catch that logs.  Any   *)
(* awaited chain call may throw, which ends main() in its own .catch.      *)
(*                                                                         *)
(* The registry at 127.0.0.1:8080 is not part of the repository: it is    *)
(* modelled as receiving the requests in any order, or not at all.         *)
(***************************************************************************)
EXTENDS Naturals, FiniteSets

CONSTANTS
    NumDeploy,     \* numberOfContractToDeploy
    ChainMayFail,  \* an awaited provider call can throw
    HttpMayFail    \* a POST can fail: registry down, non-2xx

ASSUME NumDeploy \in Nat /\ NumDeploy >= 2 /\ ChainMayFail \in BOOLEAN /\ HttpMayFail \in BOOLEAN

Tokens == 0..NumDeploy - 1
TokenPost(t) == [path |-> "tokens", tokens |-> {t}]
PairPost == [path |-> "tokenswap", tokens |-> {0, 1}]

VARIABLES
    pc,          \* where main() is
    itr,         \* its loop index
    inflight,    \* POSTs sent and not yet answered
    registered,  \* POSTs the registry has stored
    logged       \* POSTs whose failure the .catch logged

vars == <<pc, itr, inflight, registered, logged>>

Requests == {TokenPost(t) : t \in Tokens} \cup {PairPost}

TypeOK ==
    /\ pc \in {"swap", "deploy", "symbols", "done", "failed", "killed"}
    /\ itr \in 0..NumDeploy
    /\ inflight \subseteq Requests
    /\ registered \subseteq Requests
    /\ logged \subseteq Requests

-----------------------------------------------------------------------------
(* Mutations of the code.                                                   *)

\* for (let itr = 0; itr <= numberOfContractToDeploy; itr++)
DeployMoreInclusive(n) == n <= NumDeploy

-----------------------------------------------------------------------------

Init ==
    /\ pc = "swap" /\ itr = 0
    /\ inflight = {} /\ registered = {} /\ logged = {}

\* .catch(function (error) { console.log(error); }) on both posts.
PostFailureHandled == TRUE

\* for (let itr = 0; itr < numberOfContractToDeploy; itr++)
DeployMore(n) == n < NumDeploy

\* An awaited chain call threw: main()'s catch logs it, exitCode = 1.
ChainFail ==
    /\ ChainMayFail
    /\ pc \in {"swap", "deploy", "symbols"}
    /\ pc' = "failed"
    /\ UNCHANGED <<itr, inflight, registered, logged>>

\* getContractFactory("TokenSwap"), deploy(), deployed(), then the ERC20 factory.
DeploySwap ==
    /\ pc = "swap"
    /\ pc' = "deploy"
    /\ UNCHANGED <<itr, inflight, registered, logged>>

\* token = await Token.deploy(...); await token.deployed(); await token.name();
\* InsertToken(token_name, token.address); contractAddress.push(token).
DeployToken ==
    /\ pc = "deploy"
    /\ inflight' = inflight \cup {TokenPost(itr)}
    /\ itr' = itr + 1
    /\ pc' = IF DeployMore(itr + 1) THEN "deploy" ELSE "symbols"
    /\ UNCHANGED <<registered, logged>>

\* the two symbol() reads that build swap_input, then axios.post /tokenswap.
PostPair ==
    /\ pc = "symbols"
    /\ inflight' = inflight \cup {PairPost}
    /\ pc' = "done"
    /\ UNCHANGED <<itr, registered, logged>>

\* The registry answers a POST (the .then only logs the response).
Deliver(r) ==
    /\ r \in inflight
    /\ inflight' = inflight \ {r}
    /\ registered' = registered \cup {r}
    /\ UNCHANGED <<pc, itr, logged>>

\* The POST fails; its .catch logs the error, or without one the process ends.
PostFails(r) ==
    /\ HttpMayFail
    /\ r \in inflight
    /\ inflight' = inflight \ {r}
    /\ IF PostFailureHandled
       THEN logged' = logged \cup {r} /\ UNCHANGED pc
       ELSE pc' = "killed" /\ UNCHANGED logged
    /\ UNCHANGED <<itr, registered>>

MainStep == DeploySwap \/ DeployToken \/ PostPair

Next ==
    \/ MainStep
    \/ ChainFail
    \/ \E r \in Requests : Deliver(r) \/ PostFails(r)

Spec ==
    /\ Init /\ [][Next]_vars
    /\ WF_vars(MainStep)
    /\ \A r \in Requests : WF_vars(Deliver(r) \/ PostFails(r))

-----------------------------------------------------------------------------
(* Properties.                                                              *)

\* When the registry stores the pair, it already knows both tokens.
\* (Expected to fail: the posts race, and a /tokens post may fail alone.)
PairAfterTokens ==
    PairPost \in registered => \A t \in PairPost.tokens : TokenPost(t) \in registered
==============================================================================
