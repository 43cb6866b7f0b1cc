----------------------------- MODULE MCMultiLocal -----------------------------
(* Model of deploy_multi.ts run through transfer_multi_local.ts: two       *)
(* contracts per main() call, as in the code, and three sendToken calls.   *)
EXTENDS MultiLocal

CONSTANTS account1, account2, imported, awaited, noToken
==============================================================================
