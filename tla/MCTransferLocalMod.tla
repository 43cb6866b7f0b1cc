-------------------------- MODULE MCTransferLocalMod --------------------------
(* Model of transfer_local_mod.ts for TLC: four node accounts (the script  *)
(* runs against twenty), so the literal 19 = accounts.length - 1 becomes 3.*)
(* With ExactLimit 4 and ExpLimit 8 the supplies hit every regime of the   *)
(* printed quotient: 6 (exact, 2), 7 (fraction), 14 (rounded up to 5) and  *)
(* 27 (exponent form).                                                      *)
EXTENDS TransferLocalMod

CONSTANTS acc0, acc1, acc2, acc3, main

MCAccountList == <<acc0, acc1, acc2, acc3>>
MCAccounts == {acc0, acc1, acc2, acc3}
==============================================================================
