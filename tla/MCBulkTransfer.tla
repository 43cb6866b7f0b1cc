---------------------------- MODULE MCBulkTransfer ----------------------------
(* Model of transfer_local_1000_upgraded.ts for TLC: the five accounts of   *)
(* the script as model values, one token per transfer, two iterations per  *)
(* loop.  Supplies 6, 8 and 11 give each peer less than, exactly, and more *)
(* than the K transfers need.                                               *)
EXTENDS BulkTransfer

CONSTANTS account1, account2, account3, account4, account5, main

MCAccounts == {account1, account2, account3, account4, account5}
MCPeers == <<account2, account3, account4>>
==============================================================================
