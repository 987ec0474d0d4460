----------------------------- MODULE MCWalletTx -----------------------------
(* Two sessions on two wallets: enough for a lost update on one row, a       *)
(* duplicate event on one wallet and across two, two types under one         *)
(* reference, and a freeze in between.  No symmetry: liveness is checked.    *)
EXTENDS WalletTx
=============================================================================
