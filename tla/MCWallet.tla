------------------------------ MODULE MCWallet ------------------------------
(***************************************************************************)
(* WalletRepository on small instances.  A user without a seed has none.   *)
(***************************************************************************)
EXTENDS WalletRepository

MCSeedBalance == [u \in Users |-> IF u \in SeedWallets THEN 2 ELSE 0]
=============================================================================
