---------------------------- MODULE MCCfdWallet ----------------------------
(* Instances of CfdWallet for TLC. *)
EXTENDS CfdWallet, TLC
============================================================================
