---------------------------- MODULE MCTradeDesk ----------------------------
(* Instances of TradeDesk for TLC. *)
EXTENDS TradeDesk, TLC

Symmetric == Permutations(Trades)
============================================================================
