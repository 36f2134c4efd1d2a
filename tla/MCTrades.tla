----------------------------- MODULE MCTrades -----------------------------
(* Instances of Trades for TLC. *)
EXTENDS Trades, TLC

Symmetric == Permutations(Orders) \cup Permutations(Settlers)
============================================================================
