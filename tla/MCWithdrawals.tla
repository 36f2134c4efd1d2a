--------------------------- MODULE MCWithdrawals ---------------------------
(* Instances of Withdrawals for TLC. *)
EXTENDS Withdrawals, TLC

Symmetric == Permutations(Requests) \cup Permutations(Refunders)
============================================================================
