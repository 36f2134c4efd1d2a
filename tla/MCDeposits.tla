---------------------------- MODULE MCDeposits ----------------------------
(* Instances of Deposits for TLC. *)
EXTENDS Deposits, TLC

Tiers == <<100, 50>>
Symmetric == Permutations(Payments) \cup Permutations(Credits)
============================================================================
