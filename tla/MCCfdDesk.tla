----------------------------- MODULE MCCfdDesk -----------------------------
(* Instances of CfdDesk for TLC. *)
EXTENDS CfdDesk, TLC

Symmetric == Permutations(Positions)
============================================================================
