------------------------------- MODULE MCOtc -------------------------------
(* Instances of Otc for TLC. *)
EXTENDS Otc, TLC

(* No liquidity, or a win at expiry. *)
Fortunes ==
  {[filled |-> FALSE, status |-> "LOST", life |-> 1],
   [filled |-> TRUE, status |-> "WON", life |-> 1]}
============================================================================
