------------------------------ MODULE Escrow ------------------------------
(***************************************************************************)
(* What every money flow of the platform promises about one balance: a     *)
(* claim (a trade, a withdrawal) takes its amount out of the free money    *)
(* once, and is released once, with one of the credits its amount permits. *)
(* Between the two the money is in neither place, and no claim can take    *)
(* money that is not there.                                                *)
(***************************************************************************)
EXTENDS Integers

CONSTANTS
  Claims,
  Grants(_)     \* the credits a claim of a given amount may be released with

VARIABLES
  free,         \* the money nothing has claimed
  claim         \* claim[c]: its phase and the amount it took

escrowVars == <<free, claim>>

NoClaim == [phase |-> "none", amount |-> 0]

Init == free \in Nat /\ claim = [c \in Claims |-> NoClaim]

Hold(c, amount) ==
  /\ claim[c].phase = "none"
  /\ free' = free - amount
  /\ claim' = [claim EXCEPT ![c] = [phase |-> "held", amount |-> amount]]

Release(c, credit) ==
  /\ claim[c].phase = "held"
  /\ free' = free + credit
  /\ claim' = [claim EXCEPT ![c].phase = "released"]

Next == \E c \in Claims :
  \/ \E amount \in 1..free : Hold(c, amount)
  \/ \E credit \in Grants(claim[c].amount) : Release(c, credit)

Spec == Init /\ [][Next]_escrowVars
============================================================================
