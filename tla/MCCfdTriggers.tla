--------------------------- MODULE MCCfdTriggers ---------------------------
(* Instances of CfdTriggers for TLC. *)
EXTENDS CfdTriggers
============================================================================
