------------------------------- MODULE Grace -------------------------------
(***************************************************************************)
(* When a watcher gives a transfer up that its nodes do not show any more: *)
(* the rule both chains share, REORG_MIN_CONSECUTIVE_CHECKS and            *)
(* REORG_MIN_ELAPSED_MS of apps/engine/src/chain-watcher/finality.ts, and  *)
(* the columns of a ChainCredit row it is applied to.                      *)
(***************************************************************************)
EXTENDS Integers

CONSTANTS
  MinChecks,    \* REORG_MIN_CONSECUTIVE_CHECKS
  MinElapsed    \* REORG_MIN_ELAPSED_MS

ASSUME GraceAssumption == MinElapsed \in Nat /\ MinChecks \in Nat \ {0}

NoMiss   == -1
Waiting  == {"DETECTED", "CONFIRMING"}
Detected == [state |-> "DETECTED", attempts |-> 0, missing |-> NoMiss]

MutOneLess(attempts, missing, at) == attempts >= MinChecks - 1 /\ at - missing >= MinElapsed
(* The criteria for REORGED. *)
GivenUp(attempts, missing, at) == attempts >= MinChecks /\ at - missing >= MinElapsed

(* The row in a given state after one more missing answer, counted on from  *)
(* the row as it was listed.  Only whether attempts has reached MinChecks   *)
(* is ever asked, so it stops there.                                        *)
Missed(row, state, at) ==
  LET attempts == IF row.attempts < MinChecks THEN row.attempts + 1 ELSE MinChecks
      missing  == IF row.missing = NoMiss THEN at ELSE row.missing
  IN [state |-> IF GivenUp(attempts, missing, at) THEN "REORGED" ELSE state,
      attempts |-> attempts, missing |-> missing]
=============================================================================
