---------------------------- MODULE MCBscWatcher ---------------------------
(* The tick of the BSC watcher for TLC: the blocks and their rows, EvmScan, *)
(* and the matching of final rows with time slots, Slots, which is the same *)
(* for TRON.  They share no state but the row of a credit, which matching   *)
(* takes up when it is FINAL and EvmScan never touches again, so one run    *)
(* explores them one at a time: stage says which one, or, since every race  *)
(* of EvmScan is between two actors, which two of its actors take part.     *)
(* Two scanners meet all their cases on a chain of ScanHeight blocks, and   *)
(* matching has its on MaxRows rows and meddlings together: deposits and    *)
(* payments, with a claim or a rejection in the place of one of them.  One  *)
(* less, only users who name a wallet and no meddling are enough for        *)
(* affiliates and amounts above the maximum.                                *)
EXTENDS Slots, EvmScan

CONSTANTS ScanHeight, MaxRows

VARIABLE stage

Rotation == <<"a1">>

Matching   == {"matching"}
Limits     == {"matching", "limits"}
OneScanner == {CHOOSE s \in Scanners : TRUE}

BothInit ==
  /\ SlotInit /\ EvmInit
  /\ stage \in {Matching, Limits, Scanners, OneScanner \cup Checkers}
  /\ Checkers \cap stage = {} => stall = 0

BothNext ==
  /\ stage' = stage
  /\ \/ /\ "matching" \in stage /\ SlotNext /\ UNCHANGED evmVars
        /\ Cardinality(Deposits \ Unused') + Cardinality(Payments \ Unsent') + meddling' <=
             IF stage = Limits THEN MaxRows - 1 ELSE MaxRows
        /\ stage = Limits =>
             /\ meddling' = 0
             /\ \A u \in Users \ (Named \cup Affiliates) : request'[u] = NoRequest
        /\ stage = Matching =>
             /\ \A u \in Affiliates : request'[u] = NoRequest
             /\ \A p \in Payments : payment'[p].amount <= MaxDeposit
     \/ /\ "matching" \notin stage /\ EvmNext /\ UNCHANGED slotVars
        /\ stage = Scanners => head' <= ScanHeight
        /\ \A s \in Scanners \ stage : scanner'[s] = Resting
        /\ \A k \in Checkers \ stage : checker'[k] = Done

BothSpec == BothInit /\ [][BothNext]_<<slotVars, evmVars, stage>>
=============================================================================
