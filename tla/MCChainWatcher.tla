-------------------------- MODULE MCChainWatcher ---------------------------
(* The two stages of the watcher's tick for TLC.  They share no state but   *)
(* the row of a credit, which ingestion creates and never touches again, so *)
(* one run explores them one at a time: stage says which one, and the other *)
(* stands still.                                                            *)
EXTENDS ChainScan, Finality

VARIABLE stage

BothInit ==
  /\ stage \in {"ingest", "finality"}
  /\ Init /\ FinalityInit
  /\ stage = "ingest" => \A c \in Credits : nature[c] = "gone"

BothNext ==
  /\ stage' = stage
  /\ \/ stage = "ingest" /\ Next /\ UNCHANGED finalityVars
     \/ stage = "finality" /\ FinalityNext /\ UNCHANGED vars

(* The fairness is that of ingestion: what it rules out where ingestion     *)
(* stands still is no loss, for only ingestion has a liveness property.     *)
BothSpec == BothInit /\ [][BothNext]_<<vars, finalityVars, stage>> /\ Fairness
=============================================================================
