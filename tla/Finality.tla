------------------------------ MODULE Finality -----------------------------
(***************************************************************************)
(* How a ChainCredit row becomes final, failed or reorged: the finality    *)
(* stage of the watcher's tick, apps/engine/src/chain-watcher/finality.ts. *)
(*                                                                         *)
(* A poller lists the rows that wait and asks the nodes about each of them *)
(* in turn.  Between the list and the answer another poller may have       *)
(* written the row: the write demands only that it still waits, and counts *)
(* the missing answers on from the row as it was listed.                   *)
(***************************************************************************)
EXTENDS Grace

CONSTANTS
  Credits,      \* ChainCredit rows, DETECTED at time 0
  Pollers,
  Natures,      \* what the nodes may say of a transfer, see below
  Settling,     \* a transfer is solid this long after its detection
  LastTime      \* bound on the clock

(* "slow": on the chain, and both nodes may miss it until it has settled.   *)
(* "flaky": on the chain, and fewer than MinChecks answers in all miss it,  *)
(* at any time.  "failed": as "slow", of a transaction that did not         *)
(* succeed.  "gone": its block was dropped from the chain.                  *)
AllNatures == {"slow", "flaky", "failed", "gone"}

ASSUME FinalityAssumption ==
  /\ Natures \subseteq AllNatures
  /\ Settling \in Nat /\ Settling <= MinElapsed

VARIABLES
  time,
  nature,       \* nature[c]: one of Natures
  misses,       \* misses[c]: the missing answers of a "flaky" transfer
  credit,       \* credit[c]: the ChainCredit row
  poller        \* poller[p]: when its tick began, and the rows still to ask about

finalityVars == <<time, nature, misses, credit, poller>>

Idle == [at |-> NoMiss, rows |-> [c \in {} |-> Detected]]

FinalityInit ==
  /\ time = 0
  /\ nature \in [Credits -> Natures]
  /\ misses = [c \in Credits |-> 0]
  /\ credit = [c \in Credits |-> Detected]
  /\ poller = [p \in Pollers |-> Idle]

----------------------------------------------------------------------------
OnChain(c) == nature[c] # "gone"
Pending(c) == credit[c].state \in Waiting

MayMiss(c) ==
  CASE nature[c] = "gone"  -> TRUE
    [] nature[c] = "flaky" -> misses[c] < MinChecks - 1
    [] OTHER               -> time < Settling

(* getExecutionResult: what the two nodes may answer.  "visible" also       *)
(* stands for a full node that does not answer.                             *)
Answers(c) ==
  {"error", "visible"}
  \cup (IF OnChain(c) THEN {"solidified"} ELSE {})
  \cup (IF MayMiss(c) THEN {"missing"} ELSE {})

(* The row after an answer, computed from the row as it was listed. *)
Answered(row, c, answer, at) ==
  CASE answer = "solidified" ->
         [Detected EXCEPT !.state = IF nature[c] = "failed" THEN "FAILED_ON_CHAIN" ELSE "FINAL"]
    [] answer = "visible" -> [Detected EXCEPT !.state = "CONFIRMING"]
    [] OTHER -> Missed(row, credit[c].state, at)

----------------------------------------------------------------------------
(* listPendingFinalityChecks, as the tick begins. *)
ListPending(p) ==
  /\ poller[p] = Idle
  /\ \E c \in Credits : Pending(c)
  /\ poller' = [poller EXCEPT ![p] =
       [at |-> time, rows |-> [c \in {c \in Credits : Pending(c)} |-> credit[c]]]]
  /\ UNCHANGED <<time, nature, misses, credit>>

(* The poller without a row of its list. *)
Without(p, c) ==
  IF DOMAIN poller[p].rows = {c} THEN Idle
  ELSE [poller[p] EXCEPT !.rows = [d \in DOMAIN @ \ {c} |-> @[d]]]

(* One row of the list: an answer, and the write it calls for. *)
Check(p, c, answer) ==
  /\ c \in DOMAIN poller[p].rows /\ answer \in Answers(c)
  /\ credit' = IF answer # "error" /\ Pending(c)
               THEN [credit EXCEPT ![c] = Answered(poller[p].rows[c], c, answer, poller[p].at)]
               ELSE credit
  /\ misses' = IF answer = "missing" /\ nature[c] = "flaky"
               THEN [misses EXCEPT ![c] = @ + 1] ELSE misses
  /\ poller' = [poller EXCEPT ![p] = Without(p, c)]
  /\ UNCHANGED <<time, nature>>

(* The process stops: what it has listed is lost. *)
StopPoller(p) ==
  /\ poller[p] # Idle
  /\ poller' = [poller EXCEPT ![p] = Idle]
  /\ UNCHANGED <<time, nature, misses, credit>>

PassTime ==
  /\ time < LastTime
  /\ time' = time + 1
  /\ UNCHANGED <<nature, misses, credit, poller>>

FinalityNext ==
  \/ PassTime
  \/ \E p \in Pollers :
       \/ ListPending(p) \/ StopPoller(p)
       \/ \E c \in Credits, a \in {"error", "visible", "solidified", "missing"} : Check(p, c, a)

FinalitySpec == FinalityInit /\ [][FinalityNext]_finalityVars

----------------------------------------------------------------------------
(* A transfer that is on the chain is never given up as dropped, although   *)
(* its nodes miss it for a while, or now and then, and although two pollers *)
(* write the same streak (finality.ts, REORG_MIN_CONSECUTIVE_CHECKS and     *)
(* REORG_MIN_ELAPSED_MS).                                                   *)
ReorgedOnlyIfGone ==
  \A c \in Credits : credit[c].state = "REORGED" => ~OnChain(c)
=============================================================================
