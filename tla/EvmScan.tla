------------------------------ MODULE EvmScan ------------------------------
(***************************************************************************)
(* How the USDT watcher follows the transfers to one receiving address on  *)
(* BSC, whose blocks may be reorganised: the ingestion of blocks,          *)
(* apps/engine/src/chain-watcher/evm-ingest.ts, over the block cursor of   *)
(* packages/db/src/repositories/chain-scan-cursor.ts, and the finality of  *)
(* the rows it makes, apps/engine/src/chain-watcher/evm-finality.ts.       *)
(*                                                                         *)
(* A row is a transaction and the index of its log.  A reorganisation      *)
(* drops blocks behind the finalized one: a transaction in them may come   *)
(* back in another block, with another index, as a failure, or never.  The *)
(* cursor therefore moves over finalized blocks only, the blocks after it  *)
(* are scanned at every tick, and a row whose log is not where it was seen *)
(* gives way to the one it has now.                                        *)
(*                                                                         *)
(* Blocks come at a steady rate and a reorganisation does not shorten the  *)
(* chain, so the height of the chain is the clock.  As in ChainScan, the   *)
(* version of the cursor is kept as the set of those who hold it.          *)
(***************************************************************************)
EXTENDS Grace

CONSTANTS
  Sent,         \* transactions with a transfer to the address
  LogIndexes,   \* indices their log may have
  Scanners,     \* engine processes, in their ingestion stage
  Checkers,     \* engine processes, in their finality stage
  ChunkRange,   \* maxBlockRange
  MaxChunks,    \* maxChunksPerTick
  MaxHeight,    \* bound on the height of the chain
  MaxReorgs     \* bound on reorganisations

Failed == 0

ASSUME EvmAssumption ==
  /\ LogIndexes \subseteq Nat \ {Failed}
  /\ ChunkRange \in Nat \ {0} /\ MaxChunks \in Nat \ {0}
  /\ MaxHeight \in Nat /\ MinElapsed > 0

VARIABLES
  head,         \* the latest block
  finalHead,    \* the finalized block
  place,        \* place[t]: the block of the transaction, and its log or Failed
  offSince,     \* offSince[t]: when a reorganisation first left it without a block
  reorgs,
  stall,        \* the checks of a tick take at most this many blocks
  blockCursor,  \* lastScannedBlock of the ChainScanCursor row
  current,      \* scanners whose version of the cursor is the row's
  scanner,      \* scanner[s]: its tick
  evmCredit,    \* evmCredit[t, i]: the ChainCredit row
  checker       \* checker[k]: its tick

chain   == <<head, finalHead, place, offSince, reorgs, stall>>
evmVars == <<chain, blockCursor, current, scanner, evmCredit, checker>>

Nowhere == [block |-> 0, log |-> 0]
Places  == [block : 1..MaxHeight, log : LogIndexes \cup {Failed}]
Absent  == [Detected EXCEPT !.state = "ABSENT"]
Keys    == Sent \X LogIndexes
NoRows  == [c \in {} |-> Absent]

Resting == [pc |-> "resting", upTo |-> 0, final |-> 0, from |-> 0, to |-> 0, logs |-> {}]
Done    == [pc |-> "resting", at |-> 0, final |-> 0, rows |-> NoRows,
            asked |-> {}, verdict |-> "none"]

(* The cursor is there: the first tick made it, before any transfer. *)
EvmInit ==
  /\ head = 0 /\ finalHead = 0 /\ reorgs = 0 /\ stall \in 0..MinElapsed - 1
  /\ place = [t \in Sent |-> Nowhere] /\ offSince = [t \in Sent |-> NoMiss]
  /\ blockCursor = 0 /\ current = {}
  /\ scanner = [s \in Scanners |-> Resting]
  /\ evmCredit = [c \in Keys |-> Absent]
  /\ checker = [k \in Checkers |-> Done]

Lower(m, n) == IF m < n THEN m ELSE n

----------------------------------------------------------------------------
(* The chain. *)

Mined(t) == place[t] # Nowhere

(* A dropped transaction is back within this many blocks, or never: a tick  *)
(* counts from its beginning, so that together with the longest tick this   *)
(* must be less than the time after which a transaction is given up.        *)
Absence == MinElapsed - 1 - stall

(* The chains whose blocks from..to are built anew. *)
Rebuilt(from, to) ==
  {new \in [Sent -> Places \cup {Nowhere}] :
     \A t \in Sent :
       IF Mined(t) /\ place[t].block < from
       THEN new[t] = place[t]
       ELSE \/ new[t] = Nowhere
            \/ /\ new[t].block \in from..to
               /\ offSince[t] = NoMiss \/ to - offSince[t] <= Absence}

Grow ==
  /\ head < MaxHeight
  /\ \A k \in Checkers : checker[k] # Done => head - checker[k].at < stall
  /\ head' = head + 1
  /\ place' \in Rebuilt(head + 1, head + 1)
  /\ UNCHANGED <<finalHead, offSince, reorgs, stall, blockCursor, current, scanner, evmCredit, checker>>

Reorganise ==
  /\ reorgs < MaxReorgs
  /\ \E b \in finalHead + 1..head : place' \in Rebuilt(b, head)
  /\ place' # place
  /\ offSince' = [t \in Sent |->
       IF Mined(t) /\ place'[t] = Nowhere /\ offSince[t] = NoMiss THEN head ELSE offSince[t]]
  /\ reorgs' = reorgs + 1
  /\ UNCHANGED <<head, finalHead, stall, blockCursor, current, scanner, evmCredit, checker>>

Finalize ==
  /\ finalHead < head
  /\ finalHead' = finalHead + 1
  /\ UNCHANGED <<head, place, offSince, reorgs, stall, blockCursor, current, scanner, evmCredit, checker>>

----------------------------------------------------------------------------
(* runEvmIngestTick. *)

ScannerAt(s, pc) == scanner[s].pc = pc
ScannerTo(s, fields) == scanner' = [scanner EXCEPT ![s] = fields]

(* The two heads are two questions. *)
ReadLatest(s) ==
  /\ ScannerAt(s, "resting")
  /\ ScannerTo(s, [Resting EXCEPT !.pc = "latest", !.upTo = head])
  /\ UNCHANGED <<chain, blockCursor, current, evmCredit, checker>>

ReadFinalized(s) ==
  /\ ScannerAt(s, "latest")
  /\ ScannerTo(s, [scanner[s] EXCEPT !.pc = "heads", !.final = Lower(finalHead, scanner[s].upTo)])
  /\ UNCHANGED <<chain, blockCursor, current, evmCredit, checker>>

(* The tick ends at the latest block, or where its chunks are spent. *)
ReadCursor(s) ==
  /\ ScannerAt(s, "heads")
  /\ ScannerTo(s, [scanner[s] EXCEPT
       !.pc = "scanning", !.from = blockCursor + 1,
       !.upTo  = Lower(@, blockCursor + ChunkRange * MaxChunks),
       !.final = Lower(@, blockCursor + ChunkRange * MaxChunks)])
  /\ current' = current \cup {s}
  /\ UNCHANGED <<chain, blockCursor, evmCredit, checker>>

GoesOn(s) == scanner[s].from <= scanner[s].upTo

(* getTransferLogs, of one chunk.  A failed transaction has no log. *)
GetLogs(s) ==
  LET to   == Lower(scanner[s].from + ChunkRange - 1, scanner[s].upTo)
      logs == {c \in Keys : place[c[1]].block \in scanner[s].from..to /\ place[c[1]].log = c[2]}
  IN /\ ScannerAt(s, "scanning") /\ GoesOn(s)
     /\ ScannerTo(s, IF logs = {} THEN [scanner[s] EXCEPT !.from = to + 1]
                     ELSE [scanner[s] EXCEPT !.pc = "persisting", !.to = to, !.logs = logs])
     /\ UNCHANGED <<chain, blockCursor, current, evmCredit, checker>>

(* persistLog and createChainCreditIfNew: a row that is there stays.  The   *)
(* last log ends the chunk.                                                 *)
Persist(s, c) ==
  /\ ScannerAt(s, "persisting") /\ c \in scanner[s].logs
  /\ evmCredit' = [evmCredit EXCEPT ![c] = IF @ = Absent THEN Detected ELSE @]
  /\ ScannerTo(s,
       IF scanner[s].logs = {c}
       THEN [scanner[s] EXCEPT !.pc = "scanning", !.from = scanner[s].to + 1, !.to = 0, !.logs = {}]
       ELSE [scanner[s] EXCEPT !.logs = @ \ {c}])
  /\ UNCHANGED <<chain, blockCursor, current, checker>>

MutScannedTo(s) == scanner[s].from - 1
(* How far the cursor may move: what was scanned, if it is finalized. *)
CursorTarget(s) == Lower(scanner[s].from - 1, scanner[s].final)

(* advanceEvmCursor, won or lost, when nothing is left to scan or the       *)
(* listing, or the time of a block, fails: that chunk does not count.  Who  *)
(* has the version of the row has its block too.                            *)
MoveCursor(s) ==
  /\ ScannerAt(s, "scanning") \/ ScannerAt(s, "persisting")
  /\ IF s \in current /\ CursorTarget(s) > blockCursor
     THEN blockCursor' = CursorTarget(s) /\ current' = {}
     ELSE current' = current \ {s} /\ UNCHANGED blockCursor
  /\ ScannerTo(s, Resting)
  /\ UNCHANGED <<chain, evmCredit, checker>>

(* The process stops, or cannot learn the heads. *)
StopScanner(s) ==
  /\ ~ScannerAt(s, "resting")
  /\ ScannerTo(s, Resting)
  /\ current' = current \ {s}
  /\ UNCHANGED <<chain, blockCursor, evmCredit, checker>>

----------------------------------------------------------------------------
(* runEvmFinalityTick. *)

CheckerTo(k, fields) == checker' = [checker EXCEPT ![k] = fields]
Unresolved == {c \in Keys : evmCredit[c].state \in Waiting}

ListRows(k) ==
  /\ checker[k] = Done /\ Unresolved # {}
  /\ CheckerTo(k, [Done EXCEPT !.pc = "listed", !.at = head,
                               !.rows = [c \in Unresolved |-> evmCredit[c]]])
  /\ UNCHANGED <<chain, blockCursor, current, scanner, evmCredit>>

ReadFinalHead(k) ==
  /\ checker[k].pc = "listed"
  /\ CheckerTo(k, [checker[k] EXCEPT !.pc = "checking", !.final = finalHead])
  /\ UNCHANGED <<chain, blockCursor, current, scanner, evmCredit>>

MutAnyLog(receipt, c) == TRUE
(* receiptHasMatchingTransfer *)
Matches(receipt, c) == receipt.log = c[2]

(* What a receipt says of a row, given the finalized block. *)
Verdict(receipt, c, final) ==
  IF receipt = Nowhere            THEN "missing"
  ELSE IF receipt.block > final   THEN "CONFIRMING"
  ELSE IF receipt.log = Failed    THEN "FAILED_ON_CHAIN"
  ELSE IF Matches(receipt, c)     THEN "FINAL"
  ELSE "REORGED"

(* getReceipt: where the transaction is, or nothing. *)
GetReceipt(k, c) ==
  /\ checker[k].pc = "checking" /\ checker[k].asked = {} /\ c \in DOMAIN checker[k].rows
  /\ CheckerTo(k, [checker[k] EXCEPT
       !.asked = {c}, !.verdict = Verdict(place[c[1]], c, checker[k].final)])
  /\ UNCHANGED <<chain, blockCursor, current, scanner, evmCredit>>

Unlisted(k, c) ==
  IF DOMAIN checker[k].rows = {c} THEN Done
  ELSE [checker[k] EXCEPT !.asked = {}, !.verdict = "none",
                          !.rows = [d \in DOMAIN @ \ {c} |-> @[d]]]

(* The row after it; a missing answer is counted on from the row as listed. *)
Judged(k, c) ==
  IF checker[k].verdict = "missing"
  THEN Missed(checker[k].rows[c], evmCredit[c].state, checker[k].at)
  ELSE [Detected EXCEPT !.state = checker[k].verdict]

(* The guarded update of the row. *)
Judge(k, c) ==
  /\ checker[k].asked = {c}
  /\ evmCredit' = IF c \in Unresolved THEN [evmCredit EXCEPT ![c] = Judged(k, c)] ELSE evmCredit
  /\ CheckerTo(k, Unlisted(k, c))
  /\ UNCHANGED <<chain, blockCursor, current, scanner>>

(* getReceipt fails: the row is left for the next tick. *)
ReceiptFails(k, c) ==
  /\ checker[k].pc = "checking" /\ checker[k].asked = {} /\ c \in DOMAIN checker[k].rows
  /\ CheckerTo(k, Unlisted(k, c))
  /\ UNCHANGED <<chain, blockCursor, current, scanner, evmCredit>>

(* The process stops, or cannot learn the finalized block. *)
StopChecker(k) ==
  /\ checker[k] # Done
  /\ CheckerTo(k, Done)
  /\ UNCHANGED <<chain, blockCursor, current, scanner, evmCredit>>

----------------------------------------------------------------------------
EvmNext ==
  \/ Grow \/ Reorganise \/ Finalize
  \/ \E s \in Scanners :
       \/ ReadLatest(s) \/ ReadFinalized(s) \/ ReadCursor(s)
       \/ GetLogs(s)
       \/ \E c \in Keys : Persist(s, c)
       \/ MoveCursor(s) \/ StopScanner(s)
  \/ \E k \in Checkers :
       \/ ListRows(k) \/ ReadFinalHead(k) \/ StopChecker(k)
       \/ \E c \in Keys : GetReceipt(k, c) \/ Judge(k, c) \/ ReceiptFails(k, c)

EvmSpec == EvmInit /\ [][EvmNext]_evmVars

----------------------------------------------------------------------------
(* Properties. *)

(* The cursor never leaves a transfer behind: each one in the blocks up to  *)
(* it has its row under the index it has on the chain, although what was    *)
(* scanned may since have been dropped and built anew, and chunks fail      *)
(* (evm-ingest.ts, runEvmIngestTick).                                       *)
NothingBehindTheCursor ==
  \A c \in Keys :
    place[c[1]].block \in 1..blockCursor /\ place[c[1]].log = c[2] => evmCredit[c] # Absent

(* What a row comes to is what became of its transfer: FINAL if it is       *)
(* finalized with this log (so that one transfer is FINAL at most once),    *)
(* FAILED_ON_CHAIN if its transaction is finalized as a failure, and        *)
(* REORGED never while the log is on the chain (evm-finality.ts,            *)
(* runEvmFinalityTick).                                                     *)
ResolvedByTheChain ==
  \A c \in Keys :
    LET at == place[c[1]]
    IN CASE evmCredit[c].state = "FINAL" ->
              at.block \in 1..finalHead /\ at.log = c[2]
         [] evmCredit[c].state = "FAILED_ON_CHAIN" ->
              at.block \in 1..finalHead /\ at.log = Failed
         [] evmCredit[c].state = "REORGED" -> at = Nowhere \/ at.log # c[2]
         [] OTHER -> TRUE
=============================================================================
