-------------------------------- MODULE Otc --------------------------------
(***************************************************************************)
(* The OTC market's durable coordinator: apps/engine/src/otc/runtime.ts    *)
(* over packages/db/src/repositories/otc-trade.ts and otc-fence.ts.        *)
(*                                                                         *)
(* A writer is an engine process.  It reserves the stake of an order and   *)
(* appends the order to the table MarketCommand, which is a write-ahead    *)
(* log; it feeds the log to a simulated market kept in memory, one row     *)
(* after the other, and writes back what the market answered.  The market  *)
(* is saved now and then with the number of the last row it has seen.  A   *)
(* writer that starts restores the saved market and feeds it the rest of   *)
(* the log again: every write of a row must be harmless the second time.   *)
(* A session lock keeps two writers apart, but it goes with its database   *)
(* connection while the process runs on; the generation in the checkpoint  *)
(* row then fences the old writer out.                                     *)
(*                                                                         *)
(* The market is deterministic.  The price an order is filled at is a      *)
(* function of the rows the market was fed before, so that sequence of     *)
(* rows stands for the price: two runs agree on a price if and only if     *)
(* they were fed the same rows.  Whether there is liquidity for an order   *)
(* and how it ends is a fate drawn in advance.                             *)
(***************************************************************************)
EXTENDS AccountRow, FiniteSets

CONSTANTS
  Keys,         \* idempotency keys: one order each, asked for any number of times
  Stakes,       \* stakes a client may ask for
  Fates,        \* what the market may have in store for an order
  Writers, NoWriter,
  Duration,     \* durationSec of an order, in ticks of the clock
  MaxTime,      \* bound on the clock
  MaxFailures   \* bound on crashes and lost lock connections

ASSUME WriterAssumption == NoWriter \notin Writers
ASSUME FateAssumption ==
  /\ Duration \in Nat
  /\ Fates \subseteq [filled: BOOLEAN, status: {"WON", "LOST", "REFUNDED"}, life: 1..Duration]
ASSUME OrderAssumption == Keys # {} /\ Stakes \subseteq Nat \ {0}

VARIABLES
  wal,          \* the MarketCommand rows, in the order of their sequence
  trade,        \* trade[k]: the Trade row of the order with that key
  checkpoint,   \* the MarketWorldCheckpoint row
  lock,         \* who holds the session advisory lock
  writer,       \* writer[w]: where the process is, its market and its watermark
  now,          \* the clock
  fate,         \* fate[k]: the market's answer to the order
  failures      \* crashes and lost connections so far

databaseVars == <<accountVars, wal, trade, checkpoint>>
vars == <<account, ledger, userStatus, wal, trade, checkpoint, lock, writer, now, fate, failures>>

Settled == {"WON", "LOST", "REFUNDED"}

NoContract == [status |-> "NONE", entry |-> <<>>, end |-> 0]
NoTrade    == [status |-> "NONE", entry |-> <<>>]
NoResult   == [filled |-> FALSE, entry |-> <<>>]
Seeded     == [time |-> 0, fed |-> <<>>, contracts |-> [k \in Keys |-> NoContract]]
Down       == [pc |-> "down", world |-> Seeded, mark |-> 0]

Init ==
  /\ AccountInit
  /\ wal = <<>>
  /\ trade = [k \in Keys |-> NoTrade]
  /\ checkpoint = [generation |-> NoWriter, sequence |-> 0, world |-> Seeded]
  /\ lock = NoWriter
  /\ writer = [w \in Writers |-> Down]
  /\ now = 0
  /\ fate \in [Keys -> Fates]
  /\ failures = 0

----------------------------------------------------------------------------
(* The simulated market. *)

LaterOf(a, b) == IF a < b THEN b ELSE a

(* advance: contracts whose time has come, or whose stop was reached on the *)
(* way, are settled in memory.                                              *)
Advanced(world, time) ==
  [world EXCEPT
     !.time = LaterOf(@, time),
     !.contracts = [k \in Keys |->
        IF @[k].status = "OPEN" /\ @[k].end <= LaterOf(world.time, time)
        THEN [@[k] EXCEPT !.status = fate[k].status] ELSE @[k]]]

(* open: a contract at the price of this moment, if there is liquidity. *)
Opened(world, k) ==
  IF fate[k].filled
  THEN [world EXCEPT !.contracts[k] =
          [status |-> "OPEN", entry |-> world.fed, end |-> world.time + fate[k].life]]
  ELSE world

Answer(world, k) ==
  IF fate[k].filled THEN [filled |-> TRUE, entry |-> world.fed] ELSE NoResult

(* The market after a row of the log. *)
Fed(world, i) ==
  LET moved == Advanced(world, wal[i].time)
      after == IF wal[i].kind = "open" THEN Opened(moved, wal[i].key) ELSE moved
  IN [after EXCEPT !.fed = Append(@, i)]

Pending(world) == {k \in Keys : world.contracts[k].status \in Settled}

MutWithoutContracts(world) == [world EXCEPT !.contracts = [k \in Keys |-> NoContract]]

(* What a checkpoint keeps of the market. *)
Saved(world) == [world EXCEPT !.contracts = @]

----------------------------------------------------------------------------
(* The ledger. *)

FromReal(stake) == IF account.real < stake THEN account.real ELSE stake

CeilDiv(a, b) == (a + b - 1) \div b
ToBonus(credit, stake, fromBonus) ==
  IF fromBonus = 0 \/ credit = 0 THEN 0 ELSE CeilDiv(credit * fromBonus, stake)

Credit(stake, status) ==
  CASE status = "WON"      -> (stake * 192) \div 100
    [] status = "REFUNDED" -> stake
    [] OTHER               -> 0

Pay(kind, credit, row, k) ==
  LET toBonus == ToBonus(credit, row.stake, row.fromBonus)
  IN /\ account' = Moved(account, credit - toBonus, toBonus)
     /\ ledger' = Append(ledger, Row(kind, credit, Balance(account'), k))

RowsOf(k) == {i \in 1..Len(wal) : wal[i].kind = "open" /\ wal[i].key = k}
RowOf(k)  == wal[CHOOSE i \in RowsOf(k) : TRUE]

MutNoFence(w) == TRUE
(* assertOtcFence: the generation of the checkpoint row is the writer's. *)
HoldsFence(w) == checkpoint.generation = w

(* A failure in any step is fatal: the process goes down, and its lock. *)
Stopped(w) ==
  /\ writer' = [writer EXCEPT ![w] = Down]
  /\ lock' = IF lock = w THEN NoWriter ELSE lock

----------------------------------------------------------------------------
MutSkipLog(w) ==
  /\ writer[w].pc = "down"
  /\ lock = NoWriter
  /\ lock' = w
  /\ writer' = [writer EXCEPT ![w] =
       [pc |-> "restored", world |-> checkpoint.world, mark |-> Len(wal)]]
  /\ UNCHANGED <<databaseVars, now, fate, failures>>

(* start: the lock is free; the checkpoint is read and the market restored. *)
Acquire(w) ==
  /\ writer[w].pc = "down"
  /\ lock = NoWriter
  /\ lock' = w
  /\ writer' = [writer EXCEPT ![w] =
       [pc |-> "restored", world |-> checkpoint.world, mark |-> checkpoint.sequence]]
  /\ UNCHANGED <<databaseVars, now, fate, failures>>

(* start: the generation becomes the writer's own.  The writer before it may *)
(* have written since the checkpoint was read.                               *)
TakeGeneration(w) ==
  /\ writer[w].pc = "restored"
  /\ checkpoint' = [checkpoint EXCEPT !.generation = w]
  /\ writer' = [writer EXCEPT ![w].pc = "drain"]
  /\ UNCHANGED <<accountVars, wal, trade, lock, now, fate, failures>>

(* reserveOtcTrade: an order takes its stake and enters the log, once per    *)
(* idempotency key (a repeated request finds the row and changes nothing).   *)
(* The transaction is Serializable and holds the account row and an advisory *)
(* lock: one step.  No order is taken that would outlive the bounded clock.  *)
Reserve(w, k, stake) ==
  LET fromReal == FromReal(stake)
  IN /\ writer[w].pc = "idle"
     /\ HoldsFence(w)
     /\ RowsOf(k) = {}
     /\ now + Duration <= MaxTime
     /\ userStatus \notin Paused
     /\ Balance(account) >= stake
     /\ account' = Moved(account, -fromReal, fromReal - stake)
     /\ ledger' = Append(ledger, Row("TRADE_STAKE", -stake, Balance(account) - stake, k))
     /\ wal' = Append(wal, [kind |-> "open", key |-> k, time |-> now, stake |-> stake,
                            fromBonus |-> stake - fromReal, status |-> "ACCEPTED",
                            result |-> NoResult])
     /\ writer' = [writer EXCEPT ![w].pc = "drain"]
     /\ UNCHANGED <<userStatus, trade, checkpoint, lock, now, fate, failures>>

(* advance: once a second a row that moves the market's clock. *)
AppendAdvance(w) ==
  /\ writer[w].pc = "idle"
  /\ HoldsFence(w)
  /\ \A i \in 1..Len(wal) : wal[i].time < now \/ wal[i].kind = "open"
  /\ now > 0
  /\ wal' = Append(wal, [kind |-> "advance", key |-> CHOOSE k \in Keys : TRUE, time |-> now,
                         stake |-> 0, fromBonus |-> 0, status |-> "ACCEPTED",
                         result |-> NoResult])
  /\ writer' = [writer EXCEPT ![w].pc = "drain"]
  /\ UNCHANGED <<accountVars, trade, checkpoint, lock, now, fate, failures>>

----------------------------------------------------------------------------
(* drain and process.                                                      *)

NextRow(w) == writer[w].mark + 1
MutBehind(w) == writer[w].pc = "drain" /\ NextRow(w) < Len(wal)
HasRow(w)  == writer[w].pc = "drain" /\ NextRow(w) <= Len(wal)

(* What the market of w answers to its next row. *)
Result(w) == Answer(Advanced(writer[w].world, wal[NextRow(w)].time), wal[NextRow(w)].key)

MutAnyRow(row) == TRUE
Unfinished(row) == row.status = "ACCEPTED"

(* The row in the log, once the market has answered. *)
Finished(w, status) ==
  wal' = [wal EXCEPT ![NextRow(w)].status = status,
                     ![NextRow(w)].result = IF wal[NextRow(w)].kind = "open" THEN Result(w)
                                            ELSE NoResult]

(* process, up to finalizeOtcOpen: the market is fed the row.  A filled      *)
(* order becomes a trade; one that was not filled gets its stake back; a     *)
(* row that was finished before is left alone.                               *)
Process(w) ==
  LET row == wal[NextRow(w)]
      fed == [writer EXCEPT ![w].pc = "settle", ![w].world = Fed(@, NextRow(w))]
  IN /\ HasRow(w)
     /\ HoldsFence(w)
     /\ writer' = fed
     /\ \/ /\ ~Unfinished(row)
           /\ UNCHANGED databaseVars
        \/ /\ Unfinished(row) /\ row.kind = "advance"
           /\ Finished(w, "APPLIED")
           /\ UNCHANGED <<accountVars, trade, checkpoint>>
        \/ /\ Unfinished(row) /\ row.kind = "open" /\ Result(w).filled
           /\ Finished(w, "APPLIED")
           /\ trade' = [trade EXCEPT ![row.key] = [status |-> "OPEN", entry |-> Result(w).entry]]
           /\ UNCHANGED <<accountVars, checkpoint>>
        \/ /\ Unfinished(row) /\ row.kind = "open" /\ ~Result(w).filled
           /\ Finished(w, "REJECTED")
           /\ Pay("TRADE_REFUND", row.stake, row, row.key)
           /\ UNCHANGED <<userStatus, trade, checkpoint>>
     /\ UNCHANGED <<lock, now, fate, failures>>

StillOpen(k) == trade[k].status = "OPEN"

(* settleOtcTrade, and the acknowledgement to the market: a settled contract *)
(* is paid if its trade is still open.                                       *)
Settle(w, k) ==
  LET contract == writer[w].world.contracts[k]
      credit   == Credit(RowOf(k).stake, contract.status)
  IN /\ writer[w].pc = "settle"
     /\ k \in Pending(writer[w].world)
     /\ HoldsFence(w)
     /\ IF StillOpen(k)
        THEN /\ trade' = [trade EXCEPT ![k].status = contract.status]
             /\ IF credit > 0
                THEN Pay(IF contract.status = "REFUNDED" THEN "TRADE_REFUND" ELSE "TRADE_PAYOUT",
                         credit, RowOf(k), k)
                ELSE UNCHANGED <<account, ledger>>
        ELSE UNCHANGED <<account, ledger, trade>>
     /\ writer' = [writer EXCEPT ![w].world.contracts[k] = NoContract]
     /\ UNCHANGED <<userStatus, wal, checkpoint, lock, now, fate, failures>>

(* The end of process: the watermark passes the row. *)
PassRow(w) ==
  /\ writer[w].pc = "settle"
  /\ Pending(writer[w].world) = {}
  /\ writer' = [writer EXCEPT ![w].pc = "drain", ![w].mark = @ + 1]
  /\ UNCHANGED <<databaseVars, lock, now, fate, failures>>

Drained(w) ==
  /\ writer[w].pc = "drain" /\ ~HasRow(w)
  /\ writer' = [writer EXCEPT ![w].pc = "idle"]
  /\ UNCHANGED <<databaseVars, lock, now, fate, failures>>

(* checkpoint: the market and the watermark, after a drain. *)
Checkpoint(w) ==
  /\ writer[w].pc = "idle"
  /\ HoldsFence(w)
  /\ checkpoint' = [checkpoint EXCEPT !.sequence = writer[w].mark,
                                      !.world = Saved(writer[w].world)]
  /\ UNCHANGED <<accountVars, wal, trade, lock, writer, now, fate, failures>>

----------------------------------------------------------------------------
(* A writer that was fenced out fails with its next transaction. *)
FencedOut(w) ==
  /\ writer[w].pc \in {"drain", "settle", "idle"}
  /\ ~HoldsFence(w)
  /\ Stopped(w)
  /\ UNCHANGED <<databaseVars, now, fate, failures>>

Crash(w) ==
  /\ writer[w].pc # "down"
  /\ failures < MaxFailures
  /\ failures' = failures + 1
  /\ Stopped(w)
  /\ UNCHANGED <<databaseVars, now, fate>>

(* The connection that holds the session lock ends; the process runs on. *)
LoseLock ==
  /\ lock # NoWriter
  /\ failures < MaxFailures
  /\ failures' = failures + 1
  /\ lock' = NoWriter
  /\ UNCHANGED <<databaseVars, writer, now, fate>>

(* The heartbeat finds the connection gone. *)
NoticeLoss(w) ==
  /\ writer[w].pc # "down"
  /\ lock # w
  /\ Stopped(w)
  /\ UNCHANGED <<databaseVars, now, fate, failures>>

Tick ==
  /\ now < MaxTime
  /\ now' = now + 1
  /\ UNCHANGED <<databaseVars, lock, writer, fate, failures>>

Start(w) == Acquire(w) \/ TakeGeneration(w)
Drain(w) ==
  \/ Process(w) \/ PassRow(w) \/ Drained(w)
  \/ \E k \in Keys : Settle(w, k)

Next ==
  \/ \E w \in Writers :
       \/ Start(w) \/ Drain(w) \/ AppendAdvance(w) \/ Checkpoint(w)
       \/ \E k \in Keys, stake \in Stakes : Reserve(w, k, stake)
       \/ FencedOut(w) \/ Crash(w) \/ NoticeLoss(w)
  \/ LoseLock
  \/ Tick

Spec == Init /\ [][Next]_vars

(* The supervisor restarts the engine, the timer advances the market once a *)
(* second, a started drain goes on, and the heartbeat runs.                 *)
FairSpec ==
  /\ Spec
  /\ WF_vars(Tick)
  /\ \A w \in Writers :
       WF_vars(Start(w)) /\ WF_vars(Drain(w)) /\ WF_vars(AppendAdvance(w))
       /\ WF_vars(FencedOut(w)) /\ WF_vars(NoticeLoss(w))

----------------------------------------------------------------------------
RowRecord ==
  [kind: {"open", "advance"}, key: Keys, time: 0..MaxTime, stake: Nat, fromBonus: Nat,
   status: {"ACCEPTED", "APPLIED", "REJECTED"}, result: [filled: BOOLEAN, entry: Seq(Nat)]]
ContractRecord ==
  [status: {"NONE", "OPEN"} \cup Settled, entry: Seq(Nat), end: Nat]
WorldRecord == [time: 0..MaxTime, fed: Seq(Nat), contracts: [Keys -> ContractRecord]]

TypeOK ==
  /\ account \in AccountRecord
  /\ ledger \in Seq([kind: RowKind, amount: Int, after: Int, ref: Keys])
  /\ userStatus \in UserStatus
  /\ wal \in Seq(RowRecord)
  /\ trade \in [Keys -> [status: {"NONE", "OPEN"} \cup Settled, entry: Seq(Nat)]]
  /\ checkpoint \in [generation: Writers \cup {NoWriter}, sequence: Nat, world: WorldRecord]
  /\ lock \in Writers \cup {NoWriter}
  /\ writer \in [Writers -> [pc: {"down", "restored", "drain", "settle", "idle"},
                             world: WorldRecord, mark: Nat]]
  /\ now \in 0..MaxTime /\ failures \in 0..MaxFailures

UpTo(n) == [i \in 1..n |-> i]

(* However often writers crash, lose their lock and start again, and though *)
(* two of them may be running, what the database holds is what one writer   *)
(* that never failed would have written: every order was filled at the      *)
(* price of its place in the log, and a market that is fed the log again    *)
(* gives the same answers, for a fill and for a settlement, so that neither *)
(* "OTC replay result differs" nor "Settlement identity mismatch" is ever   *)
(* thrown (runtime.ts process, otc-trade.ts settleOtcTrade).                *)
OneRun ==
  /\ \A i \in 1..Len(wal) :
       wal[i].result.filled =>
         /\ wal[i].result.entry = UpTo(i - 1)
         /\ trade[wal[i].key].status # "NONE"
         /\ trade[wal[i].key].entry = UpTo(i - 1)
  /\ \A w \in Writers :
       /\ HasRow(w) /\ wal[NextRow(w)].kind = "open" /\ ~Unfinished(wal[NextRow(w)]) =>
            wal[NextRow(w)].result = Result(w)
       /\ writer[w].pc = "settle" => \A k \in Pending(writer[w].world) :
            /\ trade[k].entry = writer[w].world.contracts[k].entry
            /\ trade[k].status \in {"OPEN", writer[w].world.contracts[k].status}

(* Nothing behind the checkpoint is left to do but what the saved market     *)
(* remembers: a row up to the saved watermark has been answered, and an      *)
(* open trade from it is a contract of the saved market.  A writer that      *)
(* starts from the checkpoint looks at later rows only.                      *)
CheckpointCovers ==
  \A i \in 1..checkpoint.sequence :
    /\ wal[i].status # "ACCEPTED"
    /\ wal[i].kind = "open" /\ trade[wal[i].key].status = "OPEN" =>
         checkpoint.world.contracts[wal[i].key].status # "NONE"

(* The checkpoint never goes back, also when a writer that has lost its lock *)
(* saves late: rows behind a checkpoint may be deleted (archive.ts           *)
(* retainOtcHistory), so an older one could no longer be caught up from.     *)
CheckpointNeverBack == [][checkpoint'.sequence >= checkpoint.sequence]_vars

(* An order whose stake was taken is rejected and refunded, or settled, in   *)
(* the end, whatever fails in between.                                       *)
OrdersEnd ==
  \A k \in Keys :
    RowsOf(k) # {} ~>
      \E i \in RowsOf(k) : wal[i].status = "REJECTED" \/ trade[k].status \in Settled

(* Seen from the balance, an order is a claim on an escrow: its stake is     *)
(* taken once and given back once, by a rejection or by its settlement,      *)
(* however often the log is replayed and by however many writers.            *)
OrderClaim(k) ==
  [phase  |-> CASE RowsOf(k) = {} -> "none"
                [] RowsOf(k) # {} /\ (RowOf(k).status = "REJECTED" \/ trade[k].status \in Settled)
                     -> "released"
                [] OTHER -> "held",
   amount |-> IF RowsOf(k) = {} THEN 0 ELSE RowOf(k).stake]

OrderGrants(stake) == {0, stake, (stake * 192) \div 100}

Promise == INSTANCE Escrow WITH
  Claims <- Keys,
  Grants <- OrderGrants,
  free   <- Balance(account),
  claim  <- [k \in Keys |-> OrderClaim(k)]

OtcImplementsEscrow == Promise!Spec
============================================================================
