----------------------------- MODULE TradeDesk -----------------------------
(***************************************************************************)
(* The engine's desk for fixed-term trades on one asset:                   *)
(* apps/engine/src/trading/trade-desk.ts, driven by loop.ts and main.ts.   *)
(*                                                                         *)
(* The Trade rows are in the database; the book of open positions and the  *)
(* queue of captured settlements are in the memory of the engine and are   *)
(* lost when it stops.  A tick captures the price of every due trade       *)
(* without waiting; a worker writes the settlements one at a time and      *)
(* retries.  Database writes may fail, and may fail after committing.      *)
(***************************************************************************)
EXTENDS Integers, Sequences, FiniteSets

CONSTANTS
  Trades,       \* calls of open, each the would-be owner of a Trade row
  Stamped,      \* the trades that get a verdict other than HONEST
  Prices,       \* prices the asset may have
  Durations,    \* trade durations, in seconds
  MaxAttempts,  \* MAX_SETTLE_ATTEMPTS
  MaxClock,     \* bound on the clock
  MaxStarts     \* bound on the starts of the engine

ASSUME SettingAssumption ==
  /\ IsFiniteSet(Trades) /\ Stamped \subseteq Trades
  /\ Durations \subseteq Nat \ {0}
  /\ MaxAttempts \in Nat \ {0} /\ MaxClock \in Nat /\ MaxStarts \in Nat \ {0}

VARIABLES
  clock,      \* whole seconds
  row,        \* row[t]: the Trade row
  booked,     \* booked[t]: times t was added to the house ledgers
  engine,     \* what the engine process is doing
  starts,     \* times it was started
  loaded,     \* the asset is in the registry
  price,      \* asset.state.price
  call,       \* call[t]: where the call of open is
  book,       \* the open positions
  pending,    \* the captured settlements, in order
  settled,    \* the settlement whose ledgers are being written
  reported    \* trades this engine has logged that it leaves OPEN

database == <<row, booked>>
memory   == <<price, call, book, pending, settled, reported>>
process  == <<engine, starts, loaded>>
vars == <<clock, database, process, memory>>

NoCall  == [pc |-> "idle", expiry |-> 0]
NoRow   == [status |-> "NONE", expiry |-> 0, exit |-> 0]
Down    == [pc |-> "down"]
Running == [pc |-> "running"]
Moving  == [pc |-> "moving"]     \* in a tick, after the prices were captured
Up      == {Running, Moving}

(* The memory of an engine that has just loaded the asset. *)
Emptied(p) ==
  /\ price' = p
  /\ call' = [t \in Trades |-> NoCall]
  /\ book' = {} /\ pending' = <<>> /\ settled' = {} /\ reported' = {}

Init ==
  /\ clock = 0
  /\ row = [t \in Trades |-> NoRow]
  /\ booked = [t \in Trades |-> 0]
  /\ engine = Running /\ starts = 1 /\ loaded = TRUE
  /\ price \in Prices
  /\ call = [t \in Trades |-> NoCall]
  /\ book = {} /\ pending = <<>> /\ settled = {} /\ reported = {}

IsOpen(t) == row[t].status = "OPEN"
Voided(r) == [r EXCEPT !.status = "VOID"]
Settled(r, p) == [r EXCEPT !.status = "SETTLED", !.exit = p]

Clock == clock < MaxClock /\ clock' = clock + 1 /\ UNCHANGED <<database, process, memory>>

----------------------------------------------------------------------------
(* open captures the entry and the expiry, then waits for openTrade. *)
Open(t, duration) ==
  /\ engine \in Up /\ loaded /\ call[t].pc = "idle" /\ row[t] = NoRow
  /\ clock + duration <= MaxClock
  /\ call' = [call EXCEPT ![t] = [pc |-> "writing", expiry |-> clock + duration]]
  /\ UNCHANGED <<clock, database, process, price, book, pending, settled, reported>>

(* openTrade commits, or is refused, or commits and throws: then open       *)
(* throws too, and this engine does not know the trade.                     *)
WriteTrade(t) ==
  /\ engine \in Up /\ call[t].pc = "writing"
  /\ \/ /\ row' = [row EXCEPT ![t] = [status |-> "OPEN", expiry |-> call[t].expiry, exit |-> 0]]
        /\ \E pc \in {"written", "lost"} : call' = [call EXCEPT ![t].pc = pc]
     \/ call' = [call EXCEPT ![t].pc = "done"] /\ UNCHANGED row
  /\ UNCHANGED <<clock, booked, process, price, book, pending, settled, reported>>

MutBefore(expiry) == expiry < clock
IsOver(expiry) == expiry <= clock

(* open resumes: with no wait in between it checks the expiry and books. *)
BookTrade(t) ==
  /\ engine \in Up /\ call[t].pc = "written"
  /\ IF IsOver(call[t].expiry)
     THEN call' = [call EXCEPT ![t].pc = "late"] /\ UNCHANGED book
     ELSE call' = [call EXCEPT ![t].pc = "done"] /\ book' = book \cup {t}
  /\ UNCHANGED <<clock, database, process, price, pending, settled, reported>>

(* Voiding a trade commits, fails, or fails after committing.  A caller that *)
(* sees a failure reports it and leaves the trade.                           *)
Void(t) ==
  /\ row' \in {row, [row EXCEPT ![t] = IF IsOpen(t) THEN Voided(@) ELSE @]}
  /\ reported' \in (IF row' = row THEN {reported \cup {t}} ELSE {reported, reported \cup {t}})

VoidLateTrade(t) ==
  /\ engine \in Up /\ call[t].pc = "late"
  /\ Void(t)
  /\ call' = [call EXCEPT ![t].pc = "done"]
  /\ UNCHANGED <<clock, booked, process, price, book, pending, settled>>

----------------------------------------------------------------------------
MutExactSecond == {t \in book : row[t].expiry = clock}
Due == {t \in book : row[t].expiry <= clock}
MutPeek == book
NotDue == book \ Due
DueNextTick == {t \in book : row[t].expiry = clock + 1}

(* preSettle moves the price to the pick of the resolver, if a stamped trade *)
(* is due at the next tick.                                                  *)
PreSettled == IF loaded /\ DueNextTick \cap Stamped # {} THEN Prices ELSE {price}

(* The orders in which due trades may be captured: overdue buckets first. *)
Captured(S) ==
  {s \in [1..Cardinality(S) -> S] :
     /\ \A t \in S : \E i \in DOMAIN s : s[i] = t
     /\ \A i, j \in DOMAIN s : i < j => row[s[i]].expiry <= row[s[j]].expiry}

(* The start of a tick: preSettle, then collectDue, which captures one      *)
(* price for all due trades.  A trade whose asset is not loaded is dropped  *)
(* from the book.                                                           *)
CollectDue ==
  /\ engine = Running
  /\ price' \in PreSettled
  /\ engine' = Moving
  /\ book' = NotDue
  /\ IF loaded
     THEN /\ \E order \in Captured(Due) :
               pending' = pending \o [i \in DOMAIN order |->
                            [trade |-> order[i], exit |-> price', attempts |-> 0]]
          /\ UNCHANGED reported
     ELSE reported' = reported \cup Due /\ UNCHANGED pending
  /\ UNCHANGED <<clock, database, starts, loaded, call, settled>>

(* The rest of the tick: the price moves. *)
MovePrice ==
  /\ engine = Moving
  /\ price' \in Prices
  /\ engine' = Running
  /\ UNCHANGED <<clock, database, starts, loaded, call, book, pending, settled, reported>>

(* What one settleTrade may do: commit, fail, or commit and fail. *)
Reply == {"ok", "failed", "lost"}
MutAlways == Reply
ToBook == {"ok"}

ExitPrice(item) == item.exit

LastAttempt(item) == item.attempts + 1 = MaxAttempts

(* drain settles the head of the queue. *)
SettleHead(reply) ==
  LET item == Head(pending)
      t    == item.trade
  IN /\ engine \in Up /\ pending # <<>> /\ settled = {}
     /\ IsOpen(t)
     /\ row' = IF reply = "failed" THEN row
               ELSE [row EXCEPT ![t] = Settled(@, ExitPrice(item))]
     /\ settled' = IF reply \in ToBook THEN {t} ELSE {}
     /\ pending' = IF reply = "ok" \/ LastAttempt(item) THEN Tail(pending)
                   ELSE [pending EXCEPT ![1].attempts = @ + 1]
     /\ reported' = IF reply # "ok" /\ LastAttempt(item) THEN reported \cup {t} ELSE reported
     /\ UNCHANGED <<clock, booked, process, price, call, book>>

(* The head is settled already: nothing is left to do for it. *)
SkipHead ==
  /\ engine \in Up /\ pending # <<>> /\ settled = {}
  /\ ~IsOpen(Head(pending).trade)
  /\ pending' = Tail(pending)
  /\ UNCHANGED <<clock, database, process, price, call, book, settled, reported>>

(* The ledgers of the house are written if they can be. *)
BookLedgers ==
  /\ engine \in Up /\ settled # {}
  /\ booked' \in {booked, [t \in Trades |-> IF t \in settled THEN booked[t] + 1 ELSE booked[t]]}
  /\ settled' = {}
  /\ UNCHANGED <<clock, row, process, price, call, book, pending, reported>>

----------------------------------------------------------------------------
Crash ==
  /\ engine # Down
  /\ starts < MaxStarts
  /\ engine' = Down
  /\ Emptied(price)
  /\ UNCHANGED <<clock, database, starts, loaded>>

(* main starts the engine: the asset may have been closed meanwhile; every  *)
(* price is new.  hydrate reads the open trades.                            *)
Start ==
  /\ engine = Down
  /\ starts' = starts + 1
  /\ loaded' \in BOOLEAN
  /\ \E p \in Prices : Emptied(p)
  /\ engine' = [pc |-> "hydrating", now |-> clock, todo |-> {t \in Trades : IsOpen(t)}]
  /\ UNCHANGED <<clock, database>>

Missed(t) == row[t].expiry <= engine.now

Hydrate(t) ==
  /\ engine.pc = "hydrating" /\ t \in engine.todo
  /\ engine' = [engine EXCEPT !.todo = @ \ {t}]
  /\ IF Missed(t)
     THEN Void(t) /\ UNCHANGED book
     ELSE book' = book \cup {t} /\ UNCHANGED <<row, reported>>
  /\ UNCHANGED <<clock, booked, starts, loaded, price, call, pending, settled>>

Hydrated ==
  /\ engine.pc = "hydrating" /\ engine.todo = {}
  /\ engine' = Running
  /\ UNCHANGED <<clock, database, starts, loaded, memory>>

OpenStep(t) == WriteTrade(t) \/ BookTrade(t) \/ VoidLateTrade(t)
Settle == \E reply \in Reply : SettleHead(reply)
Drain  == Settle \/ SkipHead \/ BookLedgers
Boot   == Start \/ Hydrated \/ \E t \in Trades : Hydrate(t)

Next ==
  \/ Clock \/ CollectDue \/ MovePrice \/ Drain \/ Crash \/ Boot
  \/ \E t \in Trades : OpenStep(t) \/ \E d \in Durations : Open(t, d)

Spec == Init /\ [][Next]_vars

(* Time passes, the tick loop reschedules itself, the worker runs as long   *)
(* as the queue is not empty, calls return, the supervisor restarts the     *)
(* engine.                                                                  *)
Fairness ==
  /\ WF_vars(Clock)
  /\ WF_vars(CollectDue) /\ WF_vars(MovePrice)
  /\ WF_vars(Drain) /\ WF_vars(Boot)
  /\ \A t \in Trades : WF_vars(OpenStep(t))

FairSpec == Spec /\ Fairness

----------------------------------------------------------------------------
CallRecord == [pc: {"idle", "writing", "written", "lost", "late", "done"}, expiry: Nat]
RowRecord  == [status: {"NONE", "OPEN", "SETTLED", "VOID"}, expiry: Nat, exit: {0} \cup Prices]
ItemRecord == [trade: Trades, exit: Prices, attempts: 0..(MaxAttempts - 1)]

TypeOK ==
  /\ clock \in 0..MaxClock /\ starts \in 1..MaxStarts /\ loaded \in BOOLEAN
  /\ engine \in {Down} \cup Up \cup
       [pc: {"hydrating"}, now: 0..MaxClock, todo: SUBSET Trades]
  /\ row \in [Trades -> RowRecord] /\ booked \in [Trades -> Nat]
  /\ price \in Prices
  /\ call \in [Trades -> CallRecord]
  /\ book \subseteq Trades /\ pending \in Seq(ItemRecord)
  /\ settled \subseteq Trades /\ reported \subseteq Trades

(* Every trade that expired in the same second was settled at one price,    *)
(* whatever was retried, delayed or restarted in between.                   *)
OnePricePerBucket ==
  \A t, u \in Trades :
    row[t].status = "SETTLED" /\ row[u].status = "SETTLED" /\ row[t].expiry = row[u].expiry =>
      row[t].exit = row[u].exit

InQueue(t) == \E i \in DOMAIN pending : pending[i].trade = t
InCall(t)  == call[t].pc \in {"written", "late"}
ToHydrate(t) == engine.pc = "hydrating" /\ t \in engine.todo

(* The open of the trade in this engine ended without its answer. *)
LostReply(t) == call[t].pc = "lost"

(* A running engine knows every open trade, from exactly one place, unless  *)
(* it has reported that it leaves it to the next start, or the answer to    *)
(* its open was lost; such a trade it knows from nowhere until it starts    *)
(* again.                                                                   *)
KnownOnce ==
  engine # Down =>
    \A t \in Trades :
      IsOpen(t) /\ t \notin reported =>
        /\ LostReply(t) <=> ~(t \in book \/ InQueue(t) \/ InCall(t) \/ ToHydrate(t))
        /\ ~(t \in book /\ (InQueue(t) \/ InCall(t) \/ ToHydrate(t)))
        /\ \A i, j \in DOMAIN pending : pending[i].trade = t /\ pending[j].trade = t => i = j

(* The ledgers of the house count a trade at most once, and only one that   *)
(* was settled.                                                             *)
BookedOnce ==
  \A t \in Trades : booked[t] <= 1 /\ (booked[t] = 1 => row[t].status = "SETTLED")

(* Every open trade gets a result, or is reported as left to the next start, *)
(* or the answer to its open was lost, through crashes, failed writes and    *)
(* ticks that come late.                                                     *)
EveryTradeEnds ==
  \A t \in Trades : IsOpen(t) ~> ~IsOpen(t) \/ t \in reported \/ LostReply(t)
============================================================================
