# ASM Trading: verification

TLA+ models of the money-moving core of ASM Trading (a trading platform: a web
application, an engine process with a once-a-second loop, and a PostgreSQL
database behind `packages/db`), the TLC runs that check them on small instances,
and TLAPS proofs. Paths below are relative to `src/`.

## 1. Inventory

### How the parts interact

* The **database** holds every durable thing: `Account`, `Trade`, `Withdrawal`,
  `Deposit`, `BankCredit`, `ChainCredit`, `Transaction` (the ledger), `User`,
  `HouseTreasury`. All repository transactions run at READ COMMITTED, but for
  `otc-trade.ts` (Serializable). What keeps concurrent calls apart is an
  optimistic `Account.version`, guarded updates (`updateMany` with the expected
  status in its WHERE, `count !== 1` rolls back), unique indexes and two row locks.
* The **web process** serves users and administrators: withdrawals, deposits,
  freezing of users. Requests run concurrently.
* The **engine process** opens trades and positions over its internal API,
  closes them from its tick loop, promotes held withdrawals once a minute, and
  keeps the book of open trades in memory only. On an unhandled rejection it
  exits and a supervisor restarts it (`main.ts:181`).
* **Watchers** turn bank statements and chain transfers into payments, and
  matchers pair payments with deposits. A USDT watcher's tick has four stages:
  ingestion, finality, expiry, matching (`chain-watcher/runner.ts:139`).
* The **OTC coordinator** (part of the engine) keeps a simulated market in
  memory over a write-ahead log, `MarketCommand`, and a checkpoint. One process
  at a time is meant to be its writer; a session lock and a generation number in
  the checkpoint row see to that.

### Components

| component | state | operations | what makes it correct |
|---|---|---|---|
| account row, status, ledger | balances, version, `User.status`, `Transaction` rows | guarded debit and credit, `setUserStatus`, conversion | no overdraft; the ledger is a running account |
| fixed-term trades (`repositories/trade.ts`) | `Trade` rows | `openTrade` with retries, `settleTrade`, `voidTrade` | one stake and at most one credit per trade; bonus money stays bonus |
| withdrawals (`repositories/withdrawal.ts`) | `Withdrawal` rows, holds | request, cancel, reject, approve, release, pay, promote | debited once, refunded at most once and never after payment; holds end |
| CFD desk (`trading/cfd-desk.ts`) | positions, treasury | open, scan, modify, manual close | money conserved between account, positions and house; one result per position; liquidation first |
| trade desk (`trading/trade-desk.ts`, `loop.ts`) | book, queue, price, in-flight opens | open, preSettle, collectDue, drain, hydrate | one price per expiry second; no trade forgotten; ledgers counted once |
| deposits (`repositories/deposit.ts`) | `Deposit`, payments, cumulative total | credit, reverse, re-queue, review | a payment is credited once; a reversal takes back what was given |
| deposit intents, slots, gateway | slots of a receiving address, unique amounts | allocate, close, claim, reject, expire, match | a payment reaches the user who was asked for it, and one in time is credited |
| chain watchers: ingestion | scan cursor, credits | open a session, scan a page, advance, close | the floor passes nothing that is not stored; every transfer is found |
| chain watchers: finality | streak of missing answers of a credit | list, check | what is on the chain is never called reorged |
| BSC watcher | block cursor, credits | scan chunks of blocks, move the cursor, judge receipts | the cursor passes nothing that is not stored, whatever a reorganisation does; a row comes to what became of its transfer |
| OTC ledger and fence | command log, OTC trades, checkpoint, writer lock and generation | reserve, process, settle, checkpoint, replay | the database is what one unfailing writer would have written; an order ends |
| affiliate float | float and reset date | daily reset | no stake is lost to a reset |
| house governor and treasury | day and treasury rows | book a result, choose a verdict | counters agree with trades |
| the rest | | pricing, market simulation, feeds, WebSocket, sign-in, fraud flags, reports, web pages | not stateful in a way a property is about, or floating point |

The hard behaviours are the interleavings of long transactions at READ
COMMITTED (a value read before another commit and used after it), retries after
version conflicts, the engine's in-memory book across crashes, database replies
that are lost after a commit, and the two debits of one account that do not
share a guard. `PROJECT.json` lists each at its line under `hazards`.

## 2. Modules

| module | models | reads as |
|---|---|---|
| `AccountRow` | Account row, ledger, user status | shared state; `Moved` is a balance update that bumps the version |
| `Escrow` | nothing in the code: the abstract specification | a claim takes money that is there once and gives back a permitted credit once |
| `Trades` | `openTrade`, `settleTrade`, `voidTrade` | `opening[o]` is a call, `settling[s]` a settler that has loaded the open row |
| `Withdrawals` | `withdrawal.ts`, for a user and for an affiliate | `requesting[w]`, `refunding[c]` are calls between their read and their commit; `ShowWithdrawal` writes the row of an affiliate, which takes no money; `Listed` is the filter of the administrators' page, outside the repository |
| `Wallet` | `Trades` and `Withdrawals` on one account | two INSTANCEs sharing account and ledger |
| `CfdDesk` | money of CFD positions and the treasury | `ordering[p]`, `closing[c]`: calls that have read and not yet written |
| `CfdTriggers` | price, stops, scan, modify, manual close of one position | `scan`, `modifying`, `manual`: what each has loaded |
| `CfdWallet` | `CfdDesk` and `Withdrawals` on one account | two INSTANCEs with guards that do not see each other |
| `TradeDesk` | the engine's book, queue, tick loop, crash and restart | `memory` is lost at `Crash`, `database` is not; `LostReply(t)` marks an open that committed and threw |
| `Deposits` | credit, reversal and review of deposits, by USDT or by bank (`rail`) | `crediting[c]`, `reversing[v]`: transactions with the row locks they hold |
| `Slots` | time-slot USDT deposits and their matcher | `request[u]`: what a request read under the advisory lock; `deciding`: the match the watcher is about to credit; `asked`, which no action reads, is what the payer meant; `Creditable` are the amounts up to MAX_DEPOSIT_USDT_MINOR |
| `ChainScan` | the ingestion stage of the TRON watcher | `watcher[w]`: the page and session a tick has in hand; `cursor` is the row they share |
| `Grace` | when a missing transfer is given up, by either watcher | columns of a `ChainCredit` row |
| `EvmScan` | ingestion and finality of the BSC watcher, and a chain that is reorganised | `scanner[s]`: heads, chunk and logs a tick has in hand; `checker[k]`: the rows as listed and the last receipt |
| `Finality` | the finality stage of the TRON watcher's tick | `poller[p].rows`: the credits as they were listed, some time ago |
| `Otc` | the OTC coordinator, its log, ledger and fence | `writer[w]`: the market in memory and the watermark; `wal`, `trade`, `checkpoint` survive it |
| `TradesProofs`, `WithdrawalsProofs`, `WalletProofs`, `TradeDeskProofs`, `DepositsProofs`, `OtcProofs` | theorems about the module they are named after | section 5 |
| `CfdProofs` | theorems about `CfdDesk` and `CfdTriggers`, with the sums of `DepositsProofs` | section 5 |
| `WatcherProofs` | theorems about `Finality`, `ChainScan`, `EvmScan` and `Slots` | section 5 |

A transaction at READ COMMITTED is split where another transaction can get in
between: at a read whose result is used later, and at a statement that waits for
a row lock. What it writes is applied at its commit, in one step, with the guard
evaluated against the rows as they are then. Reads and writes with no such point
between them are one step. A failed guard is an action of its own
(`DebitConflict`, `AlreadySettled`, `RefundConflict`), with the retry counter the
code has. In `TradeDesk` the code between two awaits is one step; `WriteTrade`,
`SettleHead` and `Void` choose among the replies of the database, one of which is
lost after the commit. In `Otc` a transaction is one step: `otc-trade.ts` is Serializable.

Four representations deserve a word. `ChainScan` keeps of the cursor's version
only who has the current one (`upToDate`), because versions are only ever
compared for equality; `EvmScan` does so too (`current`). `EvmScan` has no clock
but the height of the chain: BSC makes blocks at a steady rate, and a
reorganisation does not shorten the chain. In `Otc` the price of a fill is the sequence of log rows
the market was fed before it: the simulation is deterministic, so two runs agree
on a price if they were fed the same rows. And `Finality` stops counting
`attempts` at the number the code compares it with.

Amounts are small integers. Percentages are the code's where the rounding
matters (`PayoutPct = 92`, the spread fee, the bonus share) and scaled where it
does not (leverage 10 for 100, so that the liquidation and profit prices fall on
the small grid of prices). A price is any member of a small set: the random
process that makes it is floating point.

## 3. Runs

All runs that expect no violation explore the whole state space. Each checks only
properties that an error in the code could break; the type invariants are stated
in the modules (`TypeOK`) and document their state, and no configuration lists
them. Those of `Trades`, `Withdrawals` and `TradeDesk` are proved, and the proof
modules of the others prove the types their proofs need (section 5).

| run | instance | what it shows |
|---|---|---|
| `trades` | 2 orders, 2 settlers, stakes 2 and 3 of real 2 and bonus 3 | races of opens and settlers on one row: `NoOverdraft`, `LedgerChain`, `OneStakeOneCredit`, `OneTradePerCall`, `BonusStaysBonus`, and that `Trades` implements `Escrow` |
| `withdrawals` | 2 requests, 2 refund callers, amounts 1 and 2 of real 2; a user with or without a first deposit, or an affiliate; the tick loop runs | `DebitedOnceRefundedOnce`, `OneHoldPerUser`, the escrow on the real balance, and `HoldEnds` under fairness |
| `wallet` | 1 order, 1 settler, 1 request, 1 refund caller | one account, two repositories: no overdraft, one escrow for both |
| `cfd_desk` | 3 positions, the tick loop as the only closer | `MoneyConserved`, `TreasuryMatchesTrades`, `CloseNeverDebits` |
| `cfd_triggers` | 1 position, 3 prices that jump past every level | `ResultMatchesExit`, `GapLiquidates`, `ExpiryCloses` |
| `trade_desk` | 2 trades, 2 crashes, 1 retry, 3 seconds | `OnePricePerBucket`, `KnownOnce`, `BookedOnce`, `EveryTradeEnds` |
| `deposits` | 2 deposits by USDT or by bank, 2 payments, 2 credits and a reversal at once, a stake | `PaymentCreditsOnce` (by bank no unique index helps), `BonusByNumber`, `ReversalTakesBack`, `CumulativeMatches`, `LedgerAgrees` |
| `bsc_watcher` | scanning: 1 transfer, 2 indices, 1 reorganisation, 3 blocks, 2 scanners, or a scanner and a checker; matching: 2 users, one of whom names a wallet, on 1 address, 3 deposits and a payment or 2 and 2, or one less and a claim or rejection; limits: the one who names a wallet and an affiliate, amounts above the maximum, 2 deposits and a payment or 1 and 2 | `NothingBehindTheCursor`, `ResolvedByTheChain`; `CreditedToItsPayer`, `OneUserPerAddress`, `PaidInTimeIsCredited` |
| `chain_watcher` | ingestion: 2 transfers of one block, 2 watchers, pages of one row, 1 crash; finality: 1 credit, 2 pollers | `NothingBehindTheFloor`, `EveryTransferFound` under fairness, `ReorgedOnlyIfGone` |
| `otc` | 2 orders, 2 writers, 2 crashes or lost lock connections | `OneRun`, `CheckpointCovers`, `CheckpointNeverBack`, that `Otc` implements `Escrow`, `OrdersEnd` under fairness |
| `cfd_two_closers` | 1 position, the loop and a manual close | violates `TreasuryMatchesTrades` |
| `cfd_wallet_overdraft` | 1 position, 1 withdrawal | violates `NoOverdraft` |

**Why the bounds are enough to be interesting.** Two of each actor is the least with
which a race exists, and each race above is between two. The stakes of `trades`
cannot both be paid (2 + 3 of 5 can, 3 + 3 cannot), one alone spans bonus and real
money, and 92 percent of them does not divide evenly. In `withdrawals` 1 + 1 can be
paid and 1 + 2 cannot; the clock runs past the end of every hold. `MaxAttempts = 2`
has one retry that may succeed and one refusal. In `trade_desk` two trades may share
an expiry second or be in neighbouring ones; the clock may run past both before a
tick comes; the second crash may hit the engine while it rebuilds its book. In
`bsc_watcher` the clock of `Slots` is long enough for a slot, its gap and the slot
of the next user; one address is where the two users compete; the third deposit is a
slot that closes another of the same user, and the second payment is a duplicate, or
that of the next user, and `MaxRows = 4` admits three deposits with one payment or two
with two, a claim or rejection counting as a row: with two deposits and a payment it
is what gives one user two slots at a time (`Twice`). `Gap = 2` and `Ttl = 3` leave instants before, in and after
the gap, and `Quarantine = 2` lets an unpaid slot expire within the clock. In
`chain_watcher` pages of one row force a second page whenever both transfers are
listed, so that the crash, the failure or the other watcher comes between two pages;
both transfers share a block time, which is the case a time alone cannot resume
from. `MaxPages = 2` is as many pages as the instance has: a tick that runs out of
pages leaves the session open, as a failure after the first page does. In
`bsc_watcher` chunks are of one block and a tick has two, so that a tick may fail
between chunks, or end before the latest block; a row is given up after two missing
receipts two blocks apart, which a chain of three blocks has room for; two scanners
meet their races on two blocks already (`ScanHeight`); and two indices let a
reorganisation move the log within its block. In `otc` the balance pays both orders,
one partly from bonus money; one failure may be a lost lock and the other a crash of
the writer that replaced the first.

`MCChainWatcher` explores the two stages one at a time in one run: they share only
the row of a credit, which ingestion creates and never touches again. `MCBscWatcher`
does the same with `EvmScan` and `Slots`, and with `Slots` twice: with two users who
are credited, and with payments above the maximum and an affiliate, for which one row
less is enough. Ingestion and matching can be apart: matching takes a row up when it is FINAL,
and no other stage touches it from then on. The matching stage is the same code for
both chains.

**Assumptions about the outside world**, all named in the modules: the provider
lists and resolves a transfer at most `Lag` after its block, and `Lag <= Overlap`
(10 minutes by default); a transfer on the chain is missed by both nodes only until
it has settled, `Settling <= MinElapsed` (10 minutes), or in fewer than `MinChecks`
answers in all. Without them the properties do not hold, nor could they. In
`EvmScan` the node is one consistent node; a transaction that a reorganisation
dropped is back within `Absence` blocks or never, and the checks of a tick take at
most `stall` blocks (its calls have time limits), any number with `Absence + stall <
MinElapsed`. `Slots` has one clock, and block timestamps are read off it.

**Symmetry** is used for interchangeable calls, and never where a liveness
property is checked. Deadlock is checked wherever something is always left to
happen; it is not in `deposits`, `cfd_desk`, `chain_watcher` and `bsc_watcher`, where
every row may be resolved and the bounded clock and the bounded set of orders
leave nothing to do.

## 4. Fairness

* `withdrawals`: the clock advances; a request or refund that has started is
  answered by the database; and where the tick loop runs (`LoopRuns`), `AutoPromote`
  runs once a minute. The loop, which reschedules itself, is its only caller
  (`loop.ts:322`). With `OTC_ORDER_BOOK_ENABLED=true` the engine starts
  `startOtcEngine` and returns (`main.ts:32`), and `otc/boot.ts` starts the chain
  watchers but not that loop: there `AutoPromote` is disabled and `HoldEnds` claims
  nothing. No administrator and no user is obliged to act.
* `cfd_triggers`: the tick loop scans every position at every tick, also when
  quotes are frozen (`loop.ts`). The price, the user and the clock owe nothing.
* `trade_desk`: the clock advances, the tick loop reschedules itself at the end
  of each run (if it throws, the process exits), the worker runs while the queue is not empty, calls in flight
  return, and the supervisor restarts the engine. The number of crashes is
  bounded (`MaxStarts`), and so are the failures of one write (`MaxAttempts`,
  the code's own bound, after which the trade is reported). An open whose answer was
  lost owes nothing: `EveryTradeEnds` excepts it.

* `chain_watcher`: the clock advances, the provider lists a transfer in the end,
  the loop arms its timer again after every tick (`watch-loop.ts:77`), and the
  provider answers now and then: a fetch may fail, but not for ever. That last
  one is strong fairness of `Fetch`, because a failed fetch ends the tick.
* `otc`: the clock advances, the supervisor restarts the engine, the timer
  appends an advance row once a second (`otc/service.ts:45`), a drain that has
  begun goes on, a fenced writer fails with its next transaction, and the
  heartbeat notices a lost lock. Nobody is obliged to place an order or to take
  a checkpoint. Crashes and lost connections are bounded (`MaxFailures`).

All but the one named are weak.

## 5. Proofs

A configuration shows a property on the small instance of its row in section 3. The
theorems below state it for every value of the constants that the assumptions of
the modules allow: any number of users, orders, rows, writers and crashes, any amounts,
windows and bounds.

| module | theorem | says |
|---|---|---|
| `TradesProofs` | `TypeCorrect` | `Spec => []TypeOK` |
| | `NeverOverdrawn` | `Spec => []NoOverdraft` |
| | `LedgerIsRunningAccount` | `Spec => []LedgerChain` |
| | `SettledAtMostOnce` | `Spec => []OneStakeOneCredit` |
| | `OneCallOneTrade` | `Spec => []OneTradePerCall` |
| | `TradesRefineEscrow` | `Spec => TradesImplementEscrow` |
| | `BonusMoneyStaysBonus` | `Spec => BonusStaysBonus` |
| `WithdrawalsProofs` | `DebitedAndRefundedOnce` | `Spec => []DebitedOnceRefundedOnce` |
| | `HeldAtMostOnce` | `Spec => []OneHoldPerUser` |
| | `WithdrawalsRefineEscrow` | `Spec => WithdrawalsImplementEscrow` |
| `WalletProofs` | `WalletNeverOverdrawn` | `Spec => []NoOverdraft` |
| | `WalletRefinesEscrow` | `Spec => WalletImplementsEscrow` |
| `TradeDeskProofs` | `KnownInOnePlace` | `Spec => []KnownOnce` |
| | `BookedAtMostOnce` | `Spec => []BookedOnce` |
| | `OnePricePerSecond` | `Spec => []OnePricePerBucket` |
| `DepositsProofs` | `PaymentCreditedOnce` | `Spec => []PaymentCreditsOnce` |
| | `BonusOfItsNumber` | `Spec => BonusByNumber` |
| | `LedgerAddsUp` | `Spec => []LedgerAgrees` |
| | `CumulativeIsTheSum` | `Spec => []CumulativeMatches` |
| | `ReversalTakesAllBack` | `Spec => []ReversalTakesBack` |
| | `DepositsNeverOverdraw` | `Spec => []NoOverdraft` |
| `CfdProofs` | `OneCloserConservesMoney` | `ASSUME OneCloser PROVE DeskSpec => []MoneyConserved` |
| | `OneCloserBooksTheTrades` | `ASSUME OneCloser PROVE DeskSpec => []TreasuryMatchesTrades` |
| | `ClosesNeverDebit` | `DeskSpec => CloseNeverDebits` |
| | `DeskNeverOverdraws` | `DeskSpec => []NoOverdraft` |
| | `OneResult` | `TriggersSpec => []ResultMatchesExit` |
| | `GapCostsTheStake` | `TriggersSpec => GapLiquidates` |
| `WatcherProofs` | `OnlyTheGoneAreReorged` | `FinalitySpec => []ReorgedOnlyIfGone` |
| | `CheckpointLeavesNothingBehind` | `Spec => []NothingBehindTheFloor` |
| | `CursorLeavesNothingBehind` | `EvmSpec => []NothingBehindTheCursor` |
| | `ResolvedAsTheChainSays` | `EvmSpec => []ResolvedByTheChain` |
| | `AddressHeldByOne` | `SlotSpec => []OneUserPerAddress` |
| | `PaymentGoesToItsPayer` | `SlotSpec => []CreditedToItsPayer` |
| | `PaidInTimeIsNotLeft` | `ASSUME StraysAreOff PROVE SlotSpec => []PaidInTimeIsCredited` |
| `OtcProofs` | `LogOfOneRun` | `Spec => []OneRun` |
| | `CheckpointCoversItsRows` | `Spec => []CheckpointCovers` |
| | `CheckpointOnlyAdvances` | `Spec => CheckpointNeverBack` |
| | `OtcRefinesEscrow` | `Spec => OtcImplementsEscrow` |

**Assumptions.** Each module names its own (`...Assumption`), and TLC evaluates them
in every run. They say that stakes, amounts and durations are positive, that an
opening balance is not negative, that the sets which one transaction counts (the
deposits, the slots, the positions, the trades of the desk, the transfers of a chain)
are finite, and that ids do not clash: no order is a request (`IdsAssumption`), no
deposit and no payment is the mark for none. The prices of `CfdTriggers` are counted
in a unit in which the leverage divides the entry price (`UnitAssumption`), so that
the liquidation price is one of them. The three about the world outside (`ScanAssumption`, `FinalityAssumption`,
`EvmAssumption`) are those of section 3. Bounds such as `MaxAttempts` are constants
too: a theorem holds whatever they are. Two hypotheses are not assumptions of a module
but stand in the theorems that need them, because the code is right only where they
hold: `OneCloser`, a single closer of positions, which the tick loop is by itself and
is not beside a manual close (`cfd_two_closers` shows the money going wrong with
two); and `StraysAreOff`, no stray transfer to a slot's address is within the
tolerance of an amount that is asked for, as else it may complete the slot and leave
the payment it was meant for to the administrators. The instances of `cfd_desk` and
`bsc_watcher` satisfy them.

None of the properties is inductive. What each proof adds, and why it is true:

**Trades** (`IInv`). A call between its read and its debit has seen a version no newer
than the row's, and if the versions are equal the balances it saw are the row's and
cover its stake (`SnapshotInv`). This is what the optimistic lock buys: the guard
compares versions, and the debit needs the balances; it is inductive because every
balance update bumps the version. An existing trade has the stake of the call that
opened it (`TradeInv`), a settler has loaded a trade that exists, with terms that do
not change afterwards (`SettlingInv`), and each trade has its one stake row
(`StakeRowInv`). The rounding of the bonus share is a lemma on arithmetic
(`CeilDivBounds`, `BonusShareBounds`). In the refinement `DebitStake` is `Hold`,
`ApplySettlement` is `Release`, and all other steps are stuttering. `BonusStaysBonus`
needs of a settlement that the share it computes from the loaded row is the row's
(`ShareIsFair`) and that it divides the credit without remainder and without taking
more for the real balance than its part (`SettlementIsFair`).

**Withdrawals** (`WithdrawalIInv`). The same snapshot argument for the request and for
the refund; the lock on a row has one holder, and who holds it has found the row
refundable, so that what it found still holds when it commits (`LockInv`, `RowInv`);
and the ledger has the rows that the status of the request calls for, no others.
The row of an affiliate has no ledger row and stays REQUESTED, as nobody is given it to
act on (`ShowKeeps`, `RequestOK`): `DebitedAndRefundedOnce` says of it that nothing was
taken and nothing comes back, and in the refinement it is no claim (`Taken`).
`HeldAtMostOnce` follows from the bump of the version in `Place`: of two first
requests that read no earlier withdrawal, the second one's version is stale.

**Wallet** (`WalletIInv`). The two components share the account and nothing else. The
proof restates of each what its money depends on, and shows that a step of one is, to
the other, a step that either leaves the account alone or bumps its version
(`MovedAccount`), which is all the snapshots of the other need. An action of one
component is then proved with the part of that component, and the part of the other
follows from one lemma each (`TradesRest`, `WithdrawalsRest`). The refinement has one
set of claims, trades and withdrawals together.

**Trade desk** (`DeskIInv`). A trade is in at most one of the book, the queue, a call
and the rows still to hydrate (`PlaceInv`), and one that the database has and the engine has not
reported is in one of them or its open lost the answer, never both (`KnownInv`); an
engine that is not up has an empty queue
and no call (`QuietInv`); and a second whose price was captured is over: nobody is
left in the book, in a call or in the rows to hydrate who expires then
without being in the queue at that price (`PriceInv`). That is what a tick, a late
write and a restart have to preserve, and `HydratedStep` and `VoidLateTradeStep` are
where it takes an argument.

**Deposits** (`DepositIInv`). The lock on each row has one holder, and what the holder
found under it still holds (`LockInv`, `CreditInv`, `ReversalInv`); a matched payment
and its deposit name each other, or somebody holds the payment's lock (`MatchInv`).
`BonusByNumber` uses that the count is taken under the lock on the account and that
only a holder of that lock completes a deposit (`OnlyCreditsComplete`).

The sums (`SumInv`). `CumulativeMatches`, `ReversalTakesBack` and `LedgerAgrees` add up
columns of rows. A sum over a finite set is shown to move by as much as the one row
that changes (`SumMoves`, and `SumAdds` for a row that joins), by induction along
the well-founded order of the strict subsets; each action then changes one row and
writes one ledger row. What a reversal takes is capped by what it read of the balances,
and by the version guard they are still the same at its commit, which is why no balance
goes below zero (`DepositsNeverOverdraw`) and why the shortfall it reports is the
remainder of the sum.

**CFD desk** (`DeskIInv`, `LoneIInv`). That a close never debits needs only that no
position loses more than its stake, which a loaded result respects (`Closes`).
Conservation needs more: that the position a closer is about to pay is still open
(`StillOpen`), and with two closers it need not be. With one, every step moves as much
out of one of account, open positions and treasury as into the others, by the same
lemmas on sums. `DeskNeverOverdraws` is about the desk alone: a debit goes through
only while the balances are the ones it has read. `cfd_wallet_overdraft` shows that
beside a withdrawal, which compares versions instead, that is not enough.

**CFD triggers** (`TriggersIInv`). Direction and entry price of a position never change
after it is opened, so the trigger that a scan has found, and the price it has found it
at, remain right whatever the user modifies before the scan writes (`ScanInv`). The
price of an exit is that of its trigger; a liquidation costs the stake to the unit
(`LiquidationCostsStake`), and a scan looks at it before it looks at the stops.

**TRON watcher** (`ScanIInv`, `FinalityIInv`). Of a session: what was due below
its position is stored; the position is never past a transfer that was not seen, as a page
is a prefix of the list (`PageIsFirst`, `PageLeavesNothingOut`), and rows of an earlier
page are skipped by id where a time is shared. Of the floor: it is the session's upper
bound less `Overlap`, and `Lag <= Overlap`. Of finality: a streak was true when the
tick that listed it began, whichever poller wrote it, so an elapsed `MinElapsed`
means an absence of as long.

**BSC watcher** (`EvmIInv`). A block up to the finalized one never changes, so what
was read of it stays true however late it is used (`ChainStepKeeps`); and a
transaction without a block for longer than `Absence` has none again. A row is given
up `MinElapsed` after the streak began at the least, which is `stall` before the miss
at most.

**Slots** (`SlotIInv`, `LeftIInv`). What a request has read under the advisory lock is
true when it writes, because only a holder of the lock opens slots, and because
whatever else happens to a slot in between ends it (`ReadHolds`). Hence no address is
held by two users, the `Gap` included. A payment is sent to the address of a slot of its
payer, so every live slot that covers it in time is one of that payer
(`CoveredByPayer`), and it remains so: a slot opened later begins after the payment. The
match that was decided is of the payer's user for the same reason (`DecidedForPayer`).
For `PaidInTimeIsCredited` one follows a payment in time until it is left: the slot it
was sent for still covers it, unless it ended another way; and if more than one covers
it, two slots of the user overlap (`Outlives`, `LeftOpen`), which is what `Twice`
excepts. The other exceptions are of the payment and the user and do not change:
an amount above the maximum, and an affiliate (`HasReason`).

**OTC market** (`OtcIInv`). The log says, row by row, what one writer that never failed
would have said (`RightLog`), whoever wrote it; a market that was fed the first n rows
remembers exactly what is open of them (`Remembers`), and this holds of every writer's
world and of the checkpoint, a fenced-out writer's included, because answers
depend on the rows and on nothing a writer has to itself; and an idle holder of the
fence has read the whole log, as only it appends. Hence the answer of a second
writer to a row is the first one's, and a late save is refused by its generation or
does no harm.

**Only model-checked.** Liveness (`HoldEnds`, `ExpiryCloses`, `EveryTradeEnds`,
`EveryTransferFound`, `OrdersEnd`) and `ENABLED` are out of the prover's reach.
Every invariant and every action property without fairness that a passing run checks,
and every refinement, is a theorem above. No module declares a `RECURSIVE` operator: sums are those of the community modules, or
recursive functions.

## 6. Where the code and its texts part

With a run (`findings` in `PROJECT.json`):

* `cfd_two_closers`: `closePosition` (`cfd-desk.ts:352`) has no status guard, so
  a manual close and the scan both pay a position they both loaded.
* `cfd_wallet_overdraft`: a position's debit neither compares nor bumps
  `Account.version`, which is all a withdrawal compares.

Visible in the definitions, or met while reading the code, without a run:

* `loop.ts:86` says that a trade settles against the price its owner last saw;
  `preSettle` (`loop.ts:84`, `trade-desk.ts:567`) moves the price for the next
  second before `collectDue` captures the price of this one (`:605`). When both
  seconds have a bucket, the first settles at a price that was never broadcast.
* `deposit.ts:908` says that `cumulativeDeposits` is decremented by the same value
  that was added; a reversal recomputes the credit (`:956`) in the currency the
  account has by then, which `convertAccountCurrency` may have changed. The bonus
  is read back from a row in the old currency.
* `convertAccountCurrency` (`account.ts:145-209`) rewrites the stakes of open
  trades while a settlement that read the old stake may be about to credit it.
* `chain-credit-matcher.ts:180` says that at most one slot covers a payment.
  `claimUtr` has no filter on the method, so a user's slot may be in
  PENDING_CONFIRMATION; a new slot does not close that one, and both cover a
  payment, which goes to review. `PaidInTimeIsCredited` excepts it (`Twice`).
* A slot holds its address until it is credited: after COMPLETED the address is
  free at once, so a second payment of the same user that comes later may fall into
  the next user's slot. `Pay` sends nothing for a deposit that is no longer live.
* A payment of the very instant at which a user replaced a slot lies between
  the two windows (`createdAt = now + 1`); it goes to review.
* `chain-scan-cursor.ts:106` says that a checkpoint never advances past data not
  yet persisted; a row whose event does not resolve is skipped
  (`ingest.ts:177`), and the floor moves on. The overlap covers that for ten minutes,
  which is what `Lag <= Overlap` says.
* The floor may go back: the upper bound of a session is the time its tick
  began, and a slower watcher may open one after a faster one has closed. The
  next session then scans more than it must, no less.
* `finality.ts:9` asks for consecutive missing answers. Two pollers write the streak
  they computed from the row as each listed it, so a stale missing answer may
  restore a streak that a visible answer has reset. The elapsed time still holds.
* `evm-ingest.ts:46` says that a re-scan discovers a moved transfer. It does when
  the log has another index. A row that was called REORGED because the receipt was
  missing for the whole grace period keeps its key: if the transaction is mined
  after that with the same index, `createChainCreditIfNew` finds the row there and
  leaves it REORGED. `Absence` rules that case out.
* The streak of missing receipts starts at the time its tick began, which may be
  before the transaction was dropped: that is what `stall` is for.
* `resetAffiliateAccountFloat` (`affiliate.ts:236-289`) writes an absolute
  balance from an unguarded read: a stake in between is lost.

* `withdrawal.ts:183` says that the withdrawal of an affiliate is never debited, and
  it is not; but its row is REQUESTED, and `rejectWithdrawal` (`:444`), which credits
  the amount of such a row, does not look at the role. Only the administrators' page,
  which does not list it (`withdrawals/page.tsx:70`), keeps it from being refunded.
  The page filters on the role of the day: an administrator may change the role of
  an account (`users/actions.ts:55`), and its old rows then appear or disappear. The
  model has one role for the life of an account.
* In the OTC mode nothing promotes held withdrawals (section 4).
  `assertLegacyDrained` (`otc/preflight.ts:3`) refuses that mode while legacy trades
  are open; it does not look at withdrawals on hold.
* `openTrade` may commit and its answer be lost. `TradeDesk.open` rethrows
  (`trade-desk.ts:376`), and the open trade is in no book, queue or report until an
  engine starts again and hydrates it: `LostReply`, which `KnownOnce` and
  `EveryTradeEnds` except. Settlements and voids are repeated in that case, opens not.
* A payment above MAX_DEPOSIT_USDT_MINOR goes to review even if it comes from the
  wallet the user named and within the slot (`chain-credit-matcher.ts:216`), and the
  slots of affiliates are not looked at (`:204`): `PaidInTimeIsCredited` excepts both.
* `trade.ts:142` says that a freeze that lands mid-request wins the race; the
  status is read in `ReadAccount` and `DebitStake` does not look at it again.
* `schema.prisma:36` says any status but ACTIVE blocks new trades; `Paused`
  holds FROZEN and BANNED only, and `CfdDesk.open` does not read the status.
* `schema.prisma:950` says every balance change writes a ledger row;
  `ClosePosition` credits the account without one.
* `cfd-tick-loop.test.ts:6` says the trailing stop pulls up with `peakPnl`;
  `EffectiveStop` trails the price it is compared with, so it never fires, and
  the peak is never read.
* `deposit.ts:721` says a deposit is credited in the account's own currency; the
  currency is read before the transaction (`BeginCredit`), and a conversion may
  commit before `CommitCredit`.

## 7. Left out, and why

* Prices, feeds, candles, the order-book simulation, and the statistics by which
  the governor picks a verdict: floating point. `Stamped` names the trades that
  get a verdict, `Prices` the prices one may get.
* Pushes to browsers: best effort, nothing depends on them.
* The resolver branch of `drain` that resolves a price in the worker: every item
  arrives resolved from `collectDue`.
* In `Deposits`, which deposit a payment is matched with: `Pairs` allows every
  pair the matchers may form. `Slots` has the matcher of time-slot deposits, on
  a payment that is final; an administrator's decision about a payment in review
  is in `Deposits` only.
* Unique-amount deposits (no page creates them any more for USDT, and the UPI
  ones are behind a flag), per-deposit gateway addresses, a second receiving
  address (`Slots` takes a sequence of them, the instance has one).
* Transfers with several matching events, the checks of a listed row or log
  against the configuration, which drop what is not ours or worth nothing, and
  the start-up verification of the BSC node.
* In `EvmScan`: nodes that lag behind each other (but for the two heads), and
  liveness, which needs the heads to go on moving.
* In `Otc`: the deletion of rows a day old (against a checkpoint every 30
  seconds), quotes, reference and display commands, the first checkpoint of a new
  world, changes of the user's status, and the branches that throw when a replay
  differs, which `OneRun` shows are never taken.
* Conversion of an account between currencies, the daily reset of affiliate
  accounts (also in `Withdrawals` and `Wallet`, whose affiliate keeps the float it
  has), and a change of role: see section 6.
* In `Deposits`, accounts of affiliates: a credit to one is refused before it reads
  anything else of the deposit (`deposit.ts:687`).
* Validation of requests, pages, sign-in, reports.
* Demo accounts: only LIVE accounts move money and the treasury.

## 8. Plan

Done in this order: `AccountRow`, `Escrow`, `Trades`, `Withdrawals`, `Wallet`,
`CfdDesk`, `CfdTriggers`, `CfdWallet`, `TradeDesk`, `Deposits`, `TradesProofs`,
`Otc`, `ChainScan`, `Finality`, `Slots`, `EvmScan`, and the other seven proof modules,
with every safety property of the runs as a theorem.

Next, models:

1. `Platform`: the conversion of an account added to `Wallet`, against a
   settlement that has read the old stake (`account.ts:171`).
2. `AffiliateFloat`: the daily reset (`affiliate.ts:236-289`) against stakes and
   a second reset; one account, two resets.
3. Gateway addresses, the governor's day counters, and the sweep tool.

Next, proofs: what the desk guarantees whoever closes (an upper bound of what two
closers can pay for one position); the composition `CfdWallet` with the guard that a
withdrawal has, as the repair that `cfd_wallet_overdraft` asks for would add; and
refinements of `Escrow` by `CfdDesk` under `OneCloser`, and by `Deposits` for the
reversal.
