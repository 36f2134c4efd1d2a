--------------------------- MODULE TradesProofs ---------------------------
(***************************************************************************)
(* For every set of orders, of settlers and of stakes, every payout and    *)
(* every opening balance: the account of Trades is never overdrawn, its    *)
(* ledger is a running account, a trade is paid out at most once, and the  *)
(* whole implements Escrow.                                                *)
(***************************************************************************)
EXTENDS Trades, SequenceTheorems, TLAPS

(* What a transaction that has read the account knows about it: the version *)
(* it saw is not newer than the row's, and if it is the row's own then the  *)
(* balances are the row's own too.                                          *)
Snapshot(o) ==
  /\ opening[o].pc \in {"idle", "begin", "read"} => opening[o].attempt < MaxAttempts
  /\ opening[o].pc \in {"begin", "read"} => opening[o].stake > 0
  /\ opening[o].pc = "read" =>
       /\ opening[o].version <= account.version
       /\ opening[o].version = account.version =>
            opening[o].real = account.real /\ opening[o].bonus = account.bonus
       /\ opening[o].real + opening[o].bonus >= opening[o].stake

SnapshotInv == \A o \in Orders : Snapshot(o)

(* The part of a trade's stake that came from the bonus is within the stake,*)
(* and only a settled trade has a profit or a loss.                         *)
TradeInv ==
  \A o \in Orders :
    /\ trade[o].status # "NONE" =>
         /\ opening[o].pc = "opened"
         /\ trade[o].stake = opening[o].stake
         /\ trade[o].stake > 0
         /\ trade[o].fromBonus <= trade[o].stake
    /\ opening[o].pc = "opened" => trade[o].status # "NONE"
    /\ trade[o].status \in {"WON", "REFUNDED"} => trade[o].pnl >= 0

(* A settler works on a trade that exists, with the stake of its row. *)
SettlingInv ==
  \A s \in Settlers : settling[s] # Idle =>
    LET o == settling[s].order
    IN /\ trade[o].status # "NONE"
       /\ settling[s].stake = trade[o].stake
       /\ settling[s].fromBonus = trade[o].fromBonus

(* Every trade that exists has its stake row. *)
StakeRowInv ==
  \A o \in Orders : trade[o].status # "NONE" =>
    \E i \in 1..Len(ledger) : ledger[i].ref = o /\ ledger[i].amount = -opening[o].stake

IInv ==
  /\ TypeOK
  /\ NoOverdraft
  /\ SnapshotInv
  /\ TradeInv
  /\ SettlingInv
  /\ StakeRowInv
  /\ LedgerChain
  /\ OneStakeOneCredit

----------------------------------------------------------------------------
(* The settlement arithmetic: the credit of a stake is a natural number, and *)
(* its bonus share lies between nothing and the whole credit.               *)
LEMMA CreditNat ==
  ASSUME NEW stake \in Nat, NEW outcome \in Outcomes
  PROVE  /\ Profit(stake) \in Nat
         /\ SettlementCredit(stake, outcome) \in Nat
         /\ SettlementPnl(stake, outcome) \in Int
         /\ outcome # "LOST" => /\ SettlementPnl(stake, outcome) >= 0
                                /\ SettlementCredit(stake, outcome)
                                     = stake + SettlementPnl(stake, outcome)
         /\ outcome = "LOST" => SettlementCredit(stake, outcome) = 0
<1>1. stake * PayoutPct \in Nat
  BY PayoutAssumption
<1>2. Profit(stake) \in Nat
  BY <1>1 DEF Profit
<1>3. QED
  BY <1>2 DEF SettlementCredit, SettlementPnl, Outcomes

LEMMA CeilDivBounds ==
  ASSUME NEW a \in Nat, NEW b \in Nat \ {0}
  PROVE  /\ CeilDiv(a, b) \in Nat
         /\ a <= b * CeilDiv(a, b)
         /\ b * CeilDiv(a, b) < a + b
  BY DEF CeilDiv

LEMMA BonusShareBounds ==
  ASSUME NEW credit \in Nat, NEW stake \in Nat \ {0}, NEW fromBonus \in 0..stake
  PROVE  CreditToBonus(credit, stake, fromBonus) \in 0..credit
<1>1. CASE fromBonus = 0 \/ credit = 0
  BY <1>1 DEF CreditToBonus
<1>2. CASE ~(fromBonus = 0 \/ credit = 0)
  <2> DEFINE x == CeilDiv(credit * fromBonus, stake)
  <2>1. credit * fromBonus \in Nat /\ credit * fromBonus <= credit * stake
    OBVIOUS
  <2>2. x \in Nat /\ stake * x < credit * fromBonus + stake
    BY <2>1, CeilDivBounds
  <2>3. stake * x < credit * stake + stake
    BY <2>1, <2>2
  <2>4. x <= credit
    <3> HIDE DEF x
    <3> QED BY <2>2, <2>3
  <2>5. QED
    BY <1>2, <2>2, <2>4 DEF CreditToBonus
<1>3. QED
  BY <1>1, <1>2

(* A balance movement changes the two balances and takes the next version. *)
LEMMA MovedAccount ==
  ASSUME NEW a \in AccountRecord, NEW dReal \in Int, NEW dBonus \in Int
  PROVE  /\ Moved(a, dReal, dBonus) \in AccountRecord
         /\ Moved(a, dReal, dBonus).real = a.real + dReal
         /\ Moved(a, dReal, dBonus).bonus = a.bonus + dBonus
         /\ Moved(a, dReal, dBonus).version = a.version + 1
  BY DEF Moved, AccountRecord

(* Appending one row keeps the chain when the row starts from the balance   *)
(* the account had and the account ends at the balance the row shows.       *)
LEMMA ChainExtends ==
  ASSUME TypeOK, LedgerChain,
         NEW row \in [kind: RowKind, amount: Int, after: Int, ref: Orders],
         ledger' = Append(ledger, row),
         row.after = Balance(account) + row.amount,
         Balance(account') = row.after
  PROVE  LedgerChain'
<1>1. ledger \in Seq([kind: RowKind, amount: Int, after: Int, ref: Orders])
  BY DEF TypeOK
<1>2. /\ Len(ledger') = Len(ledger) + 1
      /\ Len(ledger) \in Nat
      /\ ledger'[Len(ledger) + 1] = row
      /\ \A i \in 1..Len(ledger) : ledger'[i] = ledger[i]
  BY <1>1
<1>3. \A i \in 1..Len(ledger) + 1 : BalanceBefore(i)' = BalanceBefore(i)
  BY <1>2 DEF BalanceBefore
<1>4. ASSUME NEW i \in 1..Len(ledger')
      PROVE  ledger'[i].after = BalanceBefore(i)' + ledger'[i].amount
  <2>1. CASE i \in 1..Len(ledger)
    BY <2>1, <1>2, <1>3 DEF LedgerChain
  <2>2. CASE i = Len(ledger) + 1
    BY <2>2, <1>2, <1>3 DEF LedgerChain
  <2>3. QED
    BY <2>1, <2>2, <1>2
<1>5. BalanceBefore(Len(ledger) + 1)' = row.after
  BY <1>2 DEF BalanceBefore
<1>6. QED
  BY <1>4, <1>5 DEF LedgerChain

LEMMA LedgerRow ==
  ASSUME TypeOK, NEW i \in 1..Len(ledger)
  PROVE  /\ ledger[i] \in [kind: RowKind, amount: Int, after: Int, ref: Orders]
         /\ ledger[i].ref \in Orders
<1>1. ledger \in Seq([kind: RowKind, amount: Int, after: Int, ref: Orders])
  BY DEF TypeOK
<1>2. ledger[i] \in [kind: RowKind, amount: Int, after: Int, ref: Orders]
  BY <1>1, ElementOfSeq
<1>3. QED
  BY <1>2

LEMMA InitIInv == Init => IInv
<1> SUFFICES ASSUME Init PROVE IInv
  OBVIOUS
<1> USE DEF Init, AccountInit, TradeInit
<1>1. TypeOK
  BY OpeningAssumption, CurrencyAssumption, AttemptsAssumption
     DEF TypeOK, AccountRecord, UserStatus, OpeningRecord, NotCalled,
         TradeRecord, NoTrade, TradeStatus, SettlingRecord, Idle
<1>2. NoOverdraft
  BY OpeningAssumption DEF NoOverdraft
<1>3. LedgerChain
  BY OpeningAssumption DEF LedgerChain, BalanceBefore, OpeningBalance, Balance
<1>4. SnapshotInv /\ TradeInv /\ SettlingInv /\ StakeRowInv
  BY AttemptsAssumption
     DEF SnapshotInv, Snapshot, TradeInv, SettlingInv, StakeRowInv, NotCalled, NoTrade, Idle
<1>5. OneStakeOneCredit
  BY DEF OneStakeOneCredit
<1>6. QED
  BY <1>1, <1>2, <1>3, <1>4, <1>5 DEF IInv

----------------------------------------------------------------------------
(* One lemma per action: each keeps the inductive invariant. *)

(* A step that changes neither the account, the ledger nor a trade only has *)
(* to account for the calls in progress.                                    *)
LEMMA CallStepKeeps ==
  ASSUME IInv, UNCHANGED <<account, ledger, trade>>,
         TypeOK', SnapshotInv', SettlingInv',
         \A o \in Orders : /\ opening'[o].pc = "opened" <=> opening[o].pc = "opened"
                           /\ opening[o].pc = "opened" => opening'[o].stake = opening[o].stake
  PROVE  IInv'
<1>1. TradeInv'
  BY DEF IInv, TradeInv
<1>2. StakeRowInv'
  BY DEF IInv, TradeInv, StakeRowInv
<1>3. NoOverdraft' /\ LedgerChain' /\ OneStakeOneCredit'
  BY DEF IInv, NoOverdraft, LedgerChain, OneStakeOneCredit, BalanceBefore, IsCredit, Balance
<1>4. QED
  BY <1>1, <1>2, <1>3 DEF IInv

LEMMA RequestKeeps ==
  ASSUME IInv, NEW o \in Orders, NEW stake \in Stakes, RequestTrade(o, stake)
  PROVE  IInv'
<1> USE DEF RequestTrade
<1>1. stake \in Nat /\ stake > 0
  BY OrdersAssumption
<1>2. TypeOK'
  BY <1>1 DEF IInv, TypeOK, OpeningRecord
<1>3. SnapshotInv'
  BY <1>1 DEF IInv, TypeOK, OpeningRecord, SnapshotInv, Snapshot
<1>4. SettlingInv'
  BY DEF IInv, SettlingInv
<1>5. QED
  BY <1>2, <1>3, <1>4, CallStepKeeps DEF IInv, TypeOK, OpeningRecord

LEMMA ReadKeeps ==
  ASSUME IInv, NEW o \in Orders, ReadAccount(o)
  PROVE  IInv'
<1> DEFINE c == opening[o]
           d == opening'[o]
<1>1. /\ account.real \in Int /\ account.bonus \in Int /\ account.version \in Nat
      /\ c \in OpeningRecord
      /\ opening \in [Orders -> OpeningRecord]
  BY DEF IInv, TypeOK, AccountRecord
<1>2. /\ opening' = [opening EXCEPT ![o] = d]
      /\ c.pc = "begin"
      /\ UNCHANGED <<account, ledger, userStatus, trade, settling>>
  BY <1>1 DEF ReadAccount
<1>3. \/ d = [c EXCEPT !.pc = "inactive"]
      \/ d = [c EXCEPT !.pc = "insufficient"]
      \/ /\ d = [c EXCEPT !.pc = "read", !.real = account.real, !.bonus = account.bonus,
                          !.version = account.version]
         /\ account.real + account.bonus >= c.stake
  BY <1>1 DEF ReadAccount, Balance, OpeningRecord
<1>4. /\ d \in OpeningRecord
      /\ d.pc # "opened" /\ d.stake = c.stake /\ d.attempt = c.attempt
      /\ d.pc \in {"inactive", "insufficient", "read"}
      /\ d.pc = "read" => /\ d.version = account.version
                          /\ d.real = account.real /\ d.bonus = account.bonus
                          /\ account.real + account.bonus >= c.stake
  BY <1>1, <1>2, <1>3 DEF OpeningRecord
<1> HIDE DEF c, d
<1>5. TypeOK'
  BY <1>1, <1>2, <1>4 DEF IInv, TypeOK
<1>6. SnapshotInv'
  BY <1>1, <1>2, <1>4 DEF IInv, SnapshotInv, Snapshot, c
<1>7. SettlingInv'
  BY <1>2 DEF IInv, SettlingInv
<1>8. QED
  BY <1>1, <1>2, <1>4, <1>5, <1>6, <1>7, CallStepKeeps DEF c

LEMMA ConflictKeeps ==
  ASSUME IInv, NEW o \in Orders, DebitConflict(o)
  PROVE  IInv'
<1> DEFINE c == opening[o]
           d == opening'[o]
<1>1. /\ c \in OpeningRecord /\ c.pc = "read" /\ c.attempt < MaxAttempts /\ c.stake > 0
      /\ opening \in [Orders -> OpeningRecord]
      /\ UNCHANGED <<account, ledger, userStatus, trade, settling>>
  BY DEF IInv, TypeOK, SnapshotInv, Snapshot, DebitConflict
<1>2. /\ opening' = [opening EXCEPT ![o] = d]
      /\ d = [c EXCEPT !.attempt = c.attempt + 1,
                       !.pc = IF c.attempt + 1 < MaxAttempts THEN "begin" ELSE "conflict"]
  BY <1>1 DEF DebitConflict, OpeningRecord
<1>3. /\ d \in OpeningRecord
      /\ d.stake = c.stake /\ d.pc \in {"begin", "conflict"}
      /\ d.pc = "begin" => d.attempt < MaxAttempts
  <2>1. c.attempt + 1 \in 0..MaxAttempts
    BY <1>1, AttemptsAssumption DEF OpeningRecord
  <2>2. CASE c.attempt + 1 < MaxAttempts
    <3>1. d = [c EXCEPT !.attempt = c.attempt + 1, !.pc = "begin"]
      BY <1>2, <2>2
    <3>2. QED
      BY <1>1, <2>1, <2>2, <3>1 DEF OpeningRecord
  <2>3. CASE ~(c.attempt + 1 < MaxAttempts)
    <3>1. d = [c EXCEPT !.attempt = c.attempt + 1, !.pc = "conflict"]
      BY <1>2, <2>3
    <3>2. QED
      BY <1>1, <2>1, <3>1 DEF OpeningRecord
  <2>4. QED
    BY <2>2, <2>3
<1> HIDE DEF c, d
<1>4. TypeOK'
  BY <1>1, <1>2, <1>3 DEF IInv, TypeOK
<1>5. SnapshotInv'
  BY <1>1, <1>2, <1>3 DEF IInv, SnapshotInv, Snapshot
<1>6. SettlingInv'
  BY <1>1 DEF IInv, SettlingInv
<1>7. QED
  BY <1>1, <1>2, <1>3, <1>4, <1>5, <1>6, CallStepKeeps DEF c

LEMMA LoadKeeps ==
  ASSUME IInv, NEW s \in Settlers, NEW o \in Orders, NEW outcome \in Outcomes,
         LoadOpenTrade(s, o, outcome)
  PROVE  IInv'
<1> USE DEF LoadOpenTrade
<1>1. trade[o].stake \in Nat /\ trade[o].fromBonus \in Nat
  BY DEF IInv, TypeOK, TradeRecord
<1>2. TypeOK'
  BY <1>1 DEF IInv, TypeOK, SettlingRecord
<1>3. SnapshotInv'
  BY DEF IInv, SnapshotInv, Snapshot
<1>4. SettlingInv'
  BY DEF IInv, TypeOK, SettlingInv, Idle
<1>5. QED
  BY <1>2, <1>3, <1>4, CallStepKeeps

LEMMA AlreadyKeeps ==
  ASSUME IInv, NEW s \in Settlers, AlreadySettled(s)
  PROVE  IInv'
<1> USE DEF AlreadySettled, ClaimFinds
<1>1. TypeOK'
  BY DEF IInv, TypeOK, SettlingRecord
<1>2. SnapshotInv'
  BY DEF IInv, SnapshotInv, Snapshot
<1>3. SettlingInv'
  BY DEF IInv, TypeOK, SettlingInv
<1>4. QED
  BY <1>1, <1>2, <1>3, CallStepKeeps

LEMMA StatusKeeps ==
  ASSUME IInv, NEW st \in UserStatus, SetUserStatus(st), UNCHANGED tradeVars
  PROVE  IInv'
<1> USE DEF SetUserStatus, tradeVars
<1>1. TypeOK'
  BY DEF IInv, TypeOK
<1>2. SnapshotInv' /\ SettlingInv'
  BY DEF IInv, SnapshotInv, Snapshot, SettlingInv
<1>3. QED
  BY <1>1, <1>2, CallStepKeeps

(* The debit: the guard on the version makes the balances read the          *)
(* balances of the row, so the debit is covered and the ledger row carries  *)
(* on from the last one.                                                    *)
LEMMA DebitKeeps ==
  ASSUME IInv, NEW o \in Orders, DebitStake(o)
  PROVE  IInv'
<1> DEFINE c == opening[o]
           fromReal == StakeFromReal(c.real, c.stake)
           fromBonus == c.stake - fromReal
           row == Row("TRADE_STAKE", -c.stake, c.real + c.bonus - c.stake, o)
<1>1. /\ account \in AccountRecord
      /\ account.real >= 0 /\ account.bonus >= 0
      /\ c \in OpeningRecord
      /\ c.pc = "read" /\ c.stake > 0
      /\ c.real = account.real /\ c.bonus = account.bonus
      /\ c.real + c.bonus >= c.stake
      /\ trade[o].status = "NONE"
  BY DEF IInv, TypeOK, SnapshotInv, Snapshot, TradeInv, NoOverdraft, DebitStake
<1>2. /\ fromReal \in Nat /\ fromReal <= account.real
      /\ fromBonus \in Nat /\ fromBonus <= account.bonus /\ fromBonus <= c.stake
      /\ c.stake \in Nat
  BY <1>1 DEF StakeFromReal, AccountRecord, OpeningRecord
<1>3. /\ account' = Moved(account, -fromReal, -fromBonus)
      /\ trade' = [trade EXCEPT ![o] =
           [status |-> "OPEN", stake |-> c.stake, fromBonus |-> fromBonus, pnl |-> 0]]
      /\ ledger' = Append(ledger, row)
      /\ opening' = [opening EXCEPT ![o].pc = "opened"]
      /\ UNCHANGED <<userStatus, settling>>
  BY DEF DebitStake
<1> HIDE DEF fromReal, fromBonus
<1>4. /\ account' \in AccountRecord
      /\ account'.real = account.real - fromReal
      /\ account'.bonus = account.bonus - fromBonus
      /\ account'.version = account.version + 1
  <2>1. -fromReal \in Int /\ -fromBonus \in Int
    BY <1>2
  <2>2. account.real \in Int /\ account.bonus \in Int
    BY <1>1 DEF AccountRecord
  <2>3. QED
    BY <1>1, <1>2, <1>3, <2>1, <2>2, MovedAccount
<1>5. row \in [kind: RowKind, amount: Int, after: Int, ref: Orders]
  <2>1. c.stake \in Int /\ c.real \in Int /\ c.bonus \in Int
    BY <1>1 DEF OpeningRecord
  <2>2. -c.stake \in Int /\ c.real + c.bonus - c.stake \in Int
    BY <2>1
  <2>3. QED
    BY <2>2 DEF Row, RowKind
<1>6. /\ ledger \in Seq([kind: RowKind, amount: Int, after: Int, ref: Orders])
      /\ Len(ledger) \in Nat /\ Len(ledger') = Len(ledger) + 1
      /\ ledger'[Len(ledger) + 1] = row
      /\ \A i \in 1..Len(ledger) : ledger'[i] = ledger[i]
  BY <1>3, <1>5 DEF IInv, TypeOK
<1>7. TypeOK'
  <2>1. opening' \in [Orders -> OpeningRecord]
    BY <1>3 DEF IInv, TypeOK, OpeningRecord
  <2>2. trade' \in [Orders -> TradeRecord]
    BY <1>2, <1>3 DEF IInv, TypeOK, TradeRecord, TradeStatus
  <2>3. ledger' \in Seq([kind: RowKind, amount: Int, after: Int, ref: Orders])
    BY <1>3, <1>5, <1>6
  <2>4. QED
    BY <1>3, <1>4, <2>1, <2>2, <2>3 DEF IInv, TypeOK
<1>8. NoOverdraft'
  BY <1>1, <1>2, <1>4 DEF NoOverdraft, AccountRecord
<1>9. SnapshotInv'
  <2> SUFFICES ASSUME NEW p \in Orders PROVE Snapshot(p)'
    BY DEF SnapshotInv
  <2>1. CASE p = o
    BY <1>3, <2>1 DEF IInv, TypeOK, Snapshot
  <2>2. CASE p # o
    <3>1. opening'[p] = opening[p] /\ opening[p] \in OpeningRecord
      BY <1>3, <2>2 DEF IInv, TypeOK
    <3>2. Snapshot(p)
      BY DEF IInv, SnapshotInv
    <3>3. account.version \in Nat
      BY <1>1 DEF AccountRecord
    <3>4. QED
      BY <1>4, <3>1, <3>2, <3>3 DEF Snapshot, OpeningRecord
  <2>3. QED
    BY <2>1, <2>2
<1>10. TradeInv'
  BY <1>1, <1>2, <1>3 DEF IInv, TypeOK, TradeInv, TradeRecord, OpeningRecord
<1>11. SettlingInv'
  BY <1>1, <1>3 DEF IInv, TypeOK, SettlingInv
<1>12. StakeRowInv'
  <2> SUFFICES ASSUME NEW p \in Orders, trade'[p].status # "NONE"
               PROVE  \E i \in 1..Len(ledger') :
                        ledger'[i].ref = p /\ ledger'[i].amount = -opening'[p].stake
    BY DEF StakeRowInv
  <2>1. opening'[p].stake = opening[p].stake
    BY <1>3 DEF IInv, TypeOK, OpeningRecord
  <2>2. CASE p = o
    BY <1>6, <2>1, <2>2 DEF Row
  <2>3. CASE p # o
    BY <1>3, <1>6, <2>1, <2>3 DEF IInv, TypeOK, StakeRowInv
  <2>4. QED
    BY <2>2, <2>3
<1>13. LedgerChain'
  <2>1. row.amount = -c.stake /\ row.after = c.real + c.bonus - c.stake
    BY DEF Row
  <2>2. Balance(account) = c.real + c.bonus
    BY <1>1 DEF Balance
  <2>3. row.after = Balance(account) + row.amount
    BY <1>1, <1>2, <2>1, <2>2 DEF AccountRecord
  <2>4. fromReal + fromBonus = c.stake
    BY <1>1, <1>2 DEF AccountRecord, OpeningRecord, fromBonus, fromReal, StakeFromReal
  <2>5. Balance(account') = row.after
    BY <1>1, <1>2, <1>4, <2>1, <2>4 DEF Balance, AccountRecord
  <2> HIDE DEF row
  <2>6. QED
    BY <1>3, <1>5, <2>3, <2>5, ChainExtends DEF IInv
<1>14. OneStakeOneCredit'
  <2>1. \A i \in 1..Len(ledger) : ledger[i].ref # o
    BY <1>1 DEF IInv, OneStakeOneCredit
  <2>2. \A i \in 1..Len(ledger) : trade'[ledger[i].ref] = trade[ledger[i].ref]
    BY <1>3, <1>6, <2>1 DEF IInv, TypeOK
  <2>3. row.ref = o /\ row.kind = "TRADE_STAKE"
    BY DEF Row
  <2>4. trade'[o].status # "NONE"
    BY <1>3 DEF IInv, TypeOK
  <2> HIDE DEF row
  <2>5. ASSUME NEW i \in 1..Len(ledger'), NEW j \in 1..Len(ledger'),
               ledger'[i].ref = ledger'[j].ref, IsCredit(i)' = IsCredit(j)'
        PROVE  i = j
    <3>1. CASE i \in 1..Len(ledger) /\ j \in 1..Len(ledger)
      BY <1>6, <2>5, <3>1 DEF IInv, OneStakeOneCredit, IsCredit
    <3>2. CASE ~(i \in 1..Len(ledger)) /\ ~(j \in 1..Len(ledger))
      BY <1>6, <3>2
    <3>3. CASE (i \in 1..Len(ledger)) # (j \in 1..Len(ledger))
      BY <1>6, <2>1, <2>3, <2>5, <3>3
    <3>4. QED
      BY <3>1, <3>2, <3>3
  <2>6. ASSUME NEW i \in 1..Len(ledger')
        PROVE  /\ trade'[ledger'[i].ref].status # "NONE"
               /\ IsCredit(i)' =>
                    /\ trade'[ledger'[i].ref].status \in {"WON", "REFUNDED"}
                    /\ ledger'[i].amount
                         = trade'[ledger'[i].ref].stake + trade'[ledger'[i].ref].pnl
    <3>1. CASE i \in 1..Len(ledger)
      BY <1>6, <2>2, <3>1 DEF IInv, OneStakeOneCredit, IsCredit
    <3>2. CASE i = Len(ledger) + 1
      BY <1>6, <2>3, <2>4, <3>2 DEF IsCredit
    <3>3. QED
      BY <1>6, <3>1, <3>2
  <2>7. QED
    BY <2>5, <2>6 DEF OneStakeOneCredit
<1>15. QED
  BY <1>7, <1>8, <1>9, <1>10, <1>11, <1>12, <1>13, <1>14 DEF IInv

(* The settlement: the claim is won by one settler only, because the trade  *)
(* it claims is open and its ledger rows hold no credit yet.                *)
LEMMA ApplyKeeps ==
  ASSUME IInv, NEW s \in Settlers, ApplySettlement(s)
  PROVE  IInv'
<1> DEFINE t == settling[s]
           o == t.order
           credit == SettlementCredit(t.stake, t.outcome)
           pnl == SettlementPnl(t.stake, t.outcome)
           toBonus == CreditToBonus(credit, t.stake, t.fromBonus)
           kind == IF t.outcome = "REFUNDED" THEN "TRADE_REFUND" ELSE "TRADE_PAYOUT"
           row == Row(kind, credit, Balance(account'), o)
<1>1. /\ t \in [pc: {"loaded"}, order: Orders, outcome: Outcomes, stake: Nat, fromBonus: Nat]
      /\ trade[o].status = "OPEN"
      /\ t.stake = trade[o].stake /\ t.fromBonus = trade[o].fromBonus
  BY DEF IInv, TypeOK, SettlingInv, SettlingRecord, ApplySettlement, ClaimFinds
<1>2. /\ o \in Orders /\ t.outcome \in Outcomes /\ t.stake \in Nat
      /\ t.stake > 0 /\ t.fromBonus \in 0..t.stake
      /\ opening[o].pc = "opened" /\ trade[o].stake = opening[o].stake
  BY <1>1 DEF IInv, TradeInv
<1>3. /\ credit \in Nat /\ pnl \in Int
      /\ t.outcome # "LOST" => pnl >= 0 /\ credit = t.stake + pnl
      /\ t.outcome = "LOST" => credit = 0
  BY <1>2, CreditNat
<1>4. toBonus \in 0..credit
  <2>1. t.stake \in Nat \ {0}
    BY <1>2
  <2> HIDE DEF credit
  <2>2. QED
    BY <1>2, <1>3, <2>1, BonusShareBounds
<1>5. /\ trade' = [trade EXCEPT ![o].status = t.outcome, ![o].pnl = pnl]
      /\ settling' = [settling EXCEPT ![s] = Idle]
      /\ UNCHANGED <<userStatus, opening>>
      /\ \/ /\ credit > 0
            /\ account' = Moved(account, credit - toBonus, toBonus)
            /\ ledger' = Append(ledger, row)
         \/ credit = 0 /\ UNCHANGED <<account, ledger>>
  BY DEF ApplySettlement, ClaimFinds
<1>6. /\ account \in AccountRecord /\ account.real >= 0 /\ account.bonus >= 0
      /\ ledger \in Seq([kind: RowKind, amount: Int, after: Int, ref: Orders])
      /\ Len(ledger) \in Nat
  BY DEF IInv, TypeOK, NoOverdraft
<1> HIDE DEF credit, pnl, toBonus
<1>7. /\ trade' \in [Orders -> TradeRecord]
      /\ trade'[o].status = t.outcome /\ trade'[o].pnl = pnl
      /\ trade'[o].stake = trade[o].stake /\ trade'[o].fromBonus = trade[o].fromBonus
      /\ \A p \in Orders \ {o} : trade'[p] = trade[p]
  <2>1. trade[o] \in TradeRecord /\ trade \in [Orders -> TradeRecord]
    BY <1>2 DEF IInv, TypeOK
  <2> DEFINE u == trade'[o]
  <2>2. /\ trade' = [trade EXCEPT ![o] = u]
        /\ u = [trade[o] EXCEPT !.status = t.outcome, !.pnl = pnl]
    BY <1>2, <1>5, <2>1 DEF TradeRecord
  <2>3. u \in TradeRecord /\ u.status = t.outcome /\ u.pnl = pnl
        /\ u.stake = trade[o].stake /\ u.fromBonus = trade[o].fromBonus
    BY <1>2, <1>3, <2>1, <2>2 DEF TradeRecord, TradeStatus
  <2> HIDE DEF u
  <2>4. QED
    BY <1>2, <2>1, <2>2, <2>3 DEF u
<1>8. TradeInv'
  BY <1>2, <1>3, <1>5, <1>7 DEF IInv, TradeInv, Outcomes
<1>9. SettlingInv'
  <2> SUFFICES ASSUME NEW r \in Settlers, settling'[r] # Idle
               PROVE  /\ trade'[settling'[r].order].status # "NONE"
                      /\ settling'[r].stake = trade'[settling'[r].order].stake
                      /\ settling'[r].fromBonus = trade'[settling'[r].order].fromBonus
    BY DEF SettlingInv
  <2>1. settling'[r] = settling[r] /\ settling[r] \in SettlingRecord
    BY <1>5 DEF IInv, TypeOK
  <2>2. settling[r].order \in Orders
    BY <2>1 DEF SettlingRecord
  <2>3. /\ trade[settling[r].order].status # "NONE"
        /\ settling[r].stake = trade[settling[r].order].stake
        /\ settling[r].fromBonus = trade[settling[r].order].fromBonus
    BY <2>1 DEF IInv, SettlingInv
  <2>4. QED
    BY <1>2, <1>7, <2>1, <2>2, <2>3 DEF Outcomes
<1>10. settling' \in [Settlers -> SettlingRecord]
  BY <1>5 DEF IInv, TypeOK, SettlingRecord
<1>11. CASE credit = 0 /\ UNCHANGED <<account, ledger>>
  <2>1. TypeOK'
    BY <1>5, <1>7, <1>10, <1>11 DEF IInv, TypeOK
  <2>2. NoOverdraft' /\ SnapshotInv' /\ LedgerChain'
    BY <1>5, <1>11 DEF IInv, NoOverdraft, SnapshotInv, Snapshot, LedgerChain,
                       BalanceBefore, Balance
  <2>3. StakeRowInv'
    BY <1>1, <1>5, <1>7, <1>11 DEF IInv, StakeRowInv
  <2>4. OneStakeOneCredit'
    <3>1. ASSUME NEW i \in 1..Len(ledger)
          PROVE  /\ trade'[ledger[i].ref].status # "NONE"
                 /\ IsCredit(i) =>
                      /\ trade'[ledger[i].ref].status \in {"WON", "REFUNDED"}
                      /\ ledger[i].amount
                           = trade'[ledger[i].ref].stake + trade'[ledger[i].ref].pnl
      <4>1. ledger[i].ref \in Orders
        BY LedgerRow DEF IInv
      <4>2. QED
        BY <1>1, <1>2, <1>7, <4>1 DEF IInv, OneStakeOneCredit, Outcomes
    <3>2. QED
      BY <1>11, <3>1 DEF IInv, OneStakeOneCredit, IsCredit
  <2>5. QED
    BY <1>8, <1>9, <2>1, <2>2, <2>3, <2>4 DEF IInv
<1>12. CASE /\ credit > 0
            /\ account' = Moved(account, credit - toBonus, toBonus)
            /\ ledger' = Append(ledger, row)
  <2>1. /\ account' \in AccountRecord
        /\ account'.real = account.real + (credit - toBonus)
        /\ account'.bonus = account.bonus + toBonus
        /\ account'.version = account.version + 1
    <3>1. credit - toBonus \in Int /\ toBonus \in Int
      BY <1>3, <1>4
    <3>2. QED
      BY <1>6, <1>12, <3>1, MovedAccount
  <2>2. row.amount = credit /\ row.after = Balance(account') /\ row.ref = o
        /\ row.kind \in {"TRADE_PAYOUT", "TRADE_REFUND"}
    BY DEF Row
  <2>3. Balance(account') \in Int /\ Balance(account') = Balance(account) + credit
    BY <1>3, <1>4, <1>6, <2>1 DEF Balance, AccountRecord
  <2>4. row \in [kind: RowKind, amount: Int, after: Int, ref: Orders]
    BY <1>2, <1>3, <2>3 DEF Row, RowKind
  <2> HIDE DEF row
  <2>5. /\ Len(ledger') = Len(ledger) + 1
        /\ ledger'[Len(ledger) + 1] = row
        /\ \A i \in 1..Len(ledger) : ledger'[i] = ledger[i]
        /\ ledger' \in Seq([kind: RowKind, amount: Int, after: Int, ref: Orders])
    BY <1>6, <1>12, <2>4
  <2>6. TypeOK'
    BY <1>5, <1>7, <1>10, <2>1, <2>5 DEF IInv, TypeOK
  <2>7. NoOverdraft'
    BY <1>3, <1>4, <1>6, <2>1 DEF NoOverdraft, AccountRecord
  <2>8. SnapshotInv'
    <3> SUFFICES ASSUME NEW p \in Orders PROVE Snapshot(p)'
      BY DEF SnapshotInv
    <3>1. Snapshot(p) /\ opening'[p] = opening[p] /\ opening[p] \in OpeningRecord
      BY <1>5 DEF IInv, TypeOK, SnapshotInv
    <3>2. account.version \in Nat
      BY <1>6 DEF AccountRecord
    <3>3. QED
      BY <2>1, <3>1, <3>2 DEF Snapshot, OpeningRecord
  <2>9. LedgerChain'
    BY <1>12, <2>2, <2>3, <2>4, ChainExtends DEF IInv
  <2>10. StakeRowInv'
    <3> SUFFICES ASSUME NEW p \in Orders, trade'[p].status # "NONE"
                 PROVE  \E i \in 1..Len(ledger') :
                          ledger'[i].ref = p /\ ledger'[i].amount = -opening'[p].stake
      BY DEF StakeRowInv
    <3>1. trade[p].status # "NONE"
      BY <1>1, <1>7
    <3>2. PICK i \in 1..Len(ledger) : ledger[i].ref = p /\ ledger[i].amount = -opening[p].stake
      BY <3>1 DEF IInv, StakeRowInv
    <3>3. i \in 1..Len(ledger') /\ ledger'[i] = ledger[i]
      BY <1>6, <2>5
    <3>4. QED
      BY <1>5, <3>2, <3>3
  <2>11. OneStakeOneCredit'
    <3>1. \A i \in 1..Len(ledger) : ledger[i].ref = o => ~IsCredit(i)
      BY <1>1 DEF IInv, OneStakeOneCredit
    <3>2. t.outcome \in {"WON", "REFUNDED"} /\ credit = trade'[o].stake + trade'[o].pnl
      BY <1>1, <1>2, <1>3, <1>7, <1>12 DEF Outcomes
    <3>3. ASSUME NEW i \in 1..Len(ledger'), NEW j \in 1..Len(ledger'),
                 ledger'[i].ref = ledger'[j].ref, IsCredit(i)' = IsCredit(j)'
          PROVE  i = j
      <4>1. /\ i \in 1..Len(ledger) \/ i = Len(ledger) + 1
            /\ j \in 1..Len(ledger) \/ j = Len(ledger) + 1
        BY <1>6, <2>5
      <4>2. CASE i \in 1..Len(ledger) /\ j \in 1..Len(ledger)
        BY <2>5, <3>3, <4>2 DEF IInv, OneStakeOneCredit, IsCredit
      <4>3. CASE i \in 1..Len(ledger) /\ j = Len(ledger) + 1
        <5>1. IsCredit(j)' /\ ledger[i].ref = o
          BY <2>2, <2>5, <3>3, <4>3 DEF IsCredit
        <5>2. IsCredit(i)
          BY <2>5, <3>3, <4>3, <5>1 DEF IsCredit
        <5>3. QED
          BY <3>1, <4>3, <5>1, <5>2
      <4>4. CASE i = Len(ledger) + 1 /\ j \in 1..Len(ledger)
        <5>1. IsCredit(i)' /\ ledger[j].ref = o
          BY <2>2, <2>5, <3>3, <4>4 DEF IsCredit
        <5>2. IsCredit(j)
          BY <2>5, <3>3, <4>4, <5>1 DEF IsCredit
        <5>3. QED
          BY <3>1, <4>4, <5>1, <5>2
      <4>5. QED
        BY <4>1, <4>2, <4>3, <4>4
    <3>4. ASSUME NEW i \in 1..Len(ledger')
          PROVE  /\ trade'[ledger'[i].ref].status # "NONE"
                 /\ IsCredit(i)' =>
                      /\ trade'[ledger'[i].ref].status \in {"WON", "REFUNDED"}
                      /\ ledger'[i].amount
                           = trade'[ledger'[i].ref].stake + trade'[ledger'[i].ref].pnl
      <4>1. CASE i \in 1..Len(ledger)
        <5>1. ledger'[i] = ledger[i] /\ ledger[i].ref \in Orders
          BY <2>5, <4>1, LedgerRow DEF IInv
        <5>2. QED
          BY <1>2, <1>7, <3>1, <4>1, <5>1 DEF IInv, OneStakeOneCredit, IsCredit, Outcomes
      <4>2. CASE i = Len(ledger) + 1
        BY <1>2, <1>7, <2>2, <2>5, <3>2, <4>2 DEF Outcomes
      <4>3. QED
        BY <1>6, <2>5, <4>1, <4>2
    <3>5. QED
      BY <3>3, <3>4 DEF OneStakeOneCredit
  <2>12. QED
    BY <1>8, <1>9, <2>6, <2>7, <2>8, <2>9, <2>10, <2>11 DEF IInv
<1>13. QED
  BY <1>5, <1>11, <1>12

----------------------------------------------------------------------------
LEMMA NextIInv == IInv /\ [Next]_vars => IInv'
<1> SUFFICES ASSUME IInv, [Next]_vars PROVE IInv'
  OBVIOUS
<1>1. CASE UNCHANGED vars
  <2>1. TypeOK' /\ SnapshotInv' /\ SettlingInv'
    BY <1>1 DEF vars, IInv, TypeOK, SnapshotInv, Snapshot, SettlingInv
  <2>2. QED
    BY <1>1, <2>1, CallStepKeeps DEF vars
<1>2. CASE TradeNext
  BY <1>2, RequestKeeps, ReadKeeps, DebitKeeps, ConflictKeeps, LoadKeeps, ApplyKeeps,
     AlreadyKeeps DEF TradeNext, OpenStep, SettleStep
<1>3. CASE \E st \in UserStatus : SetUserStatus(st) /\ UNCHANGED tradeVars
  BY <1>3, StatusKeeps
<1>4. QED
  BY <1>1, <1>2, <1>3 DEF Next

LEMMA SpecIInv == Spec => []IInv
<1>1. Init => IInv
  BY InitIInv
<1>2. IInv /\ [Next]_vars => IInv'
  BY NextIInv
<1>3. QED
  BY <1>1, <1>2, PTL DEF Spec

(* Every variable keeps the shape the schema gives it. *)
THEOREM TypeCorrect == Spec => []TypeOK
<1>1. IInv => TypeOK
  BY DEF IInv
<1>2. QED
  BY <1>1, SpecIInv, PTL

(* No interleaving of openTrade, settleTrade and voidTrade overdraws the    *)
(* account, however many run at once.                                       *)
THEOREM NeverOverdrawn == Spec => []NoOverdraft
<1>1. IInv => NoOverdraft
  BY DEF IInv
<1>2. QED
  BY <1>1, SpecIInv, PTL

(* The ledger explains the balance at every moment, row by row. *)
THEOREM LedgerIsRunningAccount == Spec => []LedgerChain
<1>1. IInv => LedgerChain
  BY DEF IInv
<1>2. QED
  BY <1>1, SpecIInv, PTL

(* However many settlers race for a trade, it is paid out at most once. *)
THEOREM SettledAtMostOnce == Spec => []OneStakeOneCredit
<1>1. IInv => OneStakeOneCredit
  BY DEF IInv
<1>2. QED
  BY <1>1, SpecIInv, PTL
(* A call of openTrade opens one trade or none, retries included. *)
THEOREM OneCallOneTrade == Spec => []OneTradePerCall
<1>1. ASSUME IInv PROVE OneTradePerCall
  <2> SUFFICES ASSUME NEW o \in Orders
               PROVE  /\ trade[o].status # "NONE" <=> opening[o].pc = "opened"
                      /\ trade[o].status # "NONE" => trade[o].stake = opening[o].stake
                      /\ trade[o].status # "NONE" <=>
                           \E i \in 1..Len(ledger) :
                             ledger[i].ref = o /\ ledger[i].amount = -opening[o].stake
    BY DEF OneTradePerCall
  <2>1. /\ trade[o].status # "NONE" <=> opening[o].pc = "opened"
        /\ trade[o].status # "NONE" => trade[o].stake = opening[o].stake
    BY <1>1 DEF IInv, TradeInv
  <2>2. trade[o].status # "NONE" =>
          \E i \in 1..Len(ledger) : ledger[i].ref = o /\ ledger[i].amount = -opening[o].stake
    BY <1>1 DEF IInv, StakeRowInv
  <2>3. \A i \in 1..Len(ledger) : ledger[i].ref = o => trade[o].status # "NONE"
    BY <1>1 DEF IInv, OneStakeOneCredit
  <2>4. QED
    BY <2>1, <2>2, <2>3
<1>2. IInv => OneTradePerCall
  BY <1>1
<1>3. QED
  BY <1>2, SpecIInv, PTL

----------------------------------------------------------------------------
(* Refinement: each step of Trades holds, releases or leaves the escrow.    *)

LEMMA SameEscrow ==
  ASSUME UNCHANGED <<account, trade>>
  PROVE  UNCHANGED Promise!escrowVars
  BY DEF Promise!escrowVars, Balance, TradeClaim

LEMMA DebitHolds ==
  ASSUME IInv, NEW o \in Orders, DebitStake(o)
  PROVE  Promise!Next
<1> DEFINE c == opening[o]
           fromReal == StakeFromReal(c.real, c.stake)
           claims == [p \in Orders |-> TradeClaim(p)]
<1>1. /\ account \in AccountRecord
      /\ c \in OpeningRecord /\ c.stake > 0
      /\ c.real = account.real /\ c.bonus = account.bonus
      /\ c.real + c.bonus >= c.stake
      /\ trade[o].status = "NONE" /\ trade[o] \in TradeRecord
      /\ trade \in [Orders -> TradeRecord]
  BY DEF IInv, TypeOK, SnapshotInv, Snapshot, TradeInv, DebitStake
<1>2. fromReal \in Int /\ c.stake - fromReal \in Int /\ c.stake \in Nat
  BY <1>1 DEF StakeFromReal, AccountRecord, OpeningRecord
<1>3. /\ account' = Moved(account, -fromReal, -(c.stake - fromReal))
      /\ trade' = [trade EXCEPT ![o] =
           [status |-> "OPEN", stake |-> c.stake, fromBonus |-> c.stake - fromReal, pnl |-> 0]]
  BY DEF DebitStake
<1> HIDE DEF fromReal
<1>4. Balance(account') = Balance(account) - c.stake
  <2>1. -fromReal \in Int /\ -(c.stake - fromReal) \in Int
    BY <1>2
  <2>2. /\ account'.real = account.real + (-fromReal)
        /\ account'.bonus = account.bonus + (-(c.stake - fromReal))
    BY <1>1, <1>3, <2>1, MovedAccount
  <2>3. QED
    BY <1>1, <1>2, <2>2 DEF Balance, AccountRecord
<1>5. c.stake \in 1..Balance(account)
  BY <1>1, <1>2 DEF Balance, AccountRecord
<1>6. claims[o].phase = "none"
  BY <1>1 DEF TradeClaim
<1>7. claims' = [claims EXCEPT ![o] = [phase |-> "held", amount |-> c.stake]]
  <2>1. \A p \in Orders \ {o} : trade'[p] = trade[p]
    BY <1>1, <1>3
  <2>2. trade'[o].status = "OPEN" /\ trade'[o].stake = c.stake
    BY <1>1, <1>3
  <2>3. \A p \in Orders : TradeClaim(p)' =
          IF p = o THEN [phase |-> "held", amount |-> c.stake] ELSE TradeClaim(p)
    BY <2>1, <2>2 DEF TradeClaim
  <2>4. QED
    BY <2>3
<1>8. Promise!Hold(o, c.stake)
  BY <1>4, <1>6, <1>7 DEF Promise!Hold
<1>9. QED
  BY <1>5, <1>8 DEF Promise!Next

LEMMA ApplyReleases ==
  ASSUME IInv, NEW s \in Settlers, ApplySettlement(s)
  PROVE  Promise!Next
<1> DEFINE t == settling[s]
           credit == SettlementCredit(t.stake, t.outcome)
           toBonus == CreditToBonus(credit, t.stake, t.fromBonus)
           claims == [p \in Orders |-> TradeClaim(p)]
<1>0. PICK o \in Orders : o = t.order
  BY DEF IInv, TypeOK, SettlingRecord, ApplySettlement, ClaimFinds
<1>1. /\ t \in [pc: {"loaded"}, order: Orders, outcome: Outcomes, stake: Nat, fromBonus: Nat]
      /\ trade[o].status = "OPEN"
      /\ t.stake = trade[o].stake /\ t.fromBonus = trade[o].fromBonus
  BY <1>0 DEF IInv, TypeOK, SettlingInv, SettlingRecord, ApplySettlement, ClaimFinds
<1>2. /\ o \in Orders /\ t.outcome \in Outcomes /\ t.stake \in Nat \ {0}
      /\ t.fromBonus \in 0..t.stake
      /\ account \in AccountRecord /\ trade \in [Orders -> TradeRecord]
  BY <1>1 DEF IInv, TypeOK, TradeInv
<1>3. credit \in Nat
  BY <1>2, CreditNat
<1>4. toBonus \in 0..credit
  <2> HIDE DEF credit
  <2>1. QED
    BY <1>2, <1>3, BonusShareBounds
<1>5. credit \in TradeGrants(claims[o].amount)
  BY <1>1, <1>2 DEF SettlementCredit, TradeGrants, TradeClaim, Outcomes
<1>6. /\ trade' = [trade EXCEPT ![o].status = t.outcome,
                                ![o].pnl = SettlementPnl(t.stake, t.outcome)]
      /\ \/ credit > 0 /\ account' = Moved(account, credit - toBonus, toBonus)
         \/ credit = 0 /\ UNCHANGED account
  BY <1>0 DEF ApplySettlement, ClaimFinds
<1> HIDE DEF credit, toBonus
<1>7. Balance(account') = Balance(account) + credit
  <2>1. CASE credit = 0 /\ UNCHANGED account
    BY <1>2, <2>1 DEF Balance, AccountRecord
  <2>2. CASE credit > 0 /\ account' = Moved(account, credit - toBonus, toBonus)
    <3>1. credit - toBonus \in Int /\ toBonus \in Int
      BY <1>3, <1>4
    <3>2. /\ account'.real = account.real + (credit - toBonus)
          /\ account'.bonus = account.bonus + toBonus
      BY <1>2, <2>2, <3>1, MovedAccount
    <3>3. QED
      BY <1>2, <1>3, <1>4, <3>2 DEF Balance, AccountRecord
  <2>3. QED
    BY <1>6, <2>1, <2>2
<1>8. claims[o].phase = "held"
  BY <1>1, <1>2 DEF TradeClaim
<1>9. claims' = [claims EXCEPT ![o].phase = "released"]
  <2>1. \A p \in Orders \ {o} : trade'[p] = trade[p]
    BY <1>2, <1>6
  <2>2. trade'[o].status = t.outcome /\ trade'[o].stake = trade[o].stake
    BY <1>2, <1>6 DEF TradeRecord
  <2>3. \A p \in Orders \ {o} : TradeClaim(p)' = TradeClaim(p)
    BY <2>1 DEF TradeClaim
  <2>4. TradeClaim(o)' = [phase |-> "released", amount |-> trade[o].stake]
    <3>1. trade'[o].status # "NONE" /\ trade'[o].status # "OPEN"
      BY <1>2, <2>2 DEF Outcomes
    <3>2. QED
      BY <2>2, <3>1 DEF TradeClaim
  <2>5. TradeClaim(o) = [phase |-> "held", amount |-> trade[o].stake]
    BY <1>1 DEF TradeClaim
  <2>6. [TradeClaim(o) EXCEPT !.phase = "released"]
          = [phase |-> "released", amount |-> trade[o].stake]
    BY <2>5
  <2>7. \A p \in Orders :
          TradeClaim(p)' = IF p = o THEN [TradeClaim(o) EXCEPT !.phase = "released"]
                                    ELSE TradeClaim(p)
    BY <2>3, <2>4, <2>6
  <2>8. claims' = [p \in Orders |-> TradeClaim(p)']
    OBVIOUS
  <2>9. QED
    BY <1>2, <2>7, <2>8
<1>10. Promise!Release(o, credit)
  BY <1>7, <1>8, <1>9 DEF Promise!Release
<1>11. QED
  BY <1>2, <1>5, <1>10 DEF Promise!Next

(* For every number of orders and settlers, trading keeps the promise of    *)
(* Escrow: a stake is taken once, out of money that is there, and given     *)
(* back once, as nothing, as the stake, or as the stake and its profit.     *)
THEOREM TradesRefineEscrow == Spec => TradesImplementEscrow
<1>1. Init => Promise!Init
  BY OpeningAssumption
     DEF Init, AccountInit, TradeInit, Promise!Init, Promise!NoClaim, Balance,
         TradeClaim, NoTrade
<1>2. IInv /\ [Next]_vars => [Promise!Next]_(Promise!escrowVars)
  <2> SUFFICES ASSUME IInv, [Next]_vars PROVE [Promise!Next]_(Promise!escrowVars)
    OBVIOUS
  <2>1. ASSUME NEW o \in Orders, DebitStake(o) PROVE Promise!Next
    BY <2>1, DebitHolds
  <2>2. ASSUME NEW s \in Settlers, ApplySettlement(s) PROVE Promise!Next
    BY <2>2, ApplyReleases
  <2>3. CASE UNCHANGED <<account, trade>>
    BY <2>3, SameEscrow
  <2>4. \/ UNCHANGED <<account, trade>>
        \/ \E o \in Orders : DebitStake(o)
        \/ \E s \in Settlers : ApplySettlement(s)
    BY DEF Next, vars, TradeNext, OpenStep, SettleStep, RequestTrade, ReadAccount,
           DebitConflict, LoadOpenTrade, AlreadySettled, ClaimFinds, SetUserStatus, tradeVars
  <2>5. QED
    BY <2>1, <2>2, <2>3, <2>4
<1>3. QED
  BY <1>1, <1>2, SpecIInv, PTL DEF Spec, TradesImplementEscrow, Promise!Spec

(* The real balance gets no more of a credit than its share of the stake;   *)
(* of a refund both balances get exactly what they staked.                  *)
LEMMA ShareIsFair ==
  ASSUME NEW credit \in Nat, NEW stake \in Nat \ {0}, NEW fromBonus \in 0..stake
  PROVE  LET toBonus == CreditToBonus(credit, stake, fromBonus)
         IN /\ (credit - toBonus) * stake <= credit * (stake - fromBonus)
            /\ credit = stake => toBonus = fromBonus
<1>1. PICK b : b = CreditToBonus(credit, stake, fromBonus)
  OBVIOUS
<1>2. b \in 0..credit
  BY <1>1, BonusShareBounds
<1>3. CASE fromBonus = 0 \/ credit = 0
  <2>1. b = 0
    BY <1>1, <1>3 DEF CreditToBonus
  <2>2. (credit - b) * stake <= credit * (stake - fromBonus)
    BY <1>3, <2>1
  <2>3. QED
    BY <1>1, <1>3, <2>1, <2>2
<1>4. CASE ~(fromBonus = 0 \/ credit = 0)
  <2>1. PICK x \in Nat : x = credit * fromBonus
    OBVIOUS
  <2>2. b = CeilDiv(x, stake)
    BY <1>1, <1>4, <2>1 DEF CreditToBonus
  <2>3. b \in Nat /\ x <= stake * b /\ stake * b < x + stake
    BY <2>1, <2>2, CeilDivBounds
  <2>4. (credit - b) * stake <= credit * (stake - fromBonus)
    <3>1. (credit - b) * stake = credit * stake - stake * b
      BY <2>3
    <3>2. credit * (stake - fromBonus) = credit * stake - x
      BY <2>1
    <3>3. PICK y \in Nat, z \in Nat : y = credit * stake /\ z = stake * b
      BY <2>3
    <3>4. y - z <= y - x
      BY <2>1, <2>3, <3>3
    <3>5. QED
      BY <3>1, <3>2, <3>3, <3>4
  <2>5. ASSUME credit = stake PROVE b = fromBonus
    <3>1. stake * fromBonus <= stake * b /\ stake * b < stake * (fromBonus + 1)
      BY <2>1, <2>3, <2>5
    <3>2. fromBonus <= b /\ b < fromBonus + 1
      BY <2>3, <3>1
    <3>3. QED
      BY <2>3, <3>2
  <2>6. QED
    BY <1>1, <2>4, <2>5
<1>5. QED
  BY <1>3, <1>4

(* What one settlement may do to the balances. *)
FairTo(o) ==
  LET t == trade[o]
      toReal  == account'.real - account.real
      toBonus == account'.bonus - account.bonus
  IN /\ toReal * t.stake <= (toReal + toBonus) * (t.stake - t.fromBonus)
     /\ trade'[o].status = "REFUNDED" =>
          toReal = t.stake - t.fromBonus /\ toBonus = t.fromBonus

LEMMA SettlementIsFair ==
  ASSUME IInv, NEW s \in Settlers, ApplySettlement(s),
         NEW o \in Orders, trade[o].status = "OPEN", trade'[o].status \in Outcomes
  PROVE  FairTo(o)
<1>1. PICK t : t = settling[s]
  OBVIOUS
<1>2. t.order = o
  BY <1>1 DEF ApplySettlement, IInv, TypeOK, Outcomes
<1>3. /\ t \in [pc: {"loaded"}, order: Orders, outcome: Outcomes, stake: Nat, fromBonus: Nat]
      /\ t.stake = trade[o].stake /\ t.fromBonus = trade[o].fromBonus
  BY <1>1, <1>2 DEF IInv, TypeOK, SettlingInv, SettlingRecord, ApplySettlement
<1>4. PICK stake \in Nat \ {0}, fromBonus \in Nat :
        /\ stake = t.stake /\ fromBonus = t.fromBonus /\ fromBonus \in 0..stake
        /\ stake = trade[o].stake /\ fromBonus = trade[o].fromBonus
  BY <1>3 DEF IInv, TypeOK, TradeInv
<1>5. PICK credit \in Nat : credit = SettlementCredit(stake, t.outcome)
  BY <1>3, CreditNat
<1>6. PICK b : b = CreditToBonus(credit, stake, fromBonus)
  OBVIOUS
<1>7. /\ b \in 0..credit /\ (credit - b) * stake <= credit * (stake - fromBonus)
      /\ credit = stake => b = fromBonus
  BY <1>4, <1>6, BonusShareBounds, ShareIsFair
<1>8. \/ credit > 0 /\ account' = Moved(account, credit - b, b)
      \/ credit = 0 /\ UNCHANGED account
  BY <1>1, <1>4, <1>5, <1>6 DEF ApplySettlement
<1>9. account \in AccountRecord
  BY DEF IInv, TypeOK
<1>10. account'.real - account.real = credit - b /\ account'.bonus - account.bonus = b
  <2>1. PICK r \in Int, c \in Int : r = account.real /\ c = account.bonus
    BY <1>9 DEF AccountRecord
  <2>2. CASE credit = 0 /\ UNCHANGED account
    BY <1>7, <2>1, <2>2
  <2>3. CASE credit > 0 /\ account' = Moved(account, credit - b, b)
    <3>1. PICK d \in Int : d = credit - b
      BY <1>7
    <3>2. account'.real = account.real + d /\ account'.bonus = account.bonus + b
      BY <1>7, <1>9, <2>3, <3>1, MovedAccount
    <3>3. PICK x \in Int, y \in Int : x = account'.real /\ y = account'.bonus
      BY <1>7, <2>1, <3>1, <3>2
    <3>4. x = r + d /\ y = c + b
      BY <2>1, <3>2, <3>3
    <3>5. x - r = d /\ y - c = b
      BY <1>7, <2>1, <3>1, <3>3, <3>4
    <3>6. QED
      BY <2>1, <3>1, <3>3, <3>5
  <2>4. QED
    BY <1>8, <2>2, <2>3
<1>11. trade'[o].status = t.outcome
  BY <1>1, <1>2 DEF ApplySettlement, IInv, TypeOK, TradeRecord
<1>12. t.outcome = "REFUNDED" => credit = stake
  BY <1>5 DEF SettlementCredit
<1>13. (credit - b) + b = credit
  BY <1>7
<1>14. t.outcome = "REFUNDED" => credit - b = stake - fromBonus /\ b = fromBonus
  BY <1>7, <1>12
<1>15. QED
  BY <1>4, <1>7, <1>10, <1>11, <1>13, <1>14 DEF FairTo

(* For every number of orders and settlers, every stake and payout: a       *)
(* settlement gives the real balance no more than its share of the credit,  *)
(* and a refund gives both balances back what they staked                   *)
(* (splitSettlementCredit, applySettlement).                                *)
THEOREM BonusMoneyStaysBonus == Spec => BonusStaysBonus
<1> DEFINE Fair == \A o \in Orders :
              trade[o].status = "OPEN" /\ trade'[o].status \in Outcomes => FairTo(o)
<1>1. ASSUME IInv, [Next]_vars PROVE [Fair]_vars
  <2>1. ASSUME NEW s \in Settlers, ApplySettlement(s) PROVE Fair
    BY <1>1, <2>1, SettlementIsFair
  <2>2. ASSUME NEW q \in Orders, DebitStake(q) PROVE Fair
    <3>1. \A o \in Orders : trade'[o] = trade[o] \/ trade'[o].status = "OPEN"
      BY <1>1, <2>2 DEF DebitStake, IInv, TypeOK
    <3>2. QED
      BY <3>1 DEF Outcomes
  <2>3. CASE UNCHANGED trade
    BY <2>3 DEF Outcomes
  <2>4. \/ UNCHANGED trade
        \/ \E o \in Orders : DebitStake(o)
        \/ \E s \in Settlers : ApplySettlement(s)
    BY <1>1
       DEF Next, vars, TradeNext, OpenStep, SettleStep, RequestTrade, ReadAccount,
           DebitConflict, LoadOpenTrade, AlreadySettled, ClaimFinds, SetUserStatus, tradeVars
  <2>5. QED
    BY <2>1, <2>2, <2>3, <2>4
<1>2. QED
  BY <1>1, SpecIInv, PTL DEF Spec, BonusStaysBonus, FairTo
============================================================================
