------------------------------ MODULE CfdProofs ------------------------------
(***************************************************************************)
(* CFD positions.  For every number of positions, orders and closers: the  *)
(* desk makes and loses no money while positions are closed one at a time, *)
(* and whoever closes never debits the account.  For all prices and stops, *)
(* and any order of scan, change of stops and manual close: a position     *)
(* shows the one result of the price it was closed at, and a gap past the  *)
(* liquidation price costs the stake.                                      *)
(***************************************************************************)
EXTENDS DepositsProofs, CfdDesk, CfdTriggers

----------------------------------------------------------------------------
(* CfdDesk: what the desk adds up to. *)
(* What the positions add up to: their fees, their results, and the stakes  *)
(* of the open ones.                                                        *)
OpenOf(rows)    == {p \in Positions : rows[p].status = "OPEN"}
FeesOf(rows)    == SumFunctionOnSet([p \in Positions |-> rows[p].fee], Positions)
ResultsOf(rows) == SumFunctionOnSet([p \in Positions |-> rows[p].pnl], Positions)
StakedOf(rows)  == SumFunctionOnSet([p \in Positions |-> rows[p].stake], OpenOf(rows))

LEMMA PositionSums ==
  ASSUME NEW rows \in [Positions -> PositionRecord]
  PROVE  FeesOf(rows) \in Int /\ ResultsOf(rows) \in Int /\ StakedOf(rows) \in Int
<1>1. /\ Numbers([p \in Positions |-> rows[p].fee], Positions)
      /\ Numbers([p \in Positions |-> rows[p].pnl], Positions)
      /\ Numbers([p \in Positions |-> rows[p].stake], OpenOf(rows))
  BY DEF Numbers, PositionRecord, OpenOf
<1>2. IsFiniteSet(OpenOf(rows))
  BY PositionsAssumption, FS_Subset DEF OpenOf
<1>3. QED
  BY PositionsAssumption, <1>1, <1>2, SumInt DEF FeesOf, ResultsOf, StakedOf

(* One row is written: fees and results move by what it says. *)
LEMMA FeesMove ==
  ASSUME NEW rows \in [Positions -> PositionRecord], NEW p \in Positions,
         NEW rec \in PositionRecord
  PROVE  /\ FeesOf([rows EXCEPT ![p] = rec]) = FeesOf(rows) + (rec.fee - rows[p].fee)
         /\ ResultsOf([rows EXCEPT ![p] = rec]) = ResultsOf(rows) + (rec.pnl - rows[p].pnl)
<1>1. PICK next : next = [rows EXCEPT ![p] = rec]
  OBVIOUS
<1>2. /\ Numbers([q \in Positions |-> rows[q].fee], Positions)
      /\ Numbers([q \in Positions |-> rows[q].pnl], Positions)
  BY DEF Numbers, PositionRecord
<1>3. /\ Numbers([q \in Positions |-> next[q].fee], Positions)
      /\ Numbers([q \in Positions |-> next[q].pnl], Positions)
  BY <1>1 DEF Numbers, PositionRecord
<1>4. /\ Agree([q \in Positions |-> rows[q].fee], [q \in Positions |-> next[q].fee],
               Positions \ {p})
      /\ Agree([q \in Positions |-> rows[q].pnl], [q \in Positions |-> next[q].pnl],
               Positions \ {p})
  BY <1>1 DEF Agree
<1>5. FeesOf(next) = FeesOf(rows) + (rec.fee - rows[p].fee)
  <2>1. PICK f, g : f = [q \in Positions |-> rows[q].fee] /\ g = [q \in Positions |-> next[q].fee]
    OBVIOUS
  <2>2. SumFunctionOnSet(g, Positions) = SumFunctionOnSet(f, Positions) + (g[p] - f[p])
    BY PositionsAssumption, <1>2, <1>3, <1>4, <2>1, SumMoves
  <2>3. QED
    BY <1>1, <2>1, <2>2 DEF FeesOf
<1>6. ResultsOf(next) = ResultsOf(rows) + (rec.pnl - rows[p].pnl)
  <2>1. PICK f, g : f = [q \in Positions |-> rows[q].pnl] /\ g = [q \in Positions |-> next[q].pnl]
    OBVIOUS
  <2>2. SumFunctionOnSet(g, Positions) = SumFunctionOnSet(f, Positions) + (g[p] - f[p])
    BY PositionsAssumption, <1>2, <1>3, <1>4, <2>1, SumMoves
  <2>3. QED
    BY <1>1, <2>1, <2>2 DEF ResultsOf
<1>7. QED
  BY <1>1, <1>5, <1>6

(* The stake of a position counts from when it opens to when it closes. *)
LEMMA StakeOpens ==
  ASSUME NEW rows \in [Positions -> PositionRecord], NEW p \in Positions,
         NEW rec \in PositionRecord, rows[p].status # "OPEN", rec.status = "OPEN"
  PROVE  StakedOf([rows EXCEPT ![p] = rec]) = StakedOf(rows) + rec.stake
<1>1. PICK next, open : next = [rows EXCEPT ![p] = rec] /\ open = OpenOf(rows)
  OBVIOUS
<1>2. OpenOf(next) = open \cup {p} /\ p \notin open /\ open \subseteq Positions
  BY <1>1 DEF OpenOf
<1>3. IsFiniteSet(open)
  BY PositionsAssumption, <1>2, FS_Subset
<1>4. PICK f, g : f = [q \in Positions |-> rows[q].stake] /\ g = [q \in Positions |-> next[q].stake]
  OBVIOUS
<1>5. Numbers(f, open) /\ Numbers(g, open \cup {p}) /\ Agree(f, g, open)
  BY <1>1, <1>2, <1>4 DEF Numbers, Agree, PositionRecord
<1>6. SumFunctionOnSet(f, open) = SumFunctionOnSet(g, open)
  BY <1>3, <1>5, SumOfSame
<1>7. SumFunctionOnSet(g, open \cup {p}) = SumFunctionOnSet(g, open) + g[p]
  BY <1>2, <1>3, <1>5, SumAdds
<1>8. g[p] = rec.stake
  BY <1>1, <1>4
<1>9. QED
  BY <1>1, <1>2, <1>4, <1>6, <1>7, <1>8 DEF StakedOf

LEMMA StakeReturns ==
  ASSUME NEW rows \in [Positions -> PositionRecord], NEW p \in Positions,
         NEW rec \in PositionRecord, rows[p].status = "OPEN", rec.status # "OPEN"
  PROVE  StakedOf(rows) = StakedOf([rows EXCEPT ![p] = rec]) + rows[p].stake
<1>1. PICK next, open : next = [rows EXCEPT ![p] = rec] /\ open = OpenOf(rows)
  OBVIOUS
<1>2. OpenOf(next) = open \ {p} /\ p \in open /\ open \subseteq Positions
  BY <1>1 DEF OpenOf
<1>3. IsFiniteSet(open) /\ IsFiniteSet(open \ {p})
  BY PositionsAssumption, <1>2, FS_Subset
<1>4. PICK f, g : f = [q \in Positions |-> rows[q].stake] /\ g = [q \in Positions |-> next[q].stake]
  OBVIOUS
<1>5. Numbers(f, open) /\ Numbers(f, open \ {p}) /\ Agree(f, g, open \ {p})
  BY <1>1, <1>2, <1>4 DEF Numbers, Agree, PositionRecord
<1>6. SumFunctionOnSet(f, open \ {p}) = SumFunctionOnSet(g, open \ {p})
  BY <1>3, <1>5, SumOfSame
<1>7. SumFunctionOnSet(f, open) = f[p] + SumFunctionOnSet(f, open \ {p})
  BY <1>2, <1>3, <1>5, SumTakes
<1>8. f[p] = rows[p].stake /\ f[p] \in Int /\ SumFunctionOnSet(f, open \ {p}) \in Int
  BY <1>3, <1>4, <1>5, SumInt DEF PositionRecord
<1>9. StakedOf(rows) = SumFunctionOnSet(f, open)
  BY <1>1, <1>4 DEF StakedOf
<1>10. StakedOf(next) = SumFunctionOnSet(g, open \ {p})
  BY <1>2, <1>4 DEF StakedOf
<1>11. QED
  BY <1>1, <1>6, <1>7, <1>8, <1>9, <1>10

----------------------------------------------------------------------------
(* The calls of open, by how far they are, and their rows. *)
Ordered(c, rec) ==
  /\ c.pc \in {"begin", "read"} => c.stake # 0
  /\ c.pc = "read" => c.stake + SpreadFee(c.stake) <= c.real + c.bonus
  /\ c.pc # "opened" => rec.status = "NONE"
  /\ IF rec.status = "NONE" THEN rec = NoPosition
                            ELSE rec.stake # 0 /\ rec.fromBonus <= rec.stake
  /\ rec.status = "OPEN" => rec.pnl = 0

(* A closer is about to write a result that the position can have. *)
Closes(x) ==
  x # Idle =>
    /\ position[x.position].status # "NONE"
    /\ x.pnl \in ProfitRange(position[x.position].stake)

Solvent == account.real >= 0 /\ account.bonus >= 0

DeskIInv ==
  /\ DeskTypeOK /\ Solvent
  /\ \A p \in Positions : Ordered(ordering[p], position[p])
  /\ \A c \in Closers : Closes(closing[c])

LEMMA FeeIsNat == ASSUME NEW stake \in Nat PROVE SpreadFee(stake) \in Nat
<1>1. PICK a \in Nat : a = stake * SpreadBps * 100
  BY HouseAssumption
<1>2. RoundDiv(a, 10000) \in Nat
  BY DEF RoundDiv
<1>3. QED
  BY HouseAssumption, <1>1, <1>2 DEF SpreadFee, Least

(* The share of the bonus is a part of the return. *)
LEMMA ShareOfReturn ==
  ASSUME NEW net \in Nat \ {0}, NEW stake \in Nat \ {0}, NEW fromBonus \in 0..stake
  PROVE  RoundDiv(net * fromBonus, stake) \in 0..net
<1>1. PICK x \in Nat : x = net * fromBonus /\ x <= net * stake
  OBVIOUS
<1>2. PICK b \in Nat \ {0} : b = 2 * stake
  OBVIOUS
<1>3. PICK q : q = (2 * x + stake) \div b
  OBVIOUS
<1>4. q \in Nat /\ b * q <= 2 * x + stake
  BY <1>2, <1>3
<1>5. b * q < b * (net + 1)
  BY <1>1, <1>2, <1>4
<1>6. q < net + 1
  BY <1>2, <1>4, <1>5
<1>7. RoundDiv(net * fromBonus, stake) = q
  BY <1>1, <1>2, <1>3 DEF RoundDiv
<1>8. QED
  BY <1>4, <1>6, <1>7

LEMMA InitDesk == DeskInit => DeskIInv
<1>1. SUFFICES ASSUME DeskInit PROVE DeskIInv
  OBVIOUS
<1>2. NoPosition \in PositionRecord /\ NotCalled \in OrderingRecord
  BY DEF NoPosition, NotCalled, PositionRecord, OrderingRecord, Side
<1>3. DeskTypeOK
  BY OpeningAssumption, HouseAssumption, <1>1, <1>2, CurrencyAssumption
     DEF DeskInit, AccountInit, CfdInit, DeskTypeOK, AccountRecord, UserStatus, NoPosition
<1>4. QED
  BY OpeningAssumption, <1>1, <1>2, <1>3
     DEF DeskInit, AccountInit, CfdInit, DeskIInv, Solvent, Ordered, Closes, NoPosition, NotCalled

----------------------------------------------------------------------------
LEMMA OrderMoves ==
  ASSUME DeskIInv, NEW p \in Positions, NEW c \in OrderingRecord, Ordered(c, position[p]),
         ordering' = [ordering EXCEPT ![p] = c],
         UNCHANGED <<account, ledger, userStatus, position, closing, treasury>>
  PROVE  DeskIInv'
<1>1. DeskTypeOK'
  BY DEF DeskIInv, DeskTypeOK
<1>2. \A q \in Positions : Ordered(ordering'[q], position'[q])
  <2>1. TAKE q \in Positions
  <2>2. CASE q = p
    BY <2>2 DEF DeskIInv, DeskTypeOK
  <2>3. CASE q # p
    BY <2>3 DEF DeskIInv, DeskTypeOK
  <2>4. QED
    BY <2>2, <2>3
<1>3. \A d \in Closers : Closes(closing[d])'
  BY DEF DeskIInv, Closes
<1>4. QED
  BY <1>1, <1>2, <1>3 DEF DeskIInv, Solvent

LEMMA OpenPositionKeeps ==
  ASSUME DeskIInv, NEW p \in Positions, NEW side \in Side, NEW stake \in PositionStakes,
         OpenPosition(p, side, stake)
  PROVE  DeskIInv'
<1>1. PICK pc \in {"begin", "refused"} :
        ordering' = [ordering EXCEPT ![p] =
          [pc |-> pc, side |-> side, stake |-> stake, real |-> 0, bonus |-> 0]]
  BY DEF OpenPosition
<1>2. PICK c : c = [pc |-> pc, side |-> side, stake |-> stake, real |-> 0, bonus |-> 0]
  OBVIOUS
<1>3. c \in OrderingRecord
  BY PositionStakesAssumption, <1>2 DEF OrderingRecord
<1>4. Ordered(ordering[p], position[p]) /\ ordering[p].pc = "idle"
  BY DEF DeskIInv, OpenPosition
<1>5. Ordered(c, position[p])
  BY PositionStakesAssumption, <1>2, <1>4 DEF Ordered
<1>6. QED
  BY <1>1, <1>2, <1>3, <1>5, OrderMoves DEF OpenPosition

LEMMA ReadBalancesKeeps ==
  ASSUME DeskIInv, NEW p \in Positions, ReadBalances(p)
  PROVE  DeskIInv'
<1>1. PICK o : o = ordering[p] /\ o \in OrderingRecord /\ o.pc = "begin" /\ Ordered(o, position[p])
  BY DEF DeskIInv, DeskTypeOK, ReadBalances
<1>2. PICK c : /\ ordering' = [ordering EXCEPT ![p] = c]
               /\ c = IF Balance(account) < o.stake + SpreadFee(o.stake)
                      THEN [o EXCEPT !.pc = "refused"]
                      ELSE [o EXCEPT !.pc = "read", !.real = account.real, !.bonus = account.bonus]
  BY <1>1 DEF ReadBalances, DeskIInv, DeskTypeOK
<1>3. account \in AccountRecord
  BY DEF DeskIInv, DeskTypeOK
<1>4. c \in OrderingRecord
  BY <1>1, <1>2, <1>3 DEF OrderingRecord, AccountRecord
<1>5. Ordered(c, position[p])
  <2>1. CASE Balance(account) < o.stake + SpreadFee(o.stake)
    BY <1>1, <1>2, <2>1 DEF Ordered, OrderingRecord
  <2>2. CASE ~(Balance(account) < o.stake + SpreadFee(o.stake))
    <3>1. c = [o EXCEPT !.pc = "read", !.real = account.real, !.bonus = account.bonus]
      BY <1>2, <2>2
    <3>2. PICK fee \in Nat : fee = SpreadFee(o.stake)
      BY <1>1, FeeIsNat DEF OrderingRecord
    <3>3. c.pc = "read" /\ c.stake = o.stake /\ c.real = account.real /\ c.bonus = account.bonus
      BY <1>1, <3>1 DEF OrderingRecord
    <3>4. o.stake + fee <= account.real + account.bonus
      BY <1>1, <1>3, <2>2, <3>2 DEF OrderingRecord, AccountRecord, Balance
    <3>5. QED
      BY <1>1, <3>2, <3>3, <3>4 DEF Ordered
  <2>3. QED
    BY <2>1, <2>2
<1>6. QED
  BY <1>2, <1>4, <1>5, OrderMoves DEF ReadBalances

LEMMA DebitRefusedKeeps ==
  ASSUME DeskIInv, NEW p \in Positions, DebitRefused(p)
  PROVE  DeskIInv'
<1>1. PICK o : o = ordering[p] /\ o \in OrderingRecord /\ o.pc = "read" /\ Ordered(o, position[p])
  BY DEF DeskIInv, DeskTypeOK, DebitRefused
<1>2. PICK c : ordering' = [ordering EXCEPT ![p] = c] /\ c = [o EXCEPT !.pc = "refused"]
  BY <1>1 DEF DebitRefused, DeskIInv, DeskTypeOK
<1>3. c \in OrderingRecord /\ Ordered(c, position[p])
  BY <1>1, <1>2 DEF OrderingRecord, Ordered
<1>4. QED
  BY <1>2, <1>3, OrderMoves DEF DebitRefused

LEMMA Increments ==
  ASSUME NEW a \in AccountRecord, NEW r \in Int, NEW b \in Int
  PROVE  /\ Incremented(a, r, b) \in AccountRecord
         /\ Incremented(a, r, b).real = a.real + r
         /\ Incremented(a, r, b).bonus = a.bonus + b
BY DEF Incremented, AccountRecord

(* What a debit writes: the position takes its stake out of the balance,    *)
(* and the house takes the fee.                                             *)
LEMMA DebitWrites ==
  ASSUME DeskIInv, NEW p \in Positions, DebitPosition(p)
  PROVE  \E rec \in PositionRecord :
           /\ position' = [position EXCEPT ![p] = rec]
           /\ rec.status = "OPEN" /\ rec.stake # 0 /\ rec.fromBonus <= rec.stake /\ rec.pnl = 0
           /\ position[p] = NoPosition
           /\ account' \in AccountRecord /\ Solvent'
           /\ Balance(account') + rec.stake + rec.fee = Balance(account)
           /\ treasury' = treasury + rec.fee
           /\ ledger' \in Seq([kind: RowKind, amount: Int, after: Int, ref: Positions])
<1>1. PICK o : o = ordering[p] /\ o \in OrderingRecord /\ o.pc = "read" /\ Ordered(o, position[p])
  BY DEF DeskIInv, DeskTypeOK, DebitPosition
<1>2. PICK fee \in Nat : fee = SpreadFee(o.stake)
  BY <1>1, FeeIsNat DEF OrderingRecord
<1>3. /\ o.stake \in Nat \ {0} /\ o.real \in Int /\ o.bonus \in Int
      /\ o.stake + fee <= o.real + o.bonus /\ position[p] = NoPosition
  BY <1>1, <1>2 DEF Ordered, OrderingRecord
<1>4. /\ account \in AccountRecord /\ account.real = o.real /\ account.bonus = o.bonus
      /\ o.real >= 0 /\ o.bonus >= 0
  BY <1>1 DEF DebitPosition, BalancesAsRead, DeskIInv, DeskTypeOK, Solvent
<1>5. PICK fromBonus \in Nat : fromBonus = Least(o.bonus, o.stake)
  BY <1>3, <1>4 DEF Least
<1>6. fromBonus <= o.stake /\ fromBonus <= o.bonus
  BY <1>3, <1>4, <1>5 DEF Least
<1>7. PICK feeFromBonus \in Nat : feeFromBonus = Least(o.bonus - fromBonus, fee)
  BY <1>2, <1>3, <1>4, <1>6 DEF Least
<1>8. /\ feeFromBonus <= fee /\ feeFromBonus + fromBonus <= o.bonus
      /\ o.stake - fromBonus + fee - feeFromBonus <= o.real
  <2>1. PICK real \in Int, bonus \in Int, stake \in Int :
          real = o.real /\ bonus = o.bonus /\ stake = o.stake
    BY <1>3
  <2>2. /\ real >= 0 /\ bonus >= 0 /\ stake + fee <= real + bonus
        /\ fromBonus = IF bonus < stake THEN bonus ELSE stake
        /\ feeFromBonus = IF bonus - fromBonus < fee THEN bonus - fromBonus ELSE fee
    BY <1>3, <1>4, <1>5, <1>7, <2>1 DEF Least
  <2>3. /\ feeFromBonus <= fee /\ feeFromBonus + fromBonus <= bonus
        /\ stake - fromBonus + fee - feeFromBonus <= real
    <3>0. /\ fee \in Nat /\ fromBonus \in Nat /\ feeFromBonus \in Nat
         /\ real \in Int /\ bonus \in Int /\ stake \in Int
      BY <1>2, <1>5, <1>7, <2>1
    <3>1. CASE bonus < stake
      BY ONLY <3>0, <2>2, <3>1
    <3>2. CASE ~(bonus < stake) /\ bonus - fromBonus < fee
      BY ONLY <3>0, <2>2, <3>2
    <3>3. CASE ~(bonus < stake) /\ ~(bonus - fromBonus < fee)
      BY ONLY <3>0, <2>2, <3>3
    <3>4. QED
      BY <3>1, <3>2, <3>3
  <2>4. QED
    BY <2>1, <2>3
<1>9. PICK fromReal \in Int : fromReal = o.stake - fromBonus + fee - feeFromBonus
  BY <1>2, <1>3
<1>10. PICK rec : rec = [status |-> "OPEN", side |-> o.side, stake |-> o.stake, fee |-> fee,
                         fromBonus |-> fromBonus, pnl |-> 0]
  OBVIOUS
<1>11. /\ account' = Incremented(account, -fromReal, -(fromBonus + feeFromBonus))
       /\ position' = [position EXCEPT ![p] = rec]
       /\ treasury' = treasury + fee
       /\ ledger' = ledger \o
            <<Row("TRADE_STAKE", -o.stake, (o.real + o.bonus) - o.stake, p),
              Row("TRADE_FEE", -fee, (o.real + o.bonus) - o.stake - fee, p)>>
  BY <1>1, <1>2, <1>5, <1>7, <1>9, <1>10 DEF DebitPosition
<1>12. rec \in PositionRecord
  BY <1>1, <1>2, <1>5, <1>10 DEF PositionRecord, OrderingRecord
<1>13. /\ account' \in AccountRecord
       /\ account'.real = o.real - fromReal
       /\ account'.bonus = o.bonus - (fromBonus + feeFromBonus)
  <2>1. PICK r \in Int, b \in Int : r = -fromReal /\ b = -(fromBonus + feeFromBonus)
    BY <1>5, <1>7, <1>9
  <2>2. account' = Incremented(account, r, b)
    BY <1>11, <2>1
  <2>3. /\ account' \in AccountRecord
        /\ account'.real = account.real + r /\ account'.bonus = account.bonus + b
    BY <1>4, <2>2, Increments
  <2>4. QED
    BY <1>3, <1>4, <1>5, <1>7, <1>9, <2>1, <2>3
<1>14. Solvent' /\ Balance(account') + o.stake + fee = Balance(account)
  <2>1. PICK r, b : r = account'.real /\ b = account'.bonus
    OBVIOUS
  <2>2. /\ r = o.real - fromReal /\ b = o.bonus - (fromBonus + feeFromBonus)
        /\ r >= 0 /\ b >= 0 /\ r + b + o.stake + fee = o.real + o.bonus
    BY <1>2, <1>3, <1>4, <1>5, <1>7, <1>8, <1>9, <1>13, <2>1
  <2>3. QED
    BY <1>4, <2>1, <2>2 DEF Solvent, Balance
<1>15. ledger' \in Seq([kind: RowKind, amount: Int, after: Int, ref: Positions])
  <2>1. ledger \in Seq([kind: RowKind, amount: Int, after: Int, ref: Positions])
    BY DEF DeskIInv, DeskTypeOK
  <2>2. ASSUME NEW kind \in RowKind, NEW amount \in Int, NEW after \in Int
        PROVE  Row(kind, amount, after, p) \in
                 [kind: RowKind, amount: Int, after: Int, ref: Positions]
    BY DEF Row
  <2>3. PICK x \in Int, y \in Int, u \in Int, v \in Int :
          /\ x = -o.stake /\ y = -fee
          /\ u = (o.real + o.bonus) - o.stake /\ v = (o.real + o.bonus) - o.stake - fee
    BY <1>2, <1>3
  <2>4. QED
    <3>1. PICK R : R = [kind: RowKind, amount: Int, after: Int, ref: Positions]
      OBVIOUS
    <3>2. PICK a, b : a = Row("TRADE_STAKE", x, u, p) /\ b = Row("TRADE_FEE", y, v, p)
      OBVIOUS
    <3>3. /\ a \in R /\ b \in R /\ ledger \in Seq(R)
          /\ ledger' = ledger \o <<a, b>>
      BY <1>11, <2>1, <2>2, <2>3, <3>1, <3>2 DEF RowKind
    <3>4. <<a, b>> \in Seq(R)
      BY <3>3
    <3>5. ledger \o <<a, b>> \in Seq(R)
      BY <3>3, <3>4, ConcatProperties
    <3>6. QED
      BY <3>1, <3>3, <3>5
<1>16. /\ rec.status = "OPEN" /\ rec.stake = o.stake /\ rec.fee = fee
       /\ rec.fromBonus = fromBonus /\ rec.pnl = 0
  BY <1>10
<1>17. QED
  BY <1>3, <1>6, <1>11, <1>12, <1>13, <1>14, <1>15, <1>16

LEMMA DebitPositionKeeps ==
  ASSUME DeskIInv, NEW p \in Positions, DebitPosition(p)
  PROVE  DeskIInv'
<1>1. PICK rec \in PositionRecord :
        /\ position' = [position EXCEPT ![p] = rec]
        /\ rec.status = "OPEN" /\ rec.stake # 0 /\ rec.fromBonus <= rec.stake /\ rec.pnl = 0
        /\ position[p] = NoPosition
        /\ account' \in AccountRecord /\ Solvent'
        /\ treasury' = treasury + rec.fee
        /\ ledger' \in Seq([kind: RowKind, amount: Int, after: Int, ref: Positions])
  BY DebitWrites
<1>2. PICK o : o = ordering[p] /\ o \in OrderingRecord /\ o.pc = "read"
  BY DEF DeskIInv, DeskTypeOK, DebitPosition
<1>3. PICK c : c = [o EXCEPT !.pc = "opened"] /\ ordering' = [ordering EXCEPT ![p] = c]
  BY <1>2 DEF DebitPosition, DeskIInv, DeskTypeOK
<1>4. c \in OrderingRecord /\ c.pc = "opened"
  BY <1>2, <1>3 DEF OrderingRecord
<1>5. UNCHANGED <<userStatus, closing>>
  BY DEF DebitPosition
<1>6. /\ position \in [Positions -> PositionRecord] /\ position' \in [Positions -> PositionRecord]
      /\ position'[p] = rec
      /\ \A q \in Positions : q # p => position'[q] = position[q]
  BY <1>1 DEF DeskIInv, DeskTypeOK
<1>7. treasury' \in Int
  BY <1>1 DEF DeskIInv, DeskTypeOK, PositionRecord
<1>8. DeskTypeOK'
  BY <1>1, <1>3, <1>4, <1>5, <1>6, <1>7 DEF DeskIInv, DeskTypeOK
<1>9. \A q \in Positions : Ordered(ordering'[q], position'[q])
  <2>1. Ordered(c, rec)
    BY <1>1, <1>4 DEF Ordered
  <2>2. TAKE q \in Positions
  <2>3. CASE q = p
    BY <1>3, <1>6, <2>1, <2>3 DEF DeskIInv, DeskTypeOK
  <2>4. CASE q # p
    BY <1>3, <1>6, <2>4 DEF DeskIInv, DeskTypeOK
  <2>5. QED
    BY <2>3, <2>4
<1>10. \A d \in Closers : Closes(closing[d])'
  <2>1. TAKE d \in Closers
  <2>2. PICK x : x = closing[d] /\ closing'[d] = x /\ Closes(x)
    BY <1>5 DEF DeskIInv
  <2>3. x # Idle => x.position \in Positions /\ x.position # p
    BY <1>1, <2>2 DEF Closes, NoPosition, DeskIInv, DeskTypeOK
  <2>4. QED
    BY <1>6, <2>2, <2>3 DEF Closes
<1>11. QED
  BY <1>1, <1>8, <1>9, <1>10 DEF DeskIInv

(* What a close writes: stake and result go to the balance, which does not  *)
(* fall, and the house books the other side.                                *)
LEMMA CloseWrites ==
  ASSUME DeskIInv, NEW c \in Closers, ClosePosition(c)
  PROVE  \E p \in Positions, rec \in PositionRecord :
           /\ p = closing[c].position /\ closing[c] # Idle
           /\ position' = [position EXCEPT ![p] = rec]
           /\ rec.status = "CLOSED" /\ position[p].status # "NONE"
           /\ rec.stake = position[p].stake /\ rec.stake # 0
           /\ rec.fee = position[p].fee /\ rec.fromBonus <= rec.stake
           /\ account' \in AccountRecord /\ Solvent'
           /\ account'.real >= account.real /\ account'.bonus >= account.bonus
           /\ Balance(account') = Balance(account) + (rec.stake + rec.pnl)
           /\ treasury' = treasury - rec.pnl
<1>1. PICK x : x = closing[c] /\ x # Idle /\ Closes(x)
               /\ x \in [pc: {"loaded"}, position: Positions, pnl: Int]
  BY DEF DeskIInv, DeskTypeOK, ClosePosition
<1>2. PICK p \in Positions, pnl \in Int : p = x.position /\ pnl = x.pnl
  BY <1>1
<1>3. PICK old \in PositionRecord : old = position[p]
  BY DEF DeskIInv, DeskTypeOK
<1>4. /\ old.status # "NONE" /\ pnl \in ProfitRange(old.stake) /\ Ordered(ordering[p], old)
  BY <1>1, <1>2, <1>3 DEF Closes, DeskIInv
<1>5. PICK stake \in Nat \ {0}, fromBonus \in Nat :
        stake = old.stake /\ fromBonus = old.fromBonus /\ fromBonus \in 0..stake
  BY <1>3, <1>4 DEF Ordered, PositionRecord
<1>6. PICK rec : rec = [old EXCEPT !.status = "CLOSED", !.pnl = pnl]
  OBVIOUS
<1>7. /\ rec \in PositionRecord /\ rec.status = "CLOSED" /\ rec.pnl = pnl
      /\ rec.stake = old.stake /\ rec.fee = old.fee /\ rec.fromBonus = old.fromBonus
      /\ position' = [position EXCEPT ![p] = rec]
  <2>1. position' = [position EXCEPT ![p] = rec]
    BY <1>1, <1>2, <1>3, <1>6 DEF ClosePosition, DeskIInv, DeskTypeOK
  <2>2. /\ rec \in PositionRecord /\ rec.status = "CLOSED" /\ rec.pnl = pnl
        /\ rec.stake = old.stake /\ rec.fee = old.fee /\ rec.fromBonus = old.fromBonus
    BY <1>2, <1>3, <1>6 DEF PositionRecord
  <2>3. QED
    BY <2>1, <2>2
<1>8. PICK net \in Nat : net = stake + pnl
  BY <1>4, <1>5 DEF ProfitRange
<1>9. PICK share : share = RoundDiv(net * fromBonus, stake)
  OBVIOUS
<1>10. account' = IF net > 0 THEN Incremented(account, net - share, share) ELSE account
  BY <1>1, <1>2, <1>3, <1>5, <1>8, <1>9 DEF ClosePosition, NetReturn, BonusReturn
<1>11. account \in AccountRecord /\ Solvent
  BY DEF DeskIInv, DeskTypeOK
<1>12. /\ account' \in AccountRecord
       /\ account'.real >= account.real /\ account'.bonus >= account.bonus
       /\ Balance(account') = Balance(account) + net
  <2>1. CASE net = 0
    BY <1>10, <1>11, <2>1 DEF AccountRecord, Balance
  <2>2. CASE net # 0
    <3>1. share \in 0..net
      BY <1>5, <1>9, <2>2, ShareOfReturn
    <3>2. PICK toReal \in Nat : toReal = net - share
      BY <3>1
    <3>3. /\ account' \in AccountRecord
          /\ account'.real = account.real + toReal /\ account'.bonus = account.bonus + share
      BY <1>10, <1>11, <2>2, <3>1, <3>2, Increments
    <3>4. PICK r \in Int, b \in Int : r = account.real /\ b = account.bonus
      BY <1>11 DEF AccountRecord
    <3>5. /\ r + toReal >= r /\ b + share >= b
          /\ (r + toReal) + (b + share) = (r + b) + net
      BY <3>1, <3>2
    <3>6. QED
      BY <3>3, <3>4, <3>5 DEF Balance
  <2>3. QED
    BY <2>1, <2>2
<1>13. Solvent'
  <2>1. PICK r \in Int, b \in Int, s \in Int, d \in Int :
          r = account.real /\ b = account.bonus /\ s = account'.real /\ d = account'.bonus
    BY <1>11, <1>12 DEF AccountRecord
  <2>2. s >= r /\ d >= b /\ r >= 0 /\ b >= 0
    BY <1>11, <1>12, <2>1 DEF Solvent
  <2>3. s >= 0 /\ d >= 0
    BY <2>1, <2>2
  <2>4. QED
    BY <2>1, <2>3 DEF Solvent
<1>14. treasury' = treasury - pnl
  <2>1. treasury' = treasury + (-pnl)
    BY <1>1, <1>2 DEF ClosePosition, HouseGain
  <2>2. QED
    BY <2>1 DEF DeskIInv, DeskTypeOK
<1>15. p = closing[c].position /\ closing[c] # Idle
  BY <1>1, <1>2
<1>16. /\ position[p].status # "NONE" /\ rec.stake = position[p].stake /\ rec.stake # 0
       /\ rec.fee = position[p].fee /\ rec.fromBonus <= rec.stake
  BY <1>3, <1>4, <1>5, <1>7
<1>17. net = rec.stake + rec.pnl
  BY <1>5, <1>7, <1>8
<1>18. QED
  BY <1>7, <1>12, <1>13, <1>14, <1>15, <1>16, <1>17

LEMMA CloserRests ==
  ASSUME DeskIInv, NEW c \in Closers, closing' = [closing EXCEPT ![c] = Idle]
  PROVE  /\ closing' \in [Closers ->
                {Idle} \cup [pc: {"loaded"}, position: Positions, pnl: Int]]
         /\ \A d \in Closers : closing'[d] # Idle => d # c /\ closing'[d] = closing[d]
BY DEF DeskIInv, DeskTypeOK

LEMMA ClosePositionKeeps ==
  ASSUME DeskIInv, NEW c \in Closers, ClosePosition(c)
  PROVE  DeskIInv'
<1>1. PICK p \in Positions, rec \in PositionRecord :
        /\ p = closing[c].position /\ closing[c] # Idle
        /\ position' = [position EXCEPT ![p] = rec]
        /\ rec.status = "CLOSED" /\ position[p].status # "NONE"
        /\ rec.stake = position[p].stake /\ rec.stake # 0
        /\ rec.fee = position[p].fee /\ rec.fromBonus <= rec.stake
        /\ account' \in AccountRecord /\ Solvent'
        /\ treasury' = treasury - rec.pnl
  BY CloseWrites
<1>2. UNCHANGED <<ledger, userStatus, ordering>> /\ closing' = [closing EXCEPT ![c] = Idle]
  BY DEF ClosePosition
<1>3. /\ closing' \in [Closers ->
              {Idle} \cup [pc: {"loaded"}, position: Positions, pnl: Int]]
      /\ \A d \in Closers : closing'[d] # Idle => closing'[d] = closing[d]
  BY <1>2, CloserRests
<1>4. /\ position \in [Positions -> PositionRecord] /\ position' \in [Positions -> PositionRecord]
      /\ position'[p] = rec
      /\ \A q \in Positions : q # p => position'[q] = position[q]
  BY <1>1 DEF DeskIInv, DeskTypeOK
<1>5. treasury' \in Int
  BY <1>1 DEF DeskIInv, DeskTypeOK, PositionRecord
<1>6. \A q \in Positions : position'[q].fromBonus <= position'[q].stake
  BY <1>1, <1>4 DEF DeskIInv, DeskTypeOK
<1>7. DeskTypeOK'
  BY <1>1, <1>2, <1>3, <1>4, <1>5, <1>6 DEF DeskIInv, DeskTypeOK
<1>8. \A q \in Positions : Ordered(ordering'[q], position'[q])
  <2>1. TAKE q \in Positions
  <2>2. Ordered(ordering[q], position[q]) /\ ordering'[q] = ordering[q]
    BY <1>2 DEF DeskIInv
  <2>3. CASE q = p
    BY <1>1, <1>4, <2>2, <2>3 DEF Ordered, NoPosition
  <2>4. CASE q # p
    BY <1>4, <2>2, <2>4
  <2>5. QED
    BY <2>3, <2>4
<1>9. \A d \in Closers : Closes(closing[d])'
  <2>1. SUFFICES ASSUME NEW d \in Closers, closing'[d] # Idle PROVE Closes(closing[d])'
    BY <1>3 DEF Closes
  <2>2. PICK x : x = closing[d] /\ closing'[d] = x /\ Closes(x) /\ x # Idle
    BY <1>3, <2>1 DEF DeskIInv
  <2>3. x.position \in Positions
    BY <2>2 DEF DeskIInv, DeskTypeOK
  <2>4. position'[x.position].stake = position[x.position].stake /\ position'[x.position].status # "NONE"
    BY <1>1, <1>4, <2>2, <2>3 DEF Closes
  <2>5. QED
    BY <2>2, <2>4 DEF Closes
<1>10. QED
  BY <1>1, <1>7, <1>8, <1>9 DEF DeskIInv

LEMMA CloserMoves ==
  ASSUME DeskIInv, UNCHANGED <<account, ledger, userStatus, ordering, position, treasury>>,
         closing' \in [Closers -> {Idle} \cup [pc: {"loaded"}, position: Positions, pnl: Int]],
         \A c \in Closers : Closes(closing'[c])
  PROVE  DeskIInv'
<1>1. DeskTypeOK' /\ Solvent'
  BY DEF DeskIInv, DeskTypeOK, Solvent
<1>2. \A c \in Closers : Closes(closing[c])'
  BY DEF Closes
<1>3. QED
  BY <1>1, <1>2 DEF DeskIInv

LEMMA LoadPositionKeeps ==
  ASSUME DeskIInv, NEW c \in Closers, NEW p \in Positions,
         NEW pnl \in ProfitRange(position[p].stake), LoadPosition(c, p, pnl)
  PROVE  DeskIInv'
<1>1. PICK x : x = [pc |-> "loaded", position |-> p, pnl |-> pnl]
  OBVIOUS
<1>2. pnl \in Int
  BY DEF ProfitRange, MaxProfitMultiplier, DeskIInv, DeskTypeOK, PositionRecord
<1>3. x \in [pc: {"loaded"}, position: Positions, pnl: Int] /\ Closes(x)
  BY <1>1, <1>2 DEF Closes, LoadPosition, IsOpen
<1>4. closing' = [closing EXCEPT ![c] = x]
  BY <1>1 DEF LoadPosition
<1>5. closing' \in [Closers -> {Idle} \cup [pc: {"loaded"}, position: Positions, pnl: Int]]
  BY <1>3, <1>4 DEF DeskIInv, DeskTypeOK
<1>6. \A d \in Closers : closing'[d] = x \/ closing'[d] = closing[d]
  BY <1>4 DEF DeskIInv, DeskTypeOK
<1>7. \A d \in Closers : Closes(closing'[d])
  <2>1. TAKE d \in Closers
  <2>2. Closes(closing[d])
    BY DEF DeskIInv
  <2>3. QED
    BY <1>3, <1>6, <2>2
<1>8. QED
  BY <1>5, <1>7, CloserMoves DEF LoadPosition

LEMMA CloseFailsKeeps ==
  ASSUME DeskIInv, NEW c \in Closers, CloseFails(c)
  PROVE  DeskIInv'
<1>1. /\ closing' \in [Closers ->
              {Idle} \cup [pc: {"loaded"}, position: Positions, pnl: Int]]
      /\ \A d \in Closers : closing'[d] # Idle => closing'[d] = closing[d]
  BY CloserRests DEF CloseFails
<1>2. \A d \in Closers : Closes(closing'[d])
  <2>1. TAKE d \in Closers
  <2>2. Closes(closing[d])
    BY DEF DeskIInv
  <2>3. CASE closing'[d] = Idle
    BY <2>3 DEF Closes
  <2>4. CASE closing'[d] # Idle
    BY <1>1, <2>2, <2>4
  <2>5. QED
    BY <2>3, <2>4
<1>3. QED
  BY <1>1, <1>2, CloserMoves DEF CloseFails

LEMMA DeskSame ==
  ASSUME DeskIInv, UNCHANGED deskVars
  PROVE  DeskIInv'
BY DEF deskVars, DeskIInv, DeskTypeOK, Solvent, Closes

LEMMA NextDeskIInv == DeskIInv /\ [CfdNext]_deskVars => DeskIInv'
<1>1. SUFFICES ASSUME DeskIInv, [CfdNext]_deskVars PROVE DeskIInv'
  OBVIOUS
<1>2. ASSUME NEW p \in Positions, OpenStep(p) PROVE DeskIInv'
  BY <1>1, <1>2, ReadBalancesKeeps, DebitPositionKeeps, DebitRefusedKeeps DEF OpenStep
<1>3. ASSUME NEW p \in Positions, NEW side \in Side, NEW stake \in PositionStakes,
             OpenPosition(p, side, stake)
      PROVE  DeskIInv'
  BY <1>1, <1>3, OpenPositionKeeps
<1>4. ASSUME NEW c \in Closers, CloseStep(c) PROVE DeskIInv'
  BY <1>1, <1>4, ClosePositionKeeps, CloseFailsKeeps DEF CloseStep
<1>5. ASSUME NEW c \in Closers, NEW p \in Positions,
             NEW pnl \in ProfitRange(position[p].stake), LoadPosition(c, p, pnl)
      PROVE  DeskIInv'
  BY <1>1, <1>5, LoadPositionKeeps
<1>6. CASE UNCHANGED deskVars
  BY <1>1, <1>6, DeskSame
<1>7. QED
  BY <1>1, <1>2, <1>3, <1>4, <1>5, <1>6 DEF CfdNext

LEMMA SpecDeskIInv == DeskSpec => []DeskIInv
  BY InitDesk, NextDeskIInv, PTL DEF DeskSpec

(* The desk alone never overdraws the account, whatever orders and closes   *)
(* run at once: the debit is guarded by the balances it was computed from   *)
(* (CfdDesk.open).  CfdWallet shows that it does not hold beside            *)
(* withdrawals, which are guarded by the version.                           *)
THEOREM DeskNeverOverdraws == DeskSpec => []NoOverdraft
<1>1. DeskIInv => NoOverdraft
  BY DEF DeskIInv, Solvent, NoOverdraft
<1>2. QED
  BY <1>1, SpecDeskIInv, PTL

(* A close never takes money from either balance, whoever closes and        *)
(* however often (CfdDesk.closePosition): no loss is larger than the stake, *)
(* and the share of the bonus is a part of the return.                      *)
THEOREM ClosesNeverDebit == DeskSpec => CloseNeverDebits
<1> DEFINE Debits == \A p \in Positions :
              position[p].status = "OPEN" /\ position'[p].status = "CLOSED" =>
                account'.real >= account.real /\ account'.bonus >= account.bonus
<1>1. ASSUME DeskIInv, [CfdNext]_deskVars PROVE [Debits]_deskVars
  <2>1. ASSUME NEW c \in Closers, ClosePosition(c) PROVE Debits
    BY <1>1, <2>1, CloseWrites
  <2>2. ASSUME UNCHANGED position PROVE Debits
    BY <2>2
  <2>3. ASSUME NEW q \in Positions, DebitPosition(q) PROVE Debits
    <3>1. PICK rec \in PositionRecord :
            position' = [position EXCEPT ![q] = rec] /\ rec.status = "OPEN"
      BY <1>1, <2>3, DebitWrites
    <3>2. \A p \in Positions : position'[p].status = "CLOSED" => position'[p] = position[p]
      BY <1>1, <3>1 DEF DeskIInv, DeskTypeOK
    <3>3. QED
      BY <3>2
  <2>4. CASE UNCHANGED deskVars
    BY <2>4
  <2>5. CASE CfdNext
    BY <2>1, <2>2, <2>3, <2>5
       DEF CfdNext, OpenStep, CloseStep, OpenPosition, ReadBalances, DebitRefused,
           LoadPosition, CloseFails
  <2>6. QED
    BY <1>1, <2>4, <2>5
<1>2. QED
  BY <1>1, SpecDeskIInv, PTL DEF DeskSpec, CloseNeverDebits

----------------------------------------------------------------------------
(* What the desk adds up to when one closer runs at a time: the position it *)
(* is about to close is still open.                                         *)
OneCloser == \A c, d \in Closers : c = d

StillOpen(x) == x # Idle => position[x.position].status = "OPEN"

Money  == Balance(account) + StakedOf(position) + treasury
HouseBooks == (treasury + ResultsOf(position)) - FeesOf(position)

LoneIInv ==
  /\ DeskIInv
  /\ \A c \in Closers : StillOpen(closing[c])
  /\ Money = OpeningBalance + InitialTreasury
  /\ HouseBooks = InitialTreasury

LEMMA InitLone == DeskInit => LoneIInv
<1>1. SUFFICES ASSUME DeskInit PROVE LoneIInv
  OBVIOUS
<1>2. position = [p \in Positions |-> NoPosition]
  BY <1>1 DEF DeskInit, CfdInit
<1>3. OpenOf(position) = {}
  BY <1>2 DEF OpenOf, NoPosition
<1>4. StakedOf(position) = 0
  BY <1>3, SumEmpty DEF StakedOf
<1>5. FeesOf(position) = 0
  <2>1. PICK f : f = [p \in Positions |-> position[p].fee]
    OBVIOUS
  <2>2. \A p \in Positions : f[p] = 0
    BY <1>2, <2>1 DEF NoPosition
  <2>3. QED
    BY PositionsAssumption, <2>1, <2>2, SumOfZeros DEF FeesOf
<1>6. ResultsOf(position) = 0
  <2>1. PICK f : f = [p \in Positions |-> position[p].pnl]
    OBVIOUS
  <2>2. \A p \in Positions : f[p] = 0
    BY <1>2, <2>1 DEF NoPosition
  <2>3. QED
    BY PositionsAssumption, <2>1, <2>2, SumOfZeros DEF ResultsOf
<1>7. treasury = InitialTreasury /\ Balance(account) = OpeningBalance /\ OpeningBalance \in Int
  BY OpeningAssumption, HouseAssumption, <1>1 DEF DeskInit, CfdInit, AccountInit, Balance, OpeningBalance
<1>8. \A c \in Closers : StillOpen(closing[c])
  BY <1>1 DEF DeskInit, CfdInit, StillOpen
<1>9. Money = OpeningBalance + InitialTreasury /\ HouseBooks = InitialTreasury
  BY OpeningAssumption, HouseAssumption, <1>4, <1>5, <1>6, <1>7 DEF Money, HouseBooks
<1>10. QED
  BY <1>1, <1>8, <1>9, InitDesk DEF LoneIInv

LEMMA SumsAreInts ==
  ASSUME DeskIInv
  PROVE  /\ Balance(account) \in Int /\ treasury \in Int /\ StakedOf(position) \in Int
         /\ FeesOf(position) \in Int /\ ResultsOf(position) \in Int
<1>1. position \in [Positions -> PositionRecord]
  BY DEF DeskIInv, DeskTypeOK
<1>2. StakedOf(position) \in Int /\ FeesOf(position) \in Int /\ ResultsOf(position) \in Int
  BY <1>1, PositionSums
<1>3. QED
  BY <1>2 DEF DeskIInv, DeskTypeOK, AccountRecord, Balance

LEMMA DebitIsEven ==
  ASSUME DeskIInv, NEW p \in Positions, DebitPosition(p)
  PROVE  Money' = Money /\ HouseBooks' = HouseBooks
<1>1. PICK rec \in PositionRecord :
        /\ position' = [position EXCEPT ![p] = rec]
        /\ rec.status = "OPEN" /\ rec.stake # 0 /\ rec.fromBonus <= rec.stake /\ rec.pnl = 0
        /\ position[p] = NoPosition
        /\ account' \in AccountRecord /\ Solvent'
        /\ Balance(account') + rec.stake + rec.fee = Balance(account)
        /\ treasury' = treasury + rec.fee
        /\ ledger' \in Seq([kind: RowKind, amount: Int, after: Int, ref: Positions])
  BY DebitWrites
<1>2. PICK rows : rows = position /\ rows \in [Positions -> PositionRecord]
                  /\ rows[p].status # "OPEN" /\ rows[p].pnl = 0 /\ rows[p].fee = 0
  BY <1>1 DEF DeskIInv, DeskTypeOK, NoPosition
<1>3. /\ StakedOf([rows EXCEPT ![p] = rec]) = StakedOf(rows) + rec.stake
      /\ FeesOf([rows EXCEPT ![p] = rec]) = FeesOf(rows) + (rec.fee - rows[p].fee)
      /\ ResultsOf([rows EXCEPT ![p] = rec]) = ResultsOf(rows) + (rec.pnl - rows[p].pnl)
  BY ONLY <1>1, <1>2, StakeOpens, FeesMove
<1>4. PICK b \in Int, t \in Int, s \in Int, f \in Int, r \in Int :
        /\ b = Balance(account) /\ t = treasury
        /\ s = StakedOf(rows) /\ f = FeesOf(rows) /\ r = ResultsOf(rows)
  BY <1>2, SumsAreInts
<1>5. PICK stake \in Int, fee \in Int : stake = rec.stake /\ fee = rec.fee
  BY DEF PositionRecord
<1>6. /\ Balance(account)' = (b - stake) - fee /\ treasury' = t + fee
      /\ StakedOf(position)' = s + stake /\ FeesOf(position)' = f + fee
      /\ ResultsOf(position)' = r
  <2>1. Balance(account') \in Int
    BY <1>1 DEF AccountRecord, Balance
  <2>2. PICK n \in Int : n = Balance(account') /\ n + stake + fee = b
    BY <1>1, <1>4, <1>5, <2>1
  <2>3. n = (b - stake) - fee
    BY <1>4, <1>5, <2>2
  <2>4. Balance(account)' = (b - stake) - fee
    BY ONLY <2>2, <2>3
  <2>5. /\ StakedOf(position)' = s + stake
        /\ FeesOf(position)' = FeesOf(rows) + (rec.fee - rows[p].fee)
        /\ ResultsOf(position)' = ResultsOf(rows) + (rec.pnl - rows[p].pnl)
    BY <1>1, <1>2, <1>3, <1>4, <1>5
  <2>6. FeesOf(position)' = f + fee /\ ResultsOf(position)' = r
    BY <1>1, <1>2, <1>4, <1>5, <2>5
  <2>7. treasury' = t + fee
    BY <1>1, <1>4, <1>5
  <2>8. QED
    BY <2>4, <2>5, <2>6, <2>7
<1>7. QED
  BY <1>2, <1>4, <1>5, <1>6 DEF Money, HouseBooks

LEMMA CloseIsEven ==
  ASSUME DeskIInv, NEW c \in Closers, ClosePosition(c), StillOpen(closing[c])
  PROVE  Money' = Money /\ HouseBooks' = HouseBooks
<1>1. PICK p \in Positions, rec \in PositionRecord :
        /\ p = closing[c].position /\ closing[c] # Idle
        /\ position' = [position EXCEPT ![p] = rec]
        /\ rec.status = "CLOSED" /\ rec.stake = position[p].stake /\ rec.fee = position[p].fee
        /\ account' \in AccountRecord
        /\ Balance(account') = Balance(account) + (rec.stake + rec.pnl)
        /\ treasury' = treasury - rec.pnl
  BY CloseWrites
<1>2. Ordered(ordering[p], position[p]) /\ position[p].status = "OPEN"
  BY <1>1 DEF DeskIInv, StillOpen
<1>3. PICK rows : rows = position /\ rows \in [Positions -> PositionRecord]
                  /\ rows[p].status = "OPEN" /\ rows[p].pnl = 0
                  /\ rows[p].stake = rec.stake /\ rows[p].fee = rec.fee
  BY <1>1, <1>2 DEF DeskIInv, DeskTypeOK, Ordered
<1>4. rec.status # "OPEN"
  BY <1>1
<1>5. /\ StakedOf(rows) = StakedOf([rows EXCEPT ![p] = rec]) + rows[p].stake
      /\ FeesOf([rows EXCEPT ![p] = rec]) = FeesOf(rows) + (rec.fee - rows[p].fee)
      /\ ResultsOf([rows EXCEPT ![p] = rec]) = ResultsOf(rows) + (rec.pnl - rows[p].pnl)
  BY ONLY <1>1, <1>3, <1>4, StakeReturns, FeesMove
<1>6. PICK b \in Int, t \in Int, s \in Int, f \in Int, r \in Int :
        /\ b = Balance(account) /\ t = treasury
        /\ s = StakedOf(rows) /\ f = FeesOf(rows) /\ r = ResultsOf(rows)
  BY <1>3, SumsAreInts
<1>7. PICK stake \in Int, pnl \in Int, fee \in Int :
        stake = rec.stake /\ pnl = rec.pnl /\ fee = rec.fee
  BY DEF PositionRecord
<1>8. /\ Balance(account)' = b + (stake + pnl) /\ treasury' = t - pnl
      /\ FeesOf(position)' = f /\ ResultsOf(position)' = r + pnl
  BY <1>1, <1>3, <1>5, <1>6, <1>7
<1>9. StakedOf(position)' = s - stake
  <2>1. PICK next : next = [rows EXCEPT ![p] = rec]
    OBVIOUS
  <2>2. next \in [Positions -> PositionRecord]
    BY <1>3, <2>1
  <2>3. PICK n \in Int : n = StakedOf(next)
    BY <2>2, PositionSums
  <2>4. s = n + stake
    <3>1. StakedOf(rows) = StakedOf(next) + rows[p].stake
      BY <1>5, <2>1
    <3>2. QED
      BY <1>3, <1>6, <1>7, <2>3, <3>1
  <2>5. StakedOf(position)' = n
    BY <1>1, <1>3, <2>1, <2>3
  <2>6. QED
    BY <2>4, <2>5
<1>10. /\ (b + (stake + pnl)) + (s - stake) + (t - pnl) = b + s + t
       /\ ((t - pnl) + (r + pnl)) - f = (t + r) - f
  BY <1>6, <1>7
<1>11. /\ Money' = (b + (stake + pnl)) + (s - stake) + (t - pnl)
       /\ HouseBooks' = ((t - pnl) + (r + pnl)) - f
  BY <1>8, <1>9 DEF Money, HouseBooks
<1>12. Money = b + s + t /\ HouseBooks = (t + r) - f
  BY <1>3, <1>6 DEF Money, HouseBooks
<1>13. QED
  BY <1>10, <1>11, <1>12

(* The loaded position stays open while the only closer is busy with it: an *)
(* order writes another rec.                                                *)
LEMMA OthersStay ==
  ASSUME DeskIInv, NEW c \in Closers, StillOpen(closing[c]), closing'[c] = closing[c],
         \/ UNCHANGED position
         \/ \E p \in Positions : DebitPosition(p)
  PROVE  StillOpen(closing[c])'
<1>1. CASE UNCHANGED position
  BY <1>1 DEF StillOpen
<1>2. ASSUME NEW p \in Positions, DebitPosition(p) PROVE StillOpen(closing[c])'
  <2>1. PICK rec : /\ position' = [position EXCEPT ![p] = rec]
                   /\ rec.status = "OPEN"
    BY <1>2, DebitWrites
  <2>2. \A q \in Positions : position[q].status = "OPEN" => position'[q].status = "OPEN"
    BY <2>1 DEF DeskIInv, DeskTypeOK
  <2>3. closing[c] # Idle => closing[c].position \in Positions
    BY DEF DeskIInv, DeskTypeOK
  <2>4. QED
    BY <2>2, <2>3 DEF StillOpen
<1>3. QED
  BY <1>1, <1>2

LEMMA NextLone ==
  OneCloser => (LoneIInv /\ [CfdNext]_deskVars => LoneIInv')
<1>1. SUFFICES ASSUME OneCloser, LoneIInv, [CfdNext]_deskVars PROVE LoneIInv'
  OBVIOUS
<1>2. DeskIInv /\ DeskIInv'
  BY <1>1, NextDeskIInv DEF LoneIInv
<1>3. CASE UNCHANGED <<account, position, treasury>>
  <2>1. Money' = Money /\ HouseBooks' = HouseBooks
    BY <1>3 DEF Money, HouseBooks
  <2>2. ASSUME NEW c \in Closers PROVE StillOpen(closing[c])'
    <3>1. StillOpen(closing[c])
      BY <1>1 DEF LoneIInv
    <3>2. CASE closing'[c] = closing[c]
      BY <1>2, <1>3, <3>1, <3>2, OthersStay
    <3>3. CASE closing'[c] # closing[c]
      <4>1. UNCHANGED closing => FALSE
        BY <3>3
      <4>2. \/ \E d \in Closers : CloseStep(d)
            \/ \E d \in Closers, p \in Positions :
                 \E pnl \in ProfitRange(position[p].stake) : LoadPosition(d, p, pnl)
        BY <1>1, <4>1
           DEF CfdNext, OpenStep, OpenPosition, ReadBalances, DebitPosition, DebitRefused, deskVars
      <4>3. ASSUME NEW d \in Closers, CloseStep(d) PROVE closing'[c] = Idle
        BY <1>1, <1>2, <4>3
           DEF OneCloser, CloseStep, ClosePosition, CloseFails, DeskIInv, DeskTypeOK
      <4>4. ASSUME NEW d \in Closers, NEW p \in Positions,
                   NEW pnl \in ProfitRange(position[p].stake), LoadPosition(d, p, pnl)
            PROVE  closing'[c].position = p /\ position[p].status = "OPEN"
        BY <1>1, <1>2, <4>4 DEF OneCloser, LoadPosition, IsOpen, DeskIInv, DeskTypeOK
      <4>5. QED
        BY <1>3, <4>2, <4>3, <4>4 DEF StillOpen
    <3>4. QED
      BY <3>2, <3>3
  <2>3. QED
    BY <1>1, <1>2, <2>1, <2>2 DEF LoneIInv
<1>4. ASSUME NEW p \in Positions, DebitPosition(p) PROVE LoneIInv'
  <2>1. Money' = Money /\ HouseBooks' = HouseBooks
    BY <1>2, <1>4, DebitIsEven
  <2>2. ASSUME NEW c \in Closers PROVE StillOpen(closing[c])'
    <3>1. StillOpen(closing[c]) /\ closing'[c] = closing[c]
      BY <1>1, <1>4 DEF LoneIInv, DebitPosition
    <3>2. QED
      BY <1>2, <1>4, <3>1, OthersStay
  <2>3. QED
    BY <1>1, <1>2, <2>1, <2>2 DEF LoneIInv
<1>5. ASSUME NEW c \in Closers, ClosePosition(c) PROVE LoneIInv'
  <2>1. Money' = Money /\ HouseBooks' = HouseBooks
    BY <1>1, <1>2, <1>5, CloseIsEven DEF LoneIInv
  <2>2. \A d \in Closers : closing'[d] = Idle
    BY <1>1, <1>2, <1>5 DEF OneCloser, ClosePosition, DeskIInv, DeskTypeOK
  <2>3. \A d \in Closers : StillOpen(closing[d])'
    BY <2>2 DEF StillOpen
  <2>4. QED
    BY <1>1, <1>2, <2>1, <2>3 DEF LoneIInv
<1>6. QED
  BY <1>1, <1>3, <1>4, <1>5
     DEF CfdNext, OpenStep, CloseStep, OpenPosition, ReadBalances, DebitRefused,
         LoadPosition, CloseFails, deskVars

LEMMA SpecLone == ASSUME OneCloser PROVE DeskSpec => []LoneIInv
<1>1. DeskInit => LoneIInv
  BY InitLone
<1>2. LoneIInv /\ [CfdNext]_deskVars => LoneIInv'
  BY NextLone
<1>3. QED
  BY <1>1, <1>2, PTL DEF DeskSpec

(* While positions are closed one at a time, no money is made or lost       *)
(* between the account, the open positions and the treasury, whatever the   *)
(* spread, the fees, the results and the number of positions                *)
(* (CfdDesk.open, CfdDesk.closePosition).  With a second closer it is not   *)
(* so: see the run cfd_two_closers.                                         *)
THEOREM OneCloserConservesMoney == ASSUME OneCloser PROVE DeskSpec => []MoneyConserved
<1>1. LoneIInv => MoneyConserved
  <2>1. SUFFICES ASSUME LoneIInv PROVE MoneyConserved
    OBVIOUS
  <2>2. Balance(account) + StakedOf(position) + treasury = OpeningBalance + InitialTreasury
    BY <2>1 DEF LoneIInv, Money
  <2>3. StakedOf(position) = Staked({p \in Positions : position[p].status = "OPEN"})
    BY DEF StakedOf, OpenOf, Staked
  <2>4. QED
    BY <2>2, <2>3 DEF MoneyConserved
<1>2. QED
  BY <1>1, SpecLone, PTL

(* And the treasury is what the rows of the trades say: all fees less the   *)
(* results of the closed positions (cfd-tick-loop.test.ts:156).             *)
THEOREM OneCloserBooksTheTrades == ASSUME OneCloser PROVE DeskSpec => []TreasuryMatchesTrades
<1>1. LoneIInv => TreasuryMatchesTrades
  <2>1. SUFFICES ASSUME LoneIInv PROVE TreasuryMatchesTrades
    OBVIOUS
  <2>2. PICK t \in Int, f \in Int, r \in Int :
          t = treasury /\ f = FeesOf(position) /\ r = ResultsOf(position)
    BY <2>1, SumsAreInts DEF LoneIInv
  <2>3. (t + r) - f = InitialTreasury
    BY <2>1, <2>2 DEF LoneIInv, HouseBooks
  <2>4. t = InitialTreasury + (f - r)
    BY <2>2, <2>3
  <2>5. treasury = InitialTreasury + (FeesOf(position) - ResultsOf(position))
    BY <2>2, <2>4
  <2>6. QED
    BY <2>5, Zenon DEF TreasuryMatchesTrades, FeesOf, ResultsOf
<1>2. QED
  BY <1>1, SpecLone, PTL

----------------------------------------------------------------------------
(* CfdTriggers: the price, the stops and the result of one position. *)

LEMMA Quotient ==
  ASSUME NEW a \in Int, NEW b \in Nat \ {0}, NEW q \in Int, NEW r \in 0..(b - 1), a = b * q + r
  PROVE  a \div b = q
OBVIOUS

LEMMA DivIsInt == ASSUME NEW a \in Int, NEW b \in Nat \ {0} PROVE a \div b \in Int
OBVIOUS

LEMMA PricesAreInts == Prices \subseteq Int /\ Levels \cup {Unset} \subseteq Int
BY PriceAssumption DEF Unset

(* The prices that follow from the entry. *)
LEMMA PriceBounds ==
  ASSUME NEW side \in Direction
  PROVE  /\ LiqPrice(side) \in Int /\ MaxProfitPrice(side) \in Int
         /\ Worse(side, LiqPrice(side), MaxProfitPrice(side))
<1>1. PICK k, m : k = Entry \div Leverage /\ m = (2 * Entry) \div Leverage
  OBVIOUS
<1>2. Entry \in Nat /\ Leverage \in Nat \ {0}
  BY PriceAssumption, TermsAssumption
<1>3. k \in Nat /\ m \in Nat
  BY <1>1, <1>2
<1>4. CASE side = "UP"
  BY <1>1, <1>2, <1>3, <1>4 DEF LiqPrice, MaxProfitPrice, Shifted, Worse
<1>5. CASE side = "DOWN"
  BY <1>1, <1>2, <1>3, <1>5 DEF LiqPrice, MaxProfitPrice, Shifted, Worse
<1>6. QED
  BY <1>4, <1>5 DEF Direction

LEMMA MoveIsInt ==
  ASSUME NEW side \in Direction, NEW exit \in Int
  PROVE  LeveragedMove(side, exit) \in Int
<1>1. Entry \in Nat \ {0} /\ Leverage \in Nat \ {0} /\ Stake \in Nat \ {0}
  BY PriceAssumption, TermsAssumption
<1>2. PICK move : move = IF side = "UP" THEN exit - Entry ELSE Entry - exit
  OBVIOUS
<1>3. move \in Int
  BY <1>1, <1>2
<1>4. 2 * move * Stake * Leverage + Entry \in Int /\ 2 * Entry \in Nat \ {0}
  BY <1>1, <1>3
<1>5. (2 * move * Stake * Leverage + Entry) \div (2 * Entry) \in Int
  BY <1>4, DivIsInt
<1>6. QED
  BY <1>2, <1>5 DEF LeveragedMove

(* No loss beyond the stake, no profit beyond twice the stake. *)
LEMMA ProfitBounds ==
  ASSUME NEW side \in Direction, NEW exit \in Int
  PROVE  Profit(side, exit) \in (-Stake)..(2 * Stake)
<1>1. PICK move \in Int : move = LeveragedMove(side, exit)
  BY MoveIsInt
<1>2. Stake \in Nat \ {0}
  BY TermsAssumption
<1>3. QED
  BY <1>1, <1>2 DEF Profit, Lesser, Greater

(* At the liquidation price the stake is lost, to the cent. *)
LEMMA LiquidationCostsStake ==
  ASSUME NEW side \in Direction
  PROVE  Profit(side, LiqPrice(side)) = -Stake
<1>1. Entry \in Nat \ {0} /\ Leverage \in Nat \ {0} /\ Stake \in Nat \ {0}
  BY PriceAssumption, TermsAssumption
<1>2. PICK k \in Nat : k = Entry \div Leverage
  BY <1>1
<1>3. Entry = Leverage * k
  BY <1>1, <1>2, UnitAssumption
<1>4. LeveragedMove(side, LiqPrice(side))
        = (2 * (-k) * Stake * Leverage + Entry) \div (2 * Entry)
  <2>1. CASE side = "UP"
    <3>1. LiqPrice(side) - Entry = -k
      BY <1>1, <1>2, <2>1 DEF LiqPrice, Shifted
    <3>2. QED
      BY <2>1, <3>1 DEF LeveragedMove
  <2>2. CASE side = "DOWN"
    <3>1. Entry - LiqPrice(side) = -k /\ side # "UP"
      BY <1>1, <1>2, <2>2 DEF LiqPrice, Shifted
    <3>2. QED
      BY <3>1 DEF LeveragedMove
  <2>3. QED
    BY <2>1, <2>2 DEF Direction
<1>5. 2 * (-k) * Stake * Leverage = (2 * Entry) * (-Stake)
  BY <1>1, <1>2, <1>3
<1>6. PICK a, b : a = 2 * (-k) * Stake * Leverage + Entry /\ b = 2 * Entry
  OBVIOUS
<1>7. a \in Int /\ b \in Nat \ {0} /\ -Stake \in Int /\ Entry \in 0..(b - 1)
      /\ a = b * (-Stake) + Entry
  BY <1>1, <1>2, <1>5, <1>6
<1>8. a \div b = -Stake
  BY <1>7, Quotient
<1>9. LeveragedMove(side, LiqPrice(side)) = -Stake
  BY <1>4, <1>6, <1>8
<1>10. QED
  BY <1>1, <1>9 DEF Profit, Lesser, Greater

LEMMA WorseOfTwo ==
  ASSUME NEW side \in Direction, NEW a \in Int, NEW b \in Int
  PROVE  /\ WorseOf(side, a, b) \in {a, b} /\ Worse(side, WorseOf(side, a, b), b)
         /\ Worse(side, a, b) => WorseOf(side, a, b) = a
BY DEF Direction, WorseOf, Worse, Lesser, Greater

----------------------------------------------------------------------------
(* A scan that saw the margin exhausted is about to liquidate: the side and *)
(* the entry of a position never change, whatever a user does to it between *)
(* the scan's read and its write.                                           *)
ScanInv ==
  scan # Nothing =>
    (Worse(row.side, scan.at, LiqPrice(row.side)) => scan.hit = Hit("LIQUIDATION", LiqPrice(row.side)))

TriggersIInv == TriggersTypeOK /\ ResultMatchesExit /\ ScanInv

(* What a scan decides has a reason and a price. *)
LEMMA TriggerIsHit ==
  ASSUME NEW t \in RowRecord, NEW at \in Prices, NEW over \in BOOLEAN
  PROVE  /\ CheckTriggers(t, at, over) \in [reason: Reasons, exit: Int]
         /\ Worse(t.side, at, LiqPrice(t.side)) =>
              CheckTriggers(t, at, over) = Hit("LIQUIDATION", LiqPrice(t.side))
<1>1. PICK liq, target : liq = LiqPrice(t.side) /\ target = Target(t)
  OBVIOUS
<1>2. PICK stop : stop = EffectiveStop(t, at)
  OBVIOUS
<1>3. /\ t.side \in Direction /\ t.stop \in Int /\ t.target \in Int /\ t.trailing \in 0..50
      /\ at \in Int
  <2>1. /\ t.side \in Direction /\ t.stop \in Levels \cup {Unset}
        /\ t.target \in Levels \cup {Unset} /\ t.trailing \in TrailingPcts
    BY DEF RowRecord
  <2>2. QED
    BY <2>1, PricesAreInts, TermsAssumption
<1>4. liq \in Int /\ MaxProfitPrice(t.side) \in Int
  BY <1>1, <1>3, PriceBounds
<1>5. target \in Int
  BY <1>1, <1>3, <1>4, WorseOfTwo DEF Target
<1>6. stop \in Int
  <2>1. PICK back \in Int : back = (at * t.trailing) \div 100
    BY <1>3
  <2>2. Shifted(t.side, at, -((at * t.trailing) \div 100)) \in Int
    BY <1>3, <2>1 DEF Shifted
  <2>3. QED
    BY <1>2, <1>3, <2>2 DEF EffectiveStop, BetterOf, Greater, Lesser
<1>7. PICK liquidated : liquidated = Worse(t.side, at, liq)
  OBVIOUS
<1>8. PICK stopped : stopped = (t.stop # Unset /\ Worse(t.side, at, stop))
  OBVIOUS
<1>9. PICK taken : taken = Worse(t.side, target, at)
  OBVIOUS
<1>10. CheckTriggers(t, at, over) =
         CASE liquidated -> Hit("LIQUIDATION", liq)
           [] ~liquidated /\ stopped ->
                Hit(IF t.trailing > 0 THEN "TRAILING_STOP" ELSE "STOP_LOSS", stop)
           [] ~liquidated /\ ~stopped /\ taken -> Hit("TAKE_PROFIT", target)
           [] ~liquidated /\ ~stopped /\ ~taken /\ over -> Hit("DURATION", at)
           [] OTHER -> Hit("NONE", 0)
  BY <1>1, <1>2, <1>7, <1>8, <1>9, Zenon DEF CheckTriggers
<1>11. QED
  BY <1>1, <1>3, <1>4, <1>5, <1>6, <1>7, <1>10 DEF Hit, Reasons

(* A close writes one result, at a price within the cap. *)
LEMMA CloseWritesResult ==
  ASSUME row \in RowRecord, NEW reason \in Reasons \ {"NONE"}, NEW at \in Int,
         row' = Closed(row, reason, at)
  PROVE  /\ row' \in RowRecord /\ row'.side = row.side /\ ResultMatchesExit'
         /\ row'.status = "CLOSED"
         /\ at = LiqPrice(row.side) => row'.pnl = -Stake
<1>1. PICK side \in Direction : side = row.side
  BY DEF RowRecord
<1>2. LiqPrice(side) \in Int /\ MaxProfitPrice(side) \in Int
      /\ Worse(side, LiqPrice(side), MaxProfitPrice(side))
  BY PriceBounds
<1>3. PICK exit : exit = WorseOf(side, at, MaxProfitPrice(side))
  OBVIOUS
<1>4. exit \in Int /\ Worse(side, exit, MaxProfitPrice(side))
  BY <1>2, <1>3, WorseOfTwo
<1>5. PICK pnl : pnl = Profit(side, exit) /\ pnl \in (-Stake)..(2 * Stake)
  BY <1>4, ProfitBounds
<1>6. row' = [row EXCEPT !.status = "CLOSED", !.reason = reason, !.exit = exit, !.pnl = pnl]
  BY <1>1, <1>3, <1>5 DEF Closed
<1>7. /\ row' \in RowRecord /\ row'.side = side /\ row'.status = "CLOSED"
      /\ row'.reason = reason /\ row'.exit = exit /\ row'.pnl = pnl
  BY <1>1, <1>4, <1>5, <1>6 DEF RowRecord
<1>8. ResultMatchesExit'
  <2>1. Profit(row'.side, row'.exit) = pnl
    BY <1>5, <1>7
  <2>2. Worse(row'.side, row'.exit, MaxProfitPrice(row'.side))
    BY <1>4, <1>7
  <2>3. QED
    BY <1>7, <2>1, <2>2 DEF ResultMatchesExit
<1>9. ASSUME at = LiqPrice(row.side) PROVE row'.pnl = -Stake
  <2>1. exit = LiqPrice(side)
    BY <1>1, <1>2, <1>3, <1>9, WorseOfTwo
  <2>2. QED
    BY <1>5, <1>7, <2>1, LiquidationCostsStake
<1>10. QED
  BY <1>1, <1>7, <1>8, <1>9

----------------------------------------------------------------------------
LEMMA InitTriggers == TriggersInit => TriggersIInv
<1>1. SUFFICES ASSUME TriggersInit PROVE TriggersIInv
  OBVIOUS
<1>2. row \in RowRecord
  BY <1>1, TermsAssumption DEF TriggersInit, RowRecord, Reasons
<1>3. row.status = "OPEN"
  BY <1>1 DEF TriggersInit
<1>4. QED
  BY <1>1, <1>2, <1>3, PriceAssumption
  DEF TriggersInit, TriggersIInv, TriggersTypeOK, ResultMatchesExit, ScanInv

LEMMA TickKeeps == TriggersIInv /\ Tick => TriggersIInv'
BY DEF Tick, TriggersIInv, TriggersTypeOK, ResultMatchesExit, ScanInv

LEMMA ScanLoadKeeps ==
  ASSUME TriggersIInv, ScanLoad
  PROVE  TriggersIInv'
<1>1. row \in RowRecord /\ price \in Prices /\ expired \in BOOLEAN
  BY DEF TriggersIInv, TriggersTypeOK
<1>2. PICK hit : hit = CheckTriggers(row, price, expired)
  OBVIOUS
<1>3. /\ hit \in [reason: Reasons, exit: Int]
      /\ Worse(row.side, price, LiqPrice(row.side)) => hit = Hit("LIQUIDATION", LiqPrice(row.side))
  BY <1>1, <1>2, TriggerIsHit
<1>4. scan' = [pc |-> "loaded", at |-> price, hit |-> hit, peak |-> row.peak]
  BY <1>2 DEF ScanLoad
<1>5. UNCHANGED <<price, expired, row, modifying, manual>>
  BY DEF ScanLoad
<1>6. scan' \in [pc: {"loaded"}, at: Prices, hit: [reason: Reasons, exit: Int], peak: 0..(2 * Stake)]
  BY <1>1, <1>3, <1>4 DEF RowRecord
<1>7. TriggersTypeOK'
  BY <1>5, <1>6 DEF TriggersIInv, TriggersTypeOK
<1>8. ScanInv'
  <2>1. scan'.at = price /\ scan'.hit = hit
    BY <1>4
  <2>2. QED
    BY <1>3, <1>5, <2>1 DEF ScanInv
<1>9. QED
  BY <1>5, <1>7, <1>8 DEF TriggersIInv, ResultMatchesExit

(* The scan writes: a hit closes, anything else raises the peak at most.    *)
LEMMA ScanApplyWrites ==
  ASSUME TriggersIInv, ScanApply
  PROVE  /\ row' \in RowRecord /\ row'.side = row.side /\ ResultMatchesExit'
         /\ Worse(row.side, scan.at, LiqPrice(row.side)) =>
              row'.status = "CLOSED" /\ row'.pnl = -Stake
<1>1. row \in RowRecord /\ scan # Nothing /\ ResultMatchesExit /\ ScanInv
  BY DEF TriggersIInv, TriggersTypeOK, ScanApply
<1>2. /\ scan.hit.reason \in Reasons /\ scan.hit.exit \in Int
      /\ scan.at \in Prices /\ scan.peak \in 0..(2 * Stake)
  BY <1>1 DEF TriggersIInv, TriggersTypeOK
<1>3. CASE scan.hit.reason # "NONE"
  <2>1. row' = Closed(row, scan.hit.reason, scan.hit.exit)
    BY <1>3 DEF ScanApply
  <2>2. /\ row' \in RowRecord /\ row'.side = row.side /\ ResultMatchesExit'
        /\ row'.status = "CLOSED"
        /\ scan.hit.exit = LiqPrice(row.side) => row'.pnl = -Stake
    BY <1>1, <1>2, <1>3, <2>1, CloseWritesResult
  <2>3. Worse(row.side, scan.at, LiqPrice(row.side)) => scan.hit.exit = LiqPrice(row.side)
    BY <1>1 DEF ScanInv, Hit
  <2>4. QED
    BY <2>2, <2>3
<1>4. CASE scan.hit.reason = "NONE"
  <2>1. PICK pnl : pnl = Profit(row.side, scan.at) /\ pnl \in (-Stake)..(2 * Stake)
    <3>1. row.side \in Direction
      BY <1>1 DEF RowRecord
    <3>2. scan.at \in Int
      BY <1>2, PricesAreInts
    <3>3. QED
      BY <3>1, <3>2, ProfitBounds
  <2>2. PICK peak : peak = (IF pnl > scan.peak THEN pnl ELSE row.peak) /\ peak \in 0..(2 * Stake)
    BY <1>1, <1>2, <2>1, TermsAssumption DEF RowRecord
  <2>3. row' = [row EXCEPT !.peak = peak]
    BY <1>1, <1>4, <2>1, <2>2 DEF ScanApply, RowRecord
  <2>4. /\ row' \in RowRecord /\ row'.side = row.side /\ row'.status = row.status
        /\ row'.exit = row.exit /\ row'.pnl = row.pnl /\ row'.reason = row.reason
    BY <1>1, <2>2, <2>3 DEF RowRecord
  <2>5. ResultMatchesExit'
    BY <1>1, <2>4 DEF ResultMatchesExit
  <2>6. ~Worse(row.side, scan.at, LiqPrice(row.side))
    BY <1>1, <1>4 DEF ScanInv, Hit
  <2>7. QED
    BY <2>4, <2>5, <2>6
<1>5. QED
  BY <1>3, <1>4

LEMMA ScanApplyKeeps ==
  ASSUME TriggersIInv, ScanApply
  PROVE  TriggersIInv'
<1>1. row' \in RowRecord /\ ResultMatchesExit'
  BY ScanApplyWrites
<1>2. scan' = Nothing /\ UNCHANGED <<price, expired, modifying, manual>>
  BY DEF ScanApply
<1>3. QED
  BY <1>1, <1>2 DEF TriggersIInv, TriggersTypeOK, ScanInv

LEMMA ModifyKeeps ==
  ASSUME TriggersIInv, Modify
  PROVE  TriggersIInv'
<1>1. ASSUME NEW stop \in Levels \cup {Unset, Keep}, NEW target \in Levels \cup {Unset, Keep},
             ModifyCheck(stop, target)
      PROVE  TriggersIInv'
  BY <1>1 DEF ModifyCheck, TriggersIInv, TriggersTypeOK, ResultMatchesExit, ScanInv
<1>2. CASE ModifyWrite
  <2>1. row \in RowRecord /\ modifying # Nothing /\ ResultMatchesExit /\ ScanInv
    BY <1>2 DEF ModifyWrite, TriggersIInv, TriggersTypeOK
  <2>2. /\ modifying.stop \in Levels \cup {Unset, Keep}
        /\ modifying.target \in Levels \cup {Unset, Keep}
    BY <2>1 DEF TriggersIInv, TriggersTypeOK
  <2>3. UNCHANGED <<price, expired, scan, manual>> /\ modifying' = Nothing
    BY <1>2 DEF ModifyWrite
  <2>4. CASE ~RowStillOpen
    <3>1. row' = row
      BY <1>2, <2>4 DEF ModifyWrite
    <3>2. QED
      BY <2>3, <3>1 DEF TriggersIInv, TriggersTypeOK, ResultMatchesExit, ScanInv
  <2>5. CASE RowStillOpen
    <3>1. PICK stop, target :
            /\ stop = IF modifying.stop = Keep THEN row.stop ELSE modifying.stop
            /\ target = IF modifying.target = Keep THEN row.target ELSE modifying.target
      OBVIOUS
    <3>2. stop \in Levels \cup {Unset} /\ target \in Levels \cup {Unset}
      BY <2>1, <2>2, <3>1 DEF RowRecord
    <3>3. row' = [row EXCEPT !.stop = stop, !.target = target]
      BY <1>2, <2>1, <2>5, <3>1 DEF ModifyWrite, RowRecord
    <3>4. row' \in RowRecord /\ row'.side = row.side /\ row'.status = "OPEN"
      BY <2>1, <2>5, <3>2, <3>3 DEF RowRecord, RowStillOpen
    <3>5. ScanInv'
      BY <2>1, <2>3, <3>4 DEF ScanInv
    <3>6. QED
      BY <2>3, <3>4, <3>5 DEF TriggersIInv, TriggersTypeOK, ResultMatchesExit
  <2>6. QED
    BY <2>4, <2>5
<1>3. QED
  BY <1>1, <1>2 DEF Modify

LEMMA ManualKeeps ==
  ASSUME TriggersIInv, ManualLoad \/ ManualClose
  PROVE  TriggersIInv'
<1>1. CASE ManualLoad
  BY <1>1 DEF ManualLoad, TriggersIInv, TriggersTypeOK, ResultMatchesExit, ScanInv
<1>2. CASE ManualClose
  <2>1. row \in RowRecord /\ ScanInv /\ manual # Nothing
    BY <1>2 DEF ManualClose, TriggersIInv, TriggersTypeOK
  <2>2. manual.at \in Int
    <3>1. manual.at \in Prices
      BY <2>1 DEF TriggersIInv, TriggersTypeOK
    <3>2. QED
      BY <3>1, PricesAreInts
  <2>3. row' = Closed(row, "MANUAL", manual.at) /\ manual' = Nothing
        /\ UNCHANGED <<price, expired, scan, modifying>>
    BY <1>2 DEF ManualClose
  <2>4. "MANUAL" \in Reasons \ {"NONE"}
    BY DEF Reasons
  <2>5. row' \in RowRecord /\ row'.side = row.side /\ ResultMatchesExit'
    BY <2>1, <2>2, <2>3, <2>4, CloseWritesResult
  <2>6. ScanInv'
    BY <2>1, <2>3, <2>5 DEF ScanInv
  <2>7. QED
    BY <2>3, <2>5, <2>6 DEF TriggersIInv, TriggersTypeOK
<1>3. QED
  BY <1>1, <1>2

LEMMA NextTriggers == TriggersIInv /\ [TriggersNext]_triggersVars => TriggersIInv'
<1>1. SUFFICES ASSUME TriggersIInv, [TriggersNext]_triggersVars PROVE TriggersIInv'
  OBVIOUS
<1>2. CASE UNCHANGED triggersVars
  BY <1>1, <1>2 DEF triggersVars, TriggersIInv, TriggersTypeOK, ResultMatchesExit, ScanInv
<1>3. CASE TriggersNext
  BY <1>1, <1>3, TickKeeps, ScanLoadKeeps, ScanApplyKeeps, ModifyKeeps, ManualKeeps
  DEF TriggersNext
<1>4. QED
  BY <1>1, <1>2, <1>3

LEMMA SpecTriggers == TriggersSpec => []TriggersIInv
<1>1. QED
  BY InitTriggers, NextTriggers, PTL DEF TriggersSpec

(* Whichever of the scan and the user closes, in whatever order and however *)
(* often: the row shows the profit of the exit price it records, an exit    *)
(* within the profit cap (closePosition, cfd-desk.ts:352).                  *)
THEOREM OneResult == TriggersSpec => []ResultMatchesExit
<1>1. TriggersIInv => ResultMatchesExit
  BY DEF TriggersIInv
<1>2. QED
  BY <1>1, SpecTriggers, PTL

(* A scan that saw the price gap past the liquidation price takes the whole *)
(* stake, also where a stop lies nearer, and whatever the user did to the   *)
(* position before the scan writes (checkTriggers, cfd-desk.ts:276).        *)
THEOREM GapCostsTheStake == TriggersSpec => GapLiquidates
<1>1. ASSUME TriggersIInv, [TriggersNext]_triggersVars
      PROVE  [scan # Nothing /\ scan' = Nothing /\ Worse(row.side, scan.at, LiqPrice(row.side)) =>
                row'.status = "CLOSED" /\ row'.pnl = -Stake]_triggersVars
  <2>1. SUFFICES ASSUME TriggersNext, scan # Nothing, scan' = Nothing,
                        Worse(row.side, scan.at, LiqPrice(row.side))
                 PROVE  row'.status = "CLOSED" /\ row'.pnl = -Stake
    BY <1>1
  <2>2. ScanApply
    BY <2>1 DEF TriggersNext, Tick, ScanLoad, Modify, ModifyCheck, ModifyWrite, ManualLoad, ManualClose
  <2>3. QED
    BY <1>1, <2>1, <2>2, ScanApplyWrites
<1>2. QED
  BY <1>1, SpecTriggers, PTL DEF TriggersSpec, GapLiquidates
=============================================================================
